-------------------------- MODULE SlTransferProofs --------------------------
(***************************************************************************)
(* Proofs about the reading and writing of messages and the chunked calls, *)
(* for every length of payloads, buffers and chunks.                       *)
(***************************************************************************)
EXTENDS SlTransfer, SequenceTheorems, TLAPS

-----------------------------------------------------------------------------
(***************************************************************************)
(* Facts about alignment.                                                  *)
(***************************************************************************)

\* Rounding to words: a length is its words and its tail.
LEMMA AlignFacts ==
  ASSUME NEW n \in Nat
  PROVE  /\ AlignDown(n) \in Nat /\ AlignDown(n) % 4 = 0
         /\ AlignUp(n) \in Nat /\ AlignUp(n) % 4 = 0
         /\ n % 4 \in 0 .. 3 /\ AlignDown(n) + (n % 4) = n
         /\ AlignUp(n) = AlignDown(n) + IF n % 4 > 0 THEN 4 ELSE 0
  BY DEF AlignDown, AlignUp

\* A multiple of 4 in front is not rounded.
LEMMA AlignPrefix ==
  ASSUME NEW a \in Nat, a % 4 = 0, NEW n \in Nat
  PROVE  AlignUp(a + n) = a + AlignUp(n)
  BY DEF AlignDown, AlignUp

\* A buffer of u bytes for a payload of d bytes, a multiple of 4: when the
\* tail word has been read, the words behind the buffer are left.
LEMMA DumpWords ==
  ASSUME NEW d \in Nat, NEW u \in Nat, NEW a, d % 4 = 0, u < d,
         a = d - (AlignUp(u) - AlignDown(u))
  PROVE  /\ a > u => /\ a - AlignDown(u) \in Nat /\ a - AlignDown(u) <= d
                     /\ (a - AlignDown(u)) % 4 = 0
                     /\ a - AlignDown(u) = d - AlignUp(u)
         /\ ~(a > u) => AlignUp(u) = d
  BY DEF AlignUp, AlignDown

\* A value below the modulus is not changed by the reduction.
LEMMA NoWrap ==
  ASSUME NEW m \in Nat, NEW x \in Nat, x < m
  PROVE  x % m = x
  OBVIOUS
-----------------------------------------------------------------------------
(***************************************************************************)
(* The read and the write of one message.                                  *)
(***************************************************************************)

\* The fields of a message.
LEMMA MessageFields ==
  ASSUME NEW m \in AnyMessage
  PROVE  /\ m.class \in Classes
         /\ m.shift \in 0 .. 7 /\ m.again \in 0 .. 1
         /\ m.args \in Nat /\ m.args % 4 = 0
         /\ m.data \in Nat /\ m.data <= MaxLen /\ m.user \in Nat
         /\ m.class = "ASYNC_EVT_CLASS" => m.args = 0 /\ m.user = SL_ASYNC_MAX_PAYLOAD_LEN
         /\ m.class = "RECV_RESP_CLASS" => m.args >= 4
         /\ m.class = "DUMMY_MSG_CLASS" => m.args = 0 /\ m.data = 0
<1>. USE FramingAssumption DEF Sizes, Classes
<1>1. CASE m \in [class : {"ASYNC_EVT_CLASS"}, shift : 0 .. 7, again : 0 .. 1, args : {0},
                  data : Sizes, user : {SL_ASYNC_MAX_PAYLOAD_LEN}]
  BY <1>1
<1>2. CASE m \in [class : {"RECV_RESP_CLASS"}, shift : 0 .. 7, again : 0 .. 1,
                  args : {4, 12, 24}, data : Sizes, user : Sizes]
  BY <1>2
<1>3. CASE m \in [class : {"CMD_RESP_CLASS"}, shift : 0 .. 7, again : 0 .. 1,
                  args : {4, 8}, data : Sizes, user : Sizes]
  BY <1>3
<1>4. CASE m \in [class : {"DUMMY_MSG_CLASS"}, shift : 0 .. 7, again : 0 .. 1, args : {0},
                  data : {0}, user : {0}]
  BY <1>4
<1>. QED  BY <1>1, <1>2, <1>3, <1>4 DEF AnyMessage

\* What the network processor sends for a message, word by word.
LEMMA WireWords ==
  ASSUME NEW m \in AnyMessage
  PROVE  WireSize(m) = AlignUp(m.shift) + 4 * m.again + 12 + AlignUp(m.args + m.data)
<1>. DEFINE b == AlignUp(m.args + m.data)
<1>0. m.shift \in Nat /\ m.again \in Nat /\ m.args + m.data \in Nat
  BY MessageFields
<1>1. b \in Nat /\ b % 4 = 0
  BY <1>0, AlignFacts
<1>. HIDE DEF b
<1>. DEFINE a == 4 * m.again + 12 + b
<1>2. a \in Nat /\ a % 4 = 0
  BY <1>0, <1>1
<1>3. WireSize(m) = AlignUp(m.shift + SYNC_PATTERN_LEN * (1 + m.again) + _SL_RESP_HDR_SIZE + b)
  BY DEF WireSize, b
<1>4. m.shift + SYNC_PATTERN_LEN * (1 + m.again) + _SL_RESP_HDR_SIZE + b = a + m.shift
  BY <1>0, <1>1 DEF SYNC_PATTERN_LEN, _SL_RESP_HDR_SIZE
<1>5. AlignUp(a + m.shift) = a + AlignUp(m.shift)
  <2>. HIDE DEF a
  <2>. QED  BY <1>0, <1>2, AlignPrefix
<1>6. AlignUp(m.shift) \in Nat
  BY <1>0, AlignFacts
<1>. QED  BY <1>0, <1>1, <1>3, <1>4, <1>5, <1>6 DEF b

\* Its size is a number.
LEMMA WireSizeNat ==
  ASSUME NEW m \in AnyMessage
  PROVE  /\ WireSize(m) \in Nat /\ AlignUp(m.shift) \in Nat
         /\ AlignUp(m.args + m.data) \in Nat
<1>1. m.shift \in Nat /\ m.again \in Nat /\ m.args + m.data \in Nat
  BY MessageFields
<1>2. AlignUp(m.shift) \in Nat /\ AlignUp(m.args + m.data) \in Nat
  BY <1>1, AlignFacts
<1>. QED  BY <1>1, <1>2, WireWords

\* Between two messages.
LEMMA InitFraming == Init => FramingInv
<1>1. SUFFICES ASSUME Init PROVE FramingInv
  OBVIOUS
<1>2. NoMsg \in AnyMessage /\ Fits(NoMsg)
  BY DEF NoMsg, AnyMessage, Fits
<1>3. FramingType
  <2>1. cmd \in [desc : Nat, ext : BOOLEAN, tx : Nat, rx : Int]
    BY <1>1 DEF Init
  <2>2. msg \in AnyMessage /\ Fits(msg)
    BY <1>1, <1>2 DEF Init
  <2>3. /\ unread \in Nat /\ AlignedLengthRecv \in 0 .. U16 /\ AlignSize \in 0 .. 3
        /\ copied \in Nat /\ ActDataSize \in Int /\ announced \in Nat /\ written \in Nat
    BY <1>1, FramingAssumption DEF Init
  <2>4. phase = "done" /\ wphase = "idle" /\ sendRxPayload \in BOOLEAN
    BY <1>1 DEF Init
  <2>. QED  BY <2>1, <2>2, <2>3, <2>4 DEF FramingType
<1>. QED  BY <1>1, <1>3 DEF Init, FramingInv, LeftToRead, Stored, LeftToWrite, NoMsg, Classes

\* A message arrives.
LEMMA NwpSendFraming ==
  ASSUME FramingInv, NEW m \in AnyMessage, Fits(m), NwpSend(m)
  PROVE  FramingInv'
<1>. USE DEF FramingInv, NwpSend, writeVars
<1>1. WireSize(m) \in Nat
  BY WireSizeNat
<1>2. FramingType'
  BY <1>1 DEF FramingType
<1>3. LeftToRead' /\ Stored'
  BY DEF LeftToRead, Stored, WireSize, Classes
<1>4. LeftToWrite'
  BY DEF LeftToWrite
<1>. QED  BY <1>2, <1>3, <1>4

\* The header has been read: the message and the rest of a word are left.
LEMMA RxHdrReadFraming ==
  ASSUME FramingInv, RxHdrRead
  PROVE  FramingInv'
<1>. USE DEF FramingInv, RxHdrRead, writeVars
<1>. DEFINE c == msg.shift % SYNC_PATTERN_LEN
            n == 4 + 4 * ((msg.shift + 3) \div 4) + (IF c > 0 THEN c ELSE 4)
                   + SYNC_PATTERN_LEN * msg.again + 4
<1>1. msg \in AnyMessage /\ unread = WireSize(msg) /\ copied = 0
  BY DEF FramingType, LeftToRead, Stored
<1>2. msg.shift \in 0 .. 7 /\ msg.again \in Nat /\ AlignUp(msg.args + msg.data) \in Nat
  <2>1. msg.again \in 0 .. 1 /\ msg.shift \in 0 .. 7
    BY <1>1, MessageFields
  <2>2. AlignUp(msg.args + msg.data) \in Nat
    BY <1>1, WireSizeNat
  <2>. QED  BY <2>1, <2>2
<1>3. /\ n \in Nat /\ AlignSize' \in 0 .. 3
      /\ WireSize(msg) = n + AlignSize' + AlignUp(msg.args + msg.data)
  <2>1. 4 * ((msg.shift + 3) \div 4) = AlignUp(msg.shift)
    BY <1>2 DEF AlignUp, AlignDown
  <2>2. c \in 0 .. 3 /\ AlignUp(msg.shift) \in Nat
    BY <1>1, <1>2, WireSizeNat DEF SYNC_PATTERN_LEN
  <2>3. AlignSize' = IF c > 0 THEN 4 - c ELSE 0
    BY DEF SYNC_PATTERN_LEN
  <2>. QED  BY <1>1, <1>2, <2>1, <2>2, <2>3, WireWords DEF SYNC_PATTERN_LEN
<1>4. unread' = AlignSize' + AlignUp(msg.args + msg.data) /\ unread' \in Nat
  BY <1>1, <1>2, <1>3 DEF Read
<1>5. FramingType'
  BY <1>3, <1>4, <1>1, MessageFields DEF FramingType
<1>6. LeftToRead' /\ Stored'
  BY <1>1, <1>4, MessageFields DEF LeftToRead, Stored, Classes
<1>7. LeftToWrite'
  BY DEF LeftToWrite
<1>. QED  BY <1>5, <1>6, <1>7

\* A dummy message has nothing behind its header.
LEMMA ReadDummyFraming ==
  ASSUME FramingInv, ReadDummy
  PROVE  FramingInv'
<1>. USE DEF FramingInv, ReadDummy, writeVars
<1>1. FramingType'
  BY DEF FramingType
<1>2. /\ msg.class = "DUMMY_MSG_CLASS" /\ copied = 0 /\ msg.user \in Nat
      /\ unread = AlignSize + AlignUp(msg.args + msg.data)
      /\ msg.args = 0 /\ msg.data = 0
  BY MessageFields DEF FramingType, LeftToRead, Stored, Classes
<1>3. unread = AlignSize
  BY <1>2 DEF AlignUp, AlignDown, FramingType
<1>4. LeftToRead' /\ Stored'
  BY <1>2, <1>3 DEF LeftToRead, Stored, Classes
<1>5. LeftToWrite'
  BY DEF LeftToWrite
<1>. QED  BY <1>1, <1>4, <1>5

\* An event is read as far as its buffer goes, the rest is to be dumped.
LEMMA ReadAsyncFraming ==
  ASSUME FramingInv, ReadAsync
  PROVE  FramingInv'
<1>. USE DEF FramingInv, ReadAsync, writeVars
<1>. DEFINE n == Smaller(AlignUp(msg.data), SL_ASYNC_MAX_PAYLOAD_LEN)
<1>1. /\ msg \in AnyMessage /\ msg.class = "ASYNC_EVT_CLASS"
      /\ unread = AlignSize + AlignUp(msg.args + msg.data) /\ AlignSize \in Nat
  BY DEF FramingType, LeftToRead, Classes
<1>2. /\ msg.args = 0 /\ msg.data \in Nat /\ msg.data <= MaxLen
      /\ msg.user = SL_ASYNC_MAX_PAYLOAD_LEN
  BY <1>1, MessageFields
<1>3. AlignUp(msg.data) \in Nat /\ AlignUp(msg.data) % 4 = 0 /\ AlignUp(msg.data) <= U16
  <2>1. AlignUp(msg.data) \in Nat /\ AlignUp(msg.data) % 4 = 0
    BY <1>2, AlignFacts
  <2>2. AlignUp(msg.data) < msg.data + 4
    BY <1>2 DEF AlignUp, AlignDown
  <2>. QED  BY <1>2, <2>1, <2>2, FramingAssumption
<1>4. n \in Nat /\ n % 4 = 0 /\ n <= AlignUp(msg.data) /\ n <= msg.user
  BY <1>2, <1>3, FramingAssumption DEF Smaller
<1>5. unread = AlignSize + AlignUp(msg.data)
  BY <1>1, <1>2
<1>6. /\ unread' = unread - n /\ unread' \in Nat
      /\ AlignedLengthRecv' = AlignUp(msg.data) - n
      /\ AlignedLengthRecv' \in 0 .. U16 /\ AlignedLengthRecv' % 4 = 0
      /\ unread' = AlignSize + AlignedLengthRecv'
      /\ copied' = n
  <2>. HIDE DEF n
  <2>1. Read(n) /\ copied' = n /\ AlignedLengthRecv' = AlignUp(msg.data) - n
    BY DEF n
  <2>. QED  BY <1>1, <1>3, <1>4, <1>5, <2>1, FramingAssumption DEF Read
<1>7. FramingType'
  BY <1>4, <1>6 DEF FramingType
<1>8. LeftToRead' /\ Stored'
  BY <1>1, <1>4, <1>6 DEF LeftToRead, Stored, Classes
<1>9. LeftToWrite'
  BY DEF LeftToWrite
<1>. QED  BY <1>7, <1>8, <1>9

\* The answer to a receive is read as a whole.
LEMMA ReadRecvFraming ==
  ASSUME FramingInv, ReadRecv
  PROVE  FramingInv'
<1>. USE DEF FramingInv, ReadRecv, writeVars
<1>1. /\ msg \in AnyMessage /\ msg.class = "RECV_RESP_CLASS" /\ Fits(msg)
      /\ unread = AlignSize + AlignUp(msg.args + msg.data) /\ AlignSize \in 0 .. 3
  BY DEF FramingType, LeftToRead, Classes
<1>2. /\ msg.args \in Nat /\ msg.args >= 4 /\ msg.args % 4 = 0
      /\ msg.data \in Nat /\ msg.user \in Nat /\ msg.data <= msg.user
  BY <1>1, MessageFields DEF Fits
<1>3. unread = AlignSize + msg.args + AlignUp(msg.data)
  <2>1. AlignUp(msg.args + msg.data) = msg.args + AlignUp(msg.data)
    BY <1>2, AlignPrefix
  <2>2. AlignUp(msg.data) \in Nat
    BY <1>2, AlignFacts
  <2>. QED  BY <1>1, <1>2, <2>1, <2>2
<1>4. unread' = AlignSize
  <2>1. Read(4 + (msg.args - 4) + AlignDown(msg.data) + (IF msg.data % 4 > 0 THEN 4 ELSE 0))
    BY DEF RECV_ARGS_SIZE
  <2>2. /\ AlignUp(msg.data) = AlignDown(msg.data) + (IF msg.data % 4 > 0 THEN 4 ELSE 0)
        /\ AlignDown(msg.data) \in Nat
    BY <1>2, AlignFacts
  <2>3. 4 + (msg.args - 4) + AlignDown(msg.data) + (IF msg.data % 4 > 0 THEN 4 ELSE 0)
          = unread - AlignSize
    <3>. DEFINE d == AlignDown(msg.data)
                tail == IF msg.data % 4 > 0 THEN 4 ELSE 0
    <3>1. d \in Nat /\ tail \in Nat /\ unread = AlignSize + msg.args + (d + tail)
      BY <1>3, <2>2
    <3>. HIDE DEF d, tail
    <3>2. 4 + (msg.args - 4) + d + tail = unread - AlignSize
      BY <1>1, <1>2, <3>1
    <3>. QED  BY <3>2 DEF d, tail
  <2>. QED  BY <1>1, <2>1, <2>3 DEF Read, FramingType
<1>5. copied' = msg.data
  BY <1>2, AlignFacts
<1>6. FramingType'
  BY <1>1, <1>2, <1>4, <1>5 DEF FramingType
<1>7. LeftToRead' /\ Stored'
  BY <1>1, <1>2, <1>4, <1>5 DEF LeftToRead, Stored, Classes
<1>8. LeftToWrite'
  BY DEF LeftToWrite
<1>. QED  BY <1>6, <1>7, <1>8
\* The descriptor of a response has been read.
LEMMA ReadDescriptorFraming ==
  ASSUME FramingInv, ReadDescriptor
  PROVE  FramingInv'
<1>. USE DEF FramingInv
<1>0. /\ phase = "CMD_RESP_CLASS" /\ Read(AlignUp(msg.args)) /\ ActDataSize' = msg.data
      /\ phase' = IF msg.user # 0 /\ msg.data > 0 THEN "payload" ELSE "align"
      /\ UNCHANGED <<msg, AlignedLengthRecv, AlignSize, copied,
                     cmd, wphase, sendRxPayload, announced, written>>
  BY DEF ReadDescriptor, writeVars
<1>1. /\ msg \in AnyMessage /\ msg.class = "CMD_RESP_CLASS" /\ Fits(msg) /\ copied = 0
      /\ unread = AlignSize + AlignUp(msg.args + msg.data) /\ AlignSize \in 0 .. 3
  BY <1>0 DEF FramingType, LeftToRead, Stored, Classes
<1>2. msg.args \in Nat /\ msg.args % 4 = 0 /\ msg.data \in Nat /\ msg.user \in Nat
  BY <1>1, MessageFields
<1>3. /\ AlignUp(msg.args) = msg.args /\ AlignUp(msg.data) \in Nat
      /\ AlignUp(msg.args + msg.data) = msg.args + AlignUp(msg.data)
      /\ msg.data = 0 => AlignUp(msg.data) = 0
  BY <1>2 DEF AlignUp, AlignDown
<1>4. unread' = AlignSize + AlignUp(msg.data)
  BY <1>0, <1>1, <1>2, <1>3 DEF Read
<1>5. msg.user = 0 \/ ~(msg.data > 0) => msg.data = 0 /\ Smaller(msg.data, msg.user) = 0
  BY <1>1, <1>2 DEF Fits, Smaller
<1>6. FramingType'
  <2>1. unread' \in Nat /\ ActDataSize' \in Int
    BY <1>0, <1>1, <1>2, <1>3, <1>4
  <2>. QED  BY <1>0, <2>1 DEF FramingType
<1>7. LeftToRead'
  <2>1. phase' = "align" => unread' = AlignSize
    BY <1>0, <1>1, <1>2, <1>3, <1>4, <1>5
  <2>. QED  BY <1>0, <1>4, <2>1 DEF LeftToRead, Classes
<1>8. Stored'
  BY <1>0, <1>1, <1>2, <1>5 DEF Stored, Classes
<1>9. LeftToWrite'
  BY <1>0 DEF LeftToWrite
<1>. QED  BY <1>6, <1>7, <1>8, <1>9

\* What fits of the payload has been read.
LEMMA ReadPayloadFraming ==
  ASSUME FramingInv, ReadPayload
  PROVE  FramingInv'
<1>. USE DEF FramingInv
<1>. DEFINE n == Smaller(msg.data, msg.user)
            tail == IF n % 4 > 0 THEN 4 ELSE 0
<1>1. /\ phase = "payload" /\ msg \in AnyMessage /\ msg.class = "CMD_RESP_CLASS" /\ Fits(msg)
      /\ msg.user > 0 /\ ActDataSize = msg.data
      /\ unread = AlignSize + AlignUp(msg.data) /\ AlignSize \in 0 .. 3
  BY DEF ReadPayload, FramingType, LeftToRead, Stored, Classes
<1>0. /\ Read(AlignDown(n) + tail) /\ copied' = AlignDown(n) + (n % 4)
      /\ ActDataSize' = msg.data - tail /\ phase' = "rest"
      /\ UNCHANGED <<msg, AlignedLengthRecv, AlignSize,
                     cmd, wphase, sendRxPayload, announced, written>>
  BY <1>1 DEF ReadPayload, writeVars
<1>2. msg.data \in Nat /\ msg.user \in Nat /\ n \in Nat /\ n <= msg.data /\ n <= msg.user
  BY <1>1, MessageFields DEF Smaller
<1>3. /\ AlignDown(n) + tail = AlignUp(n) /\ tail = AlignUp(n) - AlignDown(n)
      /\ AlignDown(n) + (n % 4) = n /\ AlignUp(n) \in Nat /\ AlignUp(msg.data) \in Nat
      /\ AlignUp(n) <= AlignUp(msg.data)
  <2>. HIDE DEF n
  <2>. QED  BY <1>2 DEF AlignUp, AlignDown
<1>4. /\ unread' = AlignSize + AlignUp(msg.data) - AlignUp(n) /\ unread' \in Nat
      /\ ActDataSize' = msg.data - (AlignUp(n) - AlignDown(n)) /\ ActDataSize' \in Int
      /\ copied' = n
  <2>. HIDE DEF n
  <2>1. ActDataSize' \in Int
    BY <1>0, <1>2
  <2>. QED  BY <1>0, <1>1, <1>3, <2>1 DEF Read
<1>. HIDE DEF n, tail
<1>5. FramingType'
  BY <1>0, <1>2, <1>4 DEF FramingType
<1>6. LeftToRead'
  BY <1>0, <1>4 DEF LeftToRead, Classes, n
<1>7. Stored'
  BY <1>0, <1>1, <1>2, <1>4 DEF Stored, Classes, n
<1>8. LeftToWrite'
  BY <1>0 DEF LeftToWrite
<1>. QED  BY <1>5, <1>6, <1>7, <1>8

\* How much there is to dump: the words behind those that were read.  It is
\* right for payloads that fit or are a multiple of 4.
LEMMA RestToDumpFraming ==
  ASSUME FramingInv, RestToDump
  PROVE  FramingInv'
<1>. USE DEF FramingInv
<1>. DEFINE n == Smaller(msg.data, msg.user)
<1>0. /\ phase = "rest" /\ phase' = "dump"
      /\ AlignedLengthRecv' = IF ActDataSize > msg.user
                              THEN (ActDataSize - AlignDown(msg.user)) % U16 ELSE 0
      /\ UNCHANGED <<msg, unread, AlignSize, copied, ActDataSize,
                     cmd, wphase, sendRxPayload, announced, written>>
  BY DEF RestToDump, writeVars
<1>1. /\ msg \in AnyMessage /\ msg.class = "CMD_RESP_CLASS" /\ Fits(msg) /\ msg.user > 0
      /\ copied = n /\ AlignSize \in 0 .. 3
      /\ ActDataSize = msg.data - (AlignUp(n) - AlignDown(n))
      /\ unread = AlignSize + AlignUp(msg.data) - AlignUp(n)
  BY <1>0 DEF FramingType, LeftToRead, Stored, Classes
<1>2. msg.data \in Nat /\ msg.user \in Nat /\ msg.data <= MaxLen /\ MaxLen < U16 /\ U16 \in Nat
  BY <1>1, MessageFields, FramingAssumption
<1>3. /\ AlignedLengthRecv' \in 0 .. U16 /\ AlignedLengthRecv' % 4 = 0
      /\ AlignUp(msg.data) - AlignUp(n) = AlignedLengthRecv'
  <2>1. CASE msg.data <= msg.user
    <3>1. n = msg.data
      BY <1>2, <2>1 DEF Smaller
    <3>2. ActDataSize <= msg.user /\ ActDataSize \in Int /\ AlignUp(msg.data) \in Nat
      <4>1. ActDataSize = msg.data - (AlignUp(msg.data) - AlignDown(msg.data))
        BY <1>1, <3>1
      <4>. QED  BY <1>2, <2>1, <4>1 DEF AlignUp, AlignDown
    <3>3. AlignedLengthRecv' = 0
      BY <1>0, <1>2, <3>2
    <3>. QED  BY <1>2, <3>1, <3>2, <3>3
  <2>2. CASE msg.user < msg.data
    <3>1. n = msg.user /\ msg.data % 4 = 0
      BY <1>1, <1>2, <2>2 DEF Smaller, Fits
    <3>2. AlignUp(msg.data) = msg.data
      BY <1>2, <3>1 DEF AlignUp, AlignDown
    <3>a. ActDataSize = msg.data - (AlignUp(msg.user) - AlignDown(msg.user))
      BY <1>1, <3>1
    <3>3. CASE ActDataSize > msg.user
      <4>. DEFINE x == ActDataSize - AlignDown(msg.user)
      <4>1. x \in Nat /\ x < U16 /\ x % 4 = 0 /\ x = msg.data - AlignUp(msg.user)
        <5>1. x \in Nat /\ x <= msg.data /\ x % 4 = 0 /\ x = msg.data - AlignUp(msg.user)
          BY <1>2, <2>2, <3>1, <3>a, <3>3, DumpWords
        <5>. HIDE DEF x
        <5>. QED  BY <1>2, <5>1, FramingAssumption
      <4>2. AlignedLengthRecv' = x % U16
        BY <1>0, <3>3
      <4>3. x % U16 = x
        <5>. HIDE DEF x
        <5>. QED  BY <1>2, <4>1, NoWrap
      <4>. QED  BY <1>2, <3>1, <3>2, <4>1, <4>2, <4>3
    <3>4. CASE ~(ActDataSize > msg.user)
      <4>1. AlignUp(msg.user) = msg.data
        BY <1>2, <2>2, <3>1, <3>a, <3>4, DumpWords
      <4>. QED  BY <1>0, <1>2, <3>1, <3>2, <3>4, <4>1
    <3>. QED  BY <3>3, <3>4
  <2>. QED  BY <1>2, <2>1, <2>2
<1>4. unread' = AlignSize + AlignedLengthRecv'
  <2>1. AlignUp(msg.data) \in Nat /\ AlignUp(n) \in Nat
    <3>1. n \in Nat
      BY <1>2 DEF Smaller
    <3>. QED  BY <1>2, <3>1, AlignFacts
  <2>. HIDE DEF n
  <2>. QED  BY <1>0, <1>1, <1>3, <2>1
<1>5. FramingType'
  BY <1>0, <1>3 DEF FramingType
<1>6. LeftToRead'
  BY <1>0, <1>3, <1>4 DEF LeftToRead, Classes
<1>7. Stored'
  BY <1>0 DEF Stored, Classes
<1>8. LeftToWrite'
  BY <1>0 DEF LeftToWrite
<1>. QED  BY <1>5, <1>6, <1>7, <1>8

\* One round of the dump loop.
LEMMA DumpFraming ==
  ASSUME FramingInv, Dump
  PROVE  FramingInv'
<1>. USE DEF FramingInv
<1>0. /\ phase = "dump" /\ AlignedLengthRecv > 0 /\ Read(4)
      /\ AlignedLengthRecv' = (AlignedLengthRecv - 4) % U16
      /\ UNCHANGED <<msg, phase, AlignSize, copied, ActDataSize,
                     cmd, wphase, sendRxPayload, announced, written>>
  BY DEF Dump, writeVars
<1>1. /\ AlignedLengthRecv \in 0 .. U16 /\ AlignedLengthRecv % 4 = 0 /\ AlignSize \in 0 .. 3
      /\ unread = AlignSize + AlignedLengthRecv
  BY <1>0 DEF FramingType, LeftToRead
<1>2. AlignedLengthRecv - 4 \in Nat /\ AlignedLengthRecv - 4 < U16 /\ U16 \in Nat
  BY <1>0, <1>1, FramingAssumption
<1>3. AlignedLengthRecv' = AlignedLengthRecv - 4
  BY <1>0, <1>2, NoWrap
<1>4. /\ unread' = AlignSize + AlignedLengthRecv' /\ unread' \in Nat
      /\ AlignedLengthRecv' % 4 = 0 /\ AlignedLengthRecv' \in 0 .. U16
  BY <1>0, <1>1, <1>2, <1>3 DEF Read
<1>5. FramingType'
  BY <1>0, <1>4 DEF FramingType
<1>6. LeftToRead' /\ Stored'
  BY <1>0, <1>4 DEF LeftToRead, Stored, Classes
<1>7. LeftToWrite'
  BY <1>0 DEF LeftToWrite
<1>. QED  BY <1>5, <1>6, <1>7

\* The end of the dump loop.
LEMMA DumpEndFraming ==
  ASSUME FramingInv, DumpEnd
  PROVE  FramingInv'
<1>. USE DEF FramingInv
<1>0. /\ phase = "dump" /\ AlignedLengthRecv = 0 /\ phase' = "align"
      /\ UNCHANGED <<msg, unread, AlignedLengthRecv, AlignSize, copied, ActDataSize,
                     cmd, wphase, sendRxPayload, announced, written>>
  BY DEF DumpEnd, writeVars
<1>1. unread = AlignSize
  BY <1>0 DEF FramingType, LeftToRead
<1>2. FramingType' /\ LeftToRead' /\ Stored' /\ LeftToWrite'
  BY <1>0, <1>1 DEF FramingType, LeftToRead, Stored, LeftToWrite, Classes
<1>. QED  BY <1>2

\* The rest of the last word: the interface is empty.
LEMMA ReadAlignFraming ==
  ASSUME FramingInv, ReadAlign
  PROVE  FramingInv'
<1>. USE DEF FramingInv
<1>0. /\ phase = "align" /\ Read(AlignSize) /\ phase' = "done" /\ msg' = NoMsg
      /\ AlignedLengthRecv' = 0 /\ AlignSize' = 0 /\ ActDataSize' = 0
      /\ UNCHANGED <<copied, cmd, wphase, sendRxPayload, announced, written>>
  BY DEF ReadAlign, writeVars
<1>1. unread' = 0
  BY <1>0 DEF FramingType, LeftToRead, Read
<1>2. NoMsg \in AnyMessage /\ Fits(NoMsg)
  BY DEF NoMsg, AnyMessage, Fits
<1>3. FramingType'
  BY <1>0, <1>1, <1>2, FramingAssumption DEF FramingType
<1>4. LeftToRead' /\ Stored' /\ LeftToWrite'
  BY <1>0, <1>1 DEF LeftToRead, Stored, LeftToWrite, Classes
<1>. QED  BY <1>3, <1>4

-----------------------------------------------------------------------------
\* A command as its callers give it: a negative RxPayloadLen is a multiple of 4.
Framed(c) ==
  /\ c \in [desc : Nat, ext : BOOLEAN, tx : Nat, rx : Int]
  /\ c.rx < 0 => c.rx % 4 = 0

\* The commands of the driver are framed.
LEMMA CommandFramed ==
  ASSUME NEW c \in Command
  PROVE  Framed(c)
<1>1. /\ c \in [desc : 0 .. 12, ext : BOOLEAN, tx : Sizes, rx : (-MaxLen) .. MaxLen]
      /\ c.rx < 0 => c.rx % 4 = 0
  BY FramingAssumption DEF AnyCommand
<1>2. 0 .. 12 \subseteq Nat /\ Sizes \subseteq Nat /\ (-MaxLen) .. MaxLen \subseteq Int
  BY FramingAssumption DEF Sizes
<1>3. c \in [desc : Nat, ext : BOOLEAN, tx : Nat, rx : Int]
  BY <1>1, <1>2
<1>. QED  BY <1>1, <1>3 DEF Framed

\* The header announces the arguments and both payloads.
LEMMA WriteHeaderFraming ==
  ASSUME FramingInv, NEW c, Framed(c), WriteHeader(c)
  PROVE  FramingInv'
<1>. USE DEF FramingInv
<1>. DEFINE sends == c.ext /\ c.rx < 0 /\ c.tx # 0
<1>0. /\ phase = "done" /\ wphase = "idle" /\ sendRxPayload' = sends
      /\ cmd' = IF sends THEN [c EXCEPT !.rx = -@] ELSE c
      /\ announced' = _SL_PROTOCOL_CALC_LEN(c) + IF sends THEN -c.rx ELSE 0
      /\ written' = 0 /\ copied' = 0 /\ wphase' = "arguments"
      /\ UNCHANGED <<msg, phase, unread, AlignedLengthRecv, AlignSize, ActDataSize>>
  BY DEF WriteHeader
<1>1. c.desc \in Nat /\ c.ext \in BOOLEAN /\ c.tx \in Nat /\ c.rx \in Int /\ sends \in BOOLEAN
  BY DEF Framed
<1>2. /\ cmd'.desc = c.desc /\ cmd'.ext = c.ext /\ cmd'.tx = c.tx
      /\ cmd'.rx = IF sends THEN -c.rx ELSE c.rx
      /\ cmd' \in [desc : Nat, ext : BOOLEAN, tx : Nat, rx : Int]
  <2>1. CASE sends
    <3>1. c \in [desc : Nat, ext : BOOLEAN, tx : Nat, rx : Int] /\ -c.rx \in Int
      BY <1>1 DEF Framed
    <3>2. cmd' = [c EXCEPT !.rx = -c.rx]
      BY <1>0, <2>1
    <3>. QED  BY <2>1, <3>1, <3>2
  <2>2. CASE ~sends
    BY <1>0, <1>1, <2>2 DEF Framed
  <2>. QED  BY <2>1, <2>2
<1>3. AlignUp(c.desc) \in Nat /\ AlignUp(c.tx) \in Nat /\ (c.tx = 0 => AlignUp(c.tx) = 0)
  BY <1>1 DEF AlignUp, AlignDown
<1>4. sends => AlignUp(-c.rx) = -c.rx /\ -c.rx > 0 /\ -c.rx \in Nat
  <2>1. c.rx < 0 /\ c.rx % 4 = 0 => AlignUp(-c.rx) = -c.rx /\ -c.rx > 0 /\ -c.rx \in Nat
    BY <1>1 DEF AlignUp, AlignDown
  <2>. QED  BY <2>1 DEF Framed
<1>5. /\ announced' \in Nat
      /\ announced' = AlignUp(cmd'.desc) + (IF sendRxPayload' THEN AlignUp(cmd'.rx) ELSE 0)
                        + (IF cmd'.ext /\ cmd'.tx > 0 THEN AlignUp(cmd'.tx) ELSE 0)
  <2>1. CASE sends
    BY <1>0, <1>1, <1>2, <1>3, <1>4, <2>1 DEF _SL_PROTOCOL_CALC_LEN
  <2>2. CASE ~sends
    <3>1. announced' = AlignUp(c.desc) + IF c.ext THEN AlignUp(c.tx) ELSE 0
      BY <1>0, <1>1, <1>3, <2>2 DEF _SL_PROTOCOL_CALC_LEN
    <3>2. ~sendRxPayload' /\ cmd' = c
      BY <1>0, <2>2
    <3>. QED  BY <1>1, <1>3, <3>1, <3>2
  <2>. QED  BY <2>1, <2>2
<1>6. FramingType'
  BY <1>0, <1>1, <1>2, <1>5 DEF FramingType
<1>7. LeftToRead' /\ Stored'
  BY <1>0 DEF LeftToRead, Stored, Classes
<1>8. LeftToWrite'
  BY <1>0, <1>2, <1>4, <1>5 DEF LeftToWrite
<1>. QED  BY <1>6, <1>7, <1>8

\* The arguments and the payload follow.
LEMMA MsgWriteFraming ==
  ASSUME FramingInv, MsgWrite
  PROVE  FramingInv'
<1>. USE DEF FramingInv
<1>. DEFINE extra == IF sendRxPayload THEN AlignUp(cmd.rx) ELSE 0
            body  == IF cmd.ext /\ cmd.tx > 0 THEN AlignUp(cmd.tx) ELSE 0
<1>1. UNCHANGED <<msg, phase, unread, AlignedLengthRecv, AlignSize, copied, ActDataSize,
                  cmd, sendRxPayload, announced>>
  BY DEF MsgWrite, WriteArguments, WritePayload, readVars
<1>2. LeftToRead' /\ Stored'
  BY <1>1 DEF LeftToRead, Stored
<1>3. /\ cmd.desc \in Nat /\ cmd.tx \in Nat /\ cmd.rx \in Int /\ announced \in Nat
      /\ wphase # "idle" => announced = AlignUp(cmd.desc) + extra + body
      /\ wphase # "idle" /\ sendRxPayload => cmd.rx > 0
      /\ wphase = "payload" => written = AlignUp(cmd.desc) + extra
  BY DEF FramingType, LeftToWrite
<1>4. AlignUp(cmd.desc) \in Nat /\ body \in Nat
  BY <1>3, AlignFacts
<1>5. wphase # "idle" => extra \in Nat
  <2>1. wphase # "idle" /\ sendRxPayload => cmd.rx \in Nat
    BY <1>3
  <2>. QED  BY <2>1, AlignFacts
<1>. HIDE DEF extra, body
<1>6. CASE WriteArguments
  <2>1. wphase = "arguments" /\ wphase' = "payload" /\ written' = AlignUp(cmd.desc) + extra
    BY <1>6 DEF WriteArguments, extra
  <2>2. LeftToWrite'
    BY <1>1, <1>3, <2>1 DEF LeftToWrite, extra, body
  <2>3. FramingType'
    BY <1>1, <1>4, <1>5, <2>1 DEF FramingType
  <2>. QED  BY <1>2, <2>2, <2>3
<1>7. CASE WritePayload
  <2>1. wphase = "payload" /\ wphase' = "idle" /\ written' = written + body
    BY <1>7 DEF WritePayload, body
  <2>2. written' = announced
    BY <1>3, <1>4, <1>5, <2>1
  <2>3. LeftToWrite'
    BY <1>1, <2>1, <2>2 DEF LeftToWrite
  <2>4. FramingType'
    BY <1>1, <1>3, <2>1, <2>2 DEF FramingType
  <2>. QED  BY <1>2, <2>3, <2>4
<1>. QED  BY <1>6, <1>7 DEF MsgWrite

\* Every step of the read preserves the invariant.
LEMMA MsgReadFraming ==
  ASSUME FramingInv, MsgRead
  PROVE  FramingInv'
  BY RxHdrReadFraming, ReadDummyFraming, ReadAsyncFraming, ReadRecvFraming,
     ReadDescriptorFraming, ReadPayloadFraming, RestToDumpFraming, DumpFraming,
     DumpEndFraming, ReadAlignFraming DEF MsgRead

\* The properties of the interface follow from the invariant.
LEMMA FramingProperties == FramingInv => InStep /\ BufferFilled
<1>1. SUFFICES ASSUME FramingInv PROVE InStep /\ BufferFilled
  OBVIOUS
<1>2. InStep
  BY <1>1 DEF FramingInv, InStep, LeftToRead, LeftToWrite
<1>3. msg.user \in Nat
  BY <1>1, MessageFields DEF FramingInv, FramingType
<1>. QED  BY <1>1, <1>2, <1>3 DEF FramingInv, FramingType, BufferFilled, Stored
-----------------------------------------------------------------------------
(***************************************************************************)
(* The chunks of a call.                                                   *)
(***************************************************************************)

\* A chunk of n bytes is a sequence of n pairs.
LEMMA PairsType ==
  ASSUME NEW s \in Nat, NEW n \in Nat
  PROVE  Pairs(0, s, n) \in Seq(Int \X Int) /\ Len(Pairs(0, s, n)) = n
  BY DEF Pairs

\* Chunks that follow each other are one piece.
LEMMA PairsConcat ==
  ASSUME NEW a \in Nat, NEW b \in Nat, NEW s \in Nat
  PROVE  Pairs(0, s, a) \o Pairs(a, s + a, b) = Pairs(0, s, a + b)
<1>. DEFINE x == Pairs(0, s, a)
            y == Pairs(a, s + a, b)
            z == Pairs(0, s, a + b)
<1>1. /\ x \in Seq(Int \X Int) /\ Len(x) = a /\ \A i \in 1 .. a : x[i] = <<0 + i - 1, s + i - 1>>
      /\ y \in Seq(Int \X Int) /\ Len(y) = b
      /\ \A i \in 1 .. b : y[i] = <<a + i - 1, s + a + i - 1>>
      /\ z \in Seq(Int \X Int) /\ Len(z) = a + b
      /\ \A i \in 1 .. a + b : z[i] = <<0 + i - 1, s + i - 1>>
  BY DEF Pairs
<1>. HIDE DEF x, y, z
<1>2. /\ x \o y \in Seq(Int \X Int) /\ Len(x \o y) = a + b
      /\ \A i \in 1 .. a + b : (x \o y)[i] = IF i <= a THEN x[i] ELSE y[i - a]
  BY <1>1, ConcatProperties
<1>3. \A i \in 1 .. a + b : (x \o y)[i] = z[i]
  <2>1. SUFFICES ASSUME NEW i \in 1 .. a + b PROVE (x \o y)[i] = z[i]
    OBVIOUS
  <2>a. i \in Int /\ 1 <= i /\ i <= a + b
    OBVIOUS
  <2>2. CASE i <= a
    <3>1. i \in 1 .. a
      BY <2>a, <2>2
    <3>. QED  BY <1>1, <1>2, <2>2, <3>1
  <2>3. CASE a < i
    <3>1. i - a \in 1 .. b /\ a + (i - a) - 1 = 0 + i - 1 /\ s + a + (i - a) - 1 = s + i - 1
      BY <2>3
    <3>2. (x \o y)[i] = y[i - a]
      BY <1>2, <2>3
    <3>3. y[i - a] = <<a + (i - a) - 1, s + a + (i - a) - 1>>
      BY <1>1, <3>1
    <3>. QED  BY <1>1, <3>1, <3>2, <3>3
  <2>4. i <= a \/ a < i
    BY <2>a
  <2>. QED  BY <2>2, <2>3, <2>4
<1>4. x \o y = z
  BY <1>1, <1>2, <1>3, SeqEqual
<1>. QED  BY <1>1, <1>4 DEF x, y, z

\* A chunk is never longer than a message, nor than what is left.
LEMMA ChunkFacts ==
  ASSUME NEW op \in Ops, NEW n \in Nat
  PROVE  /\ Smaller(ChunkSize(op), n) \in Sizes /\ Smaller(ChunkSize(op), n) <= n
         /\ Smaller(ChunkSize(op), n) \in Nat
         /\ Smaller(ChunkSize(op), n) = 0 => n = 0
         /\ op \in SendOps /\ n <= MaxPayload => Smaller(ChunkSize(op), n) = n
<1>1. /\ ChunkSize(op) \in 1 .. MaxLen /\ MaxLen \in Nat
      /\ op \in SendOps => ChunkSize(op) = MaxPayload
  BY TransferAssumption, FramingAssumption DEF ChunkSize, Ops, SendOps, FsOps
<1>. QED  BY <1>1 DEF Smaller, Sizes

\* The fields of a call after a chunk.
LEMMA NextChunkFields ==
  ASSUME NEW c \in CallRecord, c.op \in Ops, c.ChunkLen <= c.Len
  PROVE  LET left  == c.Len - c.ChunkLen
             chunk == Smaller(ChunkSize(c.op), left)
             d     == NextChunk(c)
         IN  /\ d \in CallRecord
             /\ d.op = c.op /\ d.len = c.len /\ d.start = c.start /\ d.size = c.size
             /\ d.Len = left /\ d.Offset = c.Offset + c.ChunkLen /\ d.at = c.at + c.ChunkLen
             /\ d.ChunkLen = chunk /\ d.Cmd = [Offset |-> c.Offset + c.ChunkLen, Len |-> chunk]
             /\ d.status = c.status /\ d.RetCount = c.RetCount
             /\ d.pc = IF chunk > 0 /\ c.op # "SendRaw" THEN "chunk" ELSE "done"
<1>. DEFINE left  == c.Len - c.ChunkLen
            chunk == Smaller(ChunkSize(c.op), left)
            off   == c.Offset + c.ChunkLen
            atp   == c.at + c.ChunkLen
            lab   == IF chunk > 0 /\ c.op # "SendRaw" THEN "chunk" ELSE "done"
            cm    == [Offset |-> off, Len |-> chunk]
<1>1. c.ChunkLen \in Nat /\ c.Len \in Nat /\ c.Offset \in Nat /\ c.at \in Nat
  BY FramingAssumption DEF CallRecord, Sizes
<1>2. left \in Nat /\ off \in Nat /\ atp \in Nat
  BY <1>1
<1>3. chunk \in Sizes /\ chunk \in Nat
  <2>. HIDE DEF left
  <2>. QED  BY <1>2, ChunkFacts
<1>4. NextChunk(c) = [c EXCEPT !.Len = left, !.Offset = off, !.at = atp, !.ChunkLen = chunk,
                               !.Cmd = cm, !.pc = lab]
  BY DEF NextChunk
<1>5. cm \in [Offset : Int, Len : Int] /\ lab \in {"chunk", "done"}
  BY <1>2, <1>3
<1>. HIDE DEF left, chunk, off, atp, lab, cm
<1>6. NextChunk(c) \in CallRecord
  BY <1>2, <1>3, <1>4, <1>5 DEF CallRecord
<1>7. LET d == NextChunk(c)
      IN  /\ d.op = c.op /\ d.len = c.len /\ d.start = c.start /\ d.size = c.size
          /\ d.Len = left /\ d.Offset = off /\ d.at = atp
          /\ d.ChunkLen = chunk /\ d.Cmd = cm
          /\ d.status = c.status /\ d.RetCount = c.RetCount /\ d.pc = lab
  BY <1>4 DEF CallRecord
<1>. QED  BY <1>6, <1>7 DEF left, chunk, off, atp, lab, cm
-----------------------------------------------------------------------------
(***************************************************************************)
(* Every step of a transfer preserves TransferInv.                         *)
(***************************************************************************)

\* The numbers of a call under way.
LEMMA CallNumbers ==
  ASSUME CallType, Cut, call.pc # "idle"
  PROVE  /\ call \in CallRecord /\ call.op \in Ops
         /\ call.len \in Nat /\ call.start \in Nat /\ call.size \in Nat /\ call.Len \in Nat
         /\ call.Offset \in Nat /\ call.at \in Nat /\ call.RetCount \in Nat
         /\ call.ChunkLen \in Nat /\ call.status \in Int
         /\ call.ChunkLen <= call.Len /\ call.ChunkLen <= MaxLen
<1>1. /\ call \in CallRecord /\ call.op \in Ops /\ call.ChunkLen \in Sizes
      /\ call.len \in Nat /\ call.start \in Nat /\ call.size \in Nat /\ call.Len \in Nat
      /\ call.Offset \in Nat /\ call.at \in Nat /\ call.RetCount \in Nat /\ call.status \in Int
  BY DEF CallType, Cut, CallRecord
<1>2. call.ChunkLen <= call.Len
  BY <1>1, ChunkFacts DEF Cut
<1>. QED  BY <1>1, <1>2, FramingAssumption DEF Sizes

\* Between two calls.
LEMMA InitTransferInv == TransferInit => TransferInv
<1>1. SUFFICES ASSUME TransferInit PROVE TransferInv
  OBVIOUS
<1>2. FramingInv
  BY <1>1, InitFraming DEF TransferInit
<1>3. NoCall \in CallRecord /\ NoCall.pc = "idle" /\ NoCall.op = "none"
  BY FramingAssumption DEF NoCall, CallRecord, Garbage, Sizes
<1>. QED  BY <1>1, <1>2, <1>3 DEF TransferInit, TransferInv, CallType, Cut, Asked, MovedSoFar,
            FsOps, SendOps

\* What does not touch the interface leaves its invariant alone.
LEMMA FramingKept ==
  ASSUME FramingInv, UNCHANGED vars
  PROVE  FramingInv'
  BY DEF vars, readVars, writeVars, FramingInv, FramingType, LeftToRead, Stored, LeftToWrite

\* A word of a message is read: the response of the call is copied when the
\* read ends.
LEMMA MsgReadTransfer ==
  ASSUME TransferInv, MsgRead, UNCHANGED <<call, moved>>
  PROVE  TransferInv'
<1>. USE DEF TransferInv
<1>1. FramingInv'
  BY MsgReadFraming
<1>2. /\ cmd' = cmd /\ phase # "done"
      /\ \/ msg' = msg /\ phase' # "done"
         \/ phase = "align" /\ phase' = "done" /\ copied' = copied
  BY MessageFields DEF MsgRead, RxHdrRead, ReadDummy, ReadAsync, ReadRecv, ReadDescriptor,
     ReadPayload, RestToDump, Dump, DumpEnd, ReadAlign, writeVars, FramingInv, FramingType, Classes
<1>3. CallType' /\ Cut' /\ MovedSoFar'
  BY DEF CallType, Cut, MovedSoFar, Beginning, Taken
<1>4. phase = "align" /\ call.pc = "response" /\ call.op = "FsRead" => copied = Taken
  <2>1. SUFFICES ASSUME phase = "align", call.pc = "response", call.op = "FsRead"
                 PROVE  copied = Taken
    OBVIOUS
  <2>2. /\ msg.class = "CMD_RESP_CLASS" /\ msg.data = Taken /\ msg.user = call.ChunkLen
        /\ copied = Smaller(msg.data, msg.user)
    BY <1>2, <2>1 DEF Asked, FramingInv, Stored
  <2>3. call.ChunkLen \in Nat /\ call.status \in Int /\ call.Offset \in Nat /\ call.size \in Nat
    BY <2>1, CallNumbers
  <2>4. Taken <= call.ChunkLen /\ Taken \in Nat
    BY <2>1, <2>3 DEF Asked, Taken, Smaller
  <2>. QED  BY <2>2, <2>3, <2>4 DEF Smaller
<1>5. Asked'
  BY <1>2, <1>4 DEF Asked, Taken
<1>. QED  BY <1>1, <1>3, <1>5

\* A word of a command is written.
LEMMA MsgWriteTransfer ==
  ASSUME TransferInv, MsgWrite, UNCHANGED <<call, moved>>
  PROVE  TransferInv'
<1>. USE DEF TransferInv
<1>1. FramingInv'
  BY MsgWriteFraming
<1>2. UNCHANGED <<msg, phase, copied, cmd>>
  BY DEF MsgWrite, WriteArguments, WritePayload, readVars
<1>3. CallType' /\ Cut' /\ MovedSoFar'
  BY DEF CallType, Cut, MovedSoFar, Beginning, Taken
<1>4. Asked'
  BY <1>2 DEF Asked, Taken
<1>. QED  BY <1>1, <1>3, <1>4

\* A message for somebody else comes between the chunks.
LEMMA OtherMessageTransfer ==
  ASSUME TransferInv, NEW m \in AnyMessage, Fits(m), OtherMessage(m)
  PROVE  TransferInv'
<1>. USE DEF TransferInv
<1>1. FramingInv'
  BY NwpSendFraming DEF OtherMessage
<1>2. UNCHANGED <<call, moved, cmd>> /\ call.pc \in {"idle", "written"}
  BY DEF OtherMessage, NwpSend, writeVars
<1>3. CallType' /\ Cut' /\ MovedSoFar'
  BY <1>2 DEF CallType, Cut, MovedSoFar, Beginning, Taken
<1>4. Asked'
  BY <1>2 DEF Asked, Taken
<1>. QED  BY <1>1, <1>3, <1>4

\* A command of somebody else, outside of a call.
LEMMA OtherCommandTransfer ==
  ASSUME TransferInv, NEW c, Framed(c), call.pc = "idle", WriteHeader(c), UNCHANGED <<call, moved>>
  PROVE  TransferInv'
<1>. USE DEF TransferInv
<1>1. FramingInv'
  BY WriteHeaderFraming
<1>2. CallType' /\ Cut' /\ MovedSoFar' /\ Asked'
  BY DEF CallType, Cut, MovedSoFar, Beginning, Taken, Asked
<1>. QED  BY <1>1, <1>2

\* A call is made.
LEMMA StartCallTransfer ==
  ASSUME TransferInv, NEW op \in Ops, NEW len \in Nat, NEW start \in Nat, NEW size \in Nat,
         op \in SendOps => start = 0, op = "SendRaw" => len <= MaxPayload,
         StartCall(op, len, start, size)
  PROVE  TransferInv'
<1>. USE DEF TransferInv
<1>. DEFINE chunk == Smaller(ChunkSize(op), len)
<1>1. FramingInv'
  BY FramingKept DEF StartCall
<1>2. chunk \in Sizes /\ chunk \in Nat
  BY ChunkFacts
<1>. HIDE DEF chunk
<1>3. /\ call' = [op |-> op, pc |-> "chunk", len |-> len, start |-> start, size |-> size,
                  Len |-> len, Offset |-> start, at |-> 0, ChunkLen |-> chunk,
                  Cmd |-> [Offset |-> start, Len |-> chunk], status |-> 0, RetCount |-> 0]
      /\ moved' = <<>>
  BY DEF StartCall, NoCall, chunk
<1>4. CallType'
  BY <1>2, <1>3 DEF CallType, CallRecord
<1>5. Cut'
  BY <1>3 DEF Cut, chunk
<1>6. Asked'
  BY <1>3 DEF Asked
<1>7. MovedSoFar'
  <2>1. Pairs(0, start, 0) = <<>>
    BY DEF Pairs
  <2>. QED  BY <1>3, <2>1 DEF MovedSoFar, Beginning
<1>. QED  BY <1>1, <1>4, <1>5, <1>6, <1>7

\* The command of a chunk is written.
LEMMA SendCommandTransfer ==
  ASSUME TransferInv, SendCommand
  PROVE  TransferInv'
<1>. USE DEF TransferInv
<1>1. /\ call.pc = "chunk" /\ WriteHeader(CommandOf(call)) /\ phase = "done"
      /\ call' = [call EXCEPT !.pc = "written"] /\ moved' = moved
  BY DEF SendCommand, WriteHeader
<1>2. call \in CallRecord /\ call.op \in Ops /\ call.ChunkLen \in Nat
  BY <1>1, CallNumbers
<1>3. Framed(CommandOf(call))
  <2>1. CommandOf(call).rx < 0 => CommandOf(call).rx = -4
    BY <1>2 DEF CommandOf
  <2>2. (-4) % 4 = 0
    OBVIOUS
  <2>3. CommandOf(call) \in [desc : Nat, ext : BOOLEAN, tx : Nat, rx : Int]
    BY <1>2 DEF CommandOf
  <2>. QED  BY <2>1, <2>2, <2>3 DEF Framed
<1>4. FramingInv'
  BY <1>1, <1>3, WriteHeaderFraming
<1>5. /\ call'.pc = "written" /\ call' \in CallRecord
      /\ call'.op = call.op /\ call'.len = call.len /\ call'.start = call.start
      /\ call'.size = call.size /\ call'.Len = call.Len /\ call'.Offset = call.Offset
      /\ call'.at = call.at /\ call'.ChunkLen = call.ChunkLen /\ call'.Cmd = call.Cmd
      /\ call'.RetCount = call.RetCount
  BY <1>1, <1>2 DEF CallRecord
<1>6. call.op \in FsOps => cmd'.rx = IF call.op = "FsRead" THEN call.ChunkLen ELSE 0
  <2>1. SUFFICES ASSUME call.op \in FsOps
                 PROVE  cmd'.rx = IF call.op = "FsRead" THEN call.ChunkLen ELSE 0
    OBVIOUS
  <2>2. CommandOf(call).rx = IF call.op = "FsRead" THEN call.ChunkLen ELSE 0
    BY <2>1 DEF CommandOf, FsOps
  <2>3. ~(CommandOf(call).rx < 0)
    BY <1>2, <2>2
  <2>4. cmd' = CommandOf(call)
    BY <1>1, <2>3 DEF WriteHeader
  <2>. QED  BY <2>2, <2>4
<1>7. CallType' /\ Cut'
  BY <1>1, <1>5 DEF CallType, Cut
<1>8. Asked'
  BY <1>1, <1>5, <1>6 DEF Asked, FsOps
<1>9. MovedSoFar'
  BY <1>1, <1>5 DEF MovedSoFar, Beginning
<1>. QED  BY <1>4, <1>7, <1>8, <1>9

\* A send gives up.
LEMMA SendFailsTransfer ==
  ASSUME TransferInv, SendFails
  PROVE  TransferInv'
<1>. USE DEF TransferInv
<1>1. /\ call.pc = "chunk" /\ call.op \in SendOps
      /\ call' = [call EXCEPT !.pc = "failed"] /\ moved' = moved
  BY DEF SendFails
<1>2. FramingInv'
  BY FramingKept DEF SendFails
<1>3. /\ call'.pc = "failed" /\ call' \in CallRecord
      /\ call'.op = call.op /\ call'.len = call.len /\ call'.start = call.start
      /\ call'.Len = call.Len /\ call'.Offset = call.Offset
      /\ call'.at = call.at /\ call'.ChunkLen = call.ChunkLen
  BY <1>1 DEF CallType, CallRecord
<1>4. CallType' /\ Cut' /\ Asked'
  BY <1>1, <1>3 DEF CallType, Cut, Asked
<1>5. MovedSoFar'
  BY <1>1, <1>3 DEF MovedSoFar, Beginning, FsOps, SendOps
<1>. QED  BY <1>2, <1>4, <1>5

\* The network processor takes a chunk that is sent.
LEMMA NwpTakeTransfer ==
  ASSUME TransferInv, NwpTake
  PROVE  TransferInv'
<1>. USE DEF TransferInv
<1>1. /\ call.pc = "written" /\ call.op \in SendOps
      /\ moved' = moved \o Pairs(call.at, Len(moved), call.Cmd.Len)
      /\ call' = [call EXCEPT !.pc = "sent"]
  BY DEF NwpTake
<1>2. FramingInv'
  BY FramingKept DEF NwpTake
<1>3. /\ call'.pc = "sent" /\ call' \in CallRecord
      /\ call'.op = call.op /\ call'.len = call.len /\ call'.start = call.start
      /\ call'.Len = call.Len /\ call'.Offset = call.Offset
      /\ call'.at = call.at /\ call'.ChunkLen = call.ChunkLen
  BY <1>1 DEF CallType, CallRecord
<1>4. CallType' /\ Cut' /\ Asked'
  BY <1>1, <1>3 DEF CallType, Cut, Asked, SendOps, FsOps
<1>5. moved' = Pairs(0, call.start, call.at + call.ChunkLen)
  <2>1. /\ call.start = 0 /\ call.Cmd.Len = call.ChunkLen
        /\ moved = Pairs(0, call.start, call.at)
        /\ call.at \in Nat /\ call.start \in Nat /\ call.ChunkLen \in Nat
    BY <1>1, CallNumbers DEF Cut, Asked, MovedSoFar, Beginning
  <2>2. Len(Pairs(0, call.start, call.at)) = call.at
    BY <2>1, PairsType
  <2>4. Len(moved) = call.at /\ call.start + call.at = call.at
    BY <2>1, <2>2
  <2>3. Pairs(0, call.start, call.at) \o Pairs(call.at, call.start + call.at, call.ChunkLen)
          = Pairs(0, call.start, call.at + call.ChunkLen)
    BY <2>1, PairsConcat
  <2>. QED  BY <1>1, <2>1, <2>3, <2>4
<1>6. MovedSoFar'
  BY <1>1, <1>3, <1>5 DEF MovedSoFar, Beginning, FsOps, SendOps
<1>. QED  BY <1>2, <1>4, <1>6
\* The network processor answers a file operation: with what it could read or
\* write from the offset of the command on.
LEMMA NwpRespondTransfer ==
  ASSUME TransferInv, NEW status \in Statuses(call), NwpRespond(status)
  PROVE  TransferInv'
<1>. USE DEF TransferInv
<1>. DEFINE data == IF call.op = "FsRead" /\ status > 0 THEN status ELSE 0
            m == [class |-> "CMD_RESP_CLASS", shift |-> 0, again |-> 0, args |-> 4,
                  data |-> data, user |-> cmd.rx]
            took == IF status > 0 THEN status ELSE 0
<1>1. /\ call.pc = "written" /\ call.op \in FsOps /\ NwpSend(m)
      /\ call' = [call EXCEPT !.pc = "response", !.status = status, !.Cmd = Garbage]
      /\ moved' = IF call.op = "FsWrite" /\ status > 0
                  THEN moved \o Pairs(call.at, call.Cmd.Offset, status) ELSE moved
  BY DEF NwpRespond
<1>2. /\ call.ChunkLen \in Nat /\ call.ChunkLen <= MaxLen /\ call.size \in Nat
      /\ call.Offset \in Nat /\ call.RetCount \in Nat /\ call.start \in Nat /\ call.at \in Nat
      /\ call.Cmd = [Offset |-> call.Offset, Len |-> call.ChunkLen]
      /\ call.Offset = call.start + call.at
      /\ cmd.rx = IF call.op = "FsRead" THEN call.ChunkLen ELSE 0
  BY <1>1, CallNumbers DEF Asked, Cut, FsOps
<1>3. \/ status = -1
      \/ /\ call.Offset <= call.size
         /\ status = Smaller(call.ChunkLen, call.size - call.Offset)
  <2>1. /\ call.Cmd.Offset = call.Offset /\ call.Cmd.Len = call.ChunkLen
        /\ call.size - call.Offset \in Int
    BY <1>2
  <2>2. CASE call.size - call.Offset < 0
    BY <2>1, <2>2 DEF Statuses
  <2>3. CASE ~(call.size - call.Offset < 0)
    <3>1. call.Offset <= call.size
      BY <1>2, <2>3
    <3>. QED  BY <2>1, <2>3, <3>1 DEF Statuses
  <2>. QED  BY <2>2, <2>3
<1>4. status \in Int /\ took \in Nat /\ took <= call.ChunkLen
  BY <1>2, <1>3 DEF Smaller
<1>5. m \in AnyMessage /\ Fits(m)
  <2>1. data \in Nat /\ data <= cmd.rx /\ cmd.rx \in Sizes /\ data \in Sizes
    BY <1>2, <1>4, FramingAssumption DEF Sizes
  <2>2. m \in [class : {"CMD_RESP_CLASS"}, shift : 0 .. 7, again : 0 .. 1, args : {4, 8},
               data : Sizes, user : Sizes]
    <3>. HIDE DEF data
    <3>. QED  BY <2>1
  <2>. HIDE DEF data
  <2>3. Fits(m)
    BY <2>1 DEF Fits
  <2>. QED  BY <2>2, <2>3 DEF AnyMessage
<1>6. FramingInv'
  <2>. HIDE DEF m
  <2>. QED  BY <1>1, <1>5, NwpSendFraming
<1>7. msg' = m /\ phase' = "sync"
  BY <1>1 DEF NwpSend
<1>8. /\ call'.pc = "response" /\ call'.status = status /\ call' \in CallRecord
      /\ call'.op = call.op /\ call'.len = call.len /\ call'.start = call.start
      /\ call'.size = call.size /\ call'.Len = call.Len /\ call'.Offset = call.Offset
      /\ call'.at = call.at /\ call'.ChunkLen = call.ChunkLen /\ call'.RetCount = call.RetCount
  <2>1. Garbage \in [Offset : Int, Len : Int]
    BY DEF Garbage
  <2>2. call \in CallRecord
    BY DEF CallType
  <2>3. call' \in CallRecord
    BY <1>1, <1>4, <2>1, <2>2 DEF CallRecord
  <2>. QED  BY <1>1, <2>2, <2>3 DEF CallRecord
<1>9. CallType' /\ Cut'
  BY <1>1, <1>8 DEF CallType, Cut, SendOps, FsOps
<1>10. Asked'
  <2>1. Taken' = took
    BY <1>8 DEF Taken
  <2>2. msg'.class = "CMD_RESP_CLASS" /\ msg'.data = data /\ msg'.user = cmd.rx
    BY <1>7
  <2>. QED  BY <1>2, <1>3, <1>7, <1>8, <2>1, <2>2 DEF Asked
<1>11. moved' = Pairs(0, call.start, IF call.op = "FsWrite" THEN call.RetCount + took ELSE call.RetCount)
  <2>1. moved = Pairs(0, call.start, call.RetCount)
    BY <1>1 DEF MovedSoFar, Beginning
  <2>2. CASE call.op = "FsWrite" /\ status > 0
    <3>1. call.RetCount = call.at
      BY <1>1, <1>2, <1>3, <2>2 DEF MovedSoFar
    <3>2. Pairs(0, call.start, call.at) \o Pairs(call.at, call.start + call.at, status)
            = Pairs(0, call.start, call.at + status)
      BY <1>2, <1>4, <2>2, PairsConcat
    <3>3. moved' = moved \o Pairs(call.at, call.start + call.at, status)
      BY <1>1, <1>2, <2>2
    <3>. QED  BY <2>1, <2>2, <3>1, <3>2, <3>3
  <2>3. CASE ~(call.op = "FsWrite" /\ status > 0)
    <3>1. call.RetCount + 0 = call.RetCount
      BY <1>2
    <3>. QED  BY <1>1, <2>1, <2>3, <3>1
  <2>. QED  BY <2>2, <2>3
<1>12. MovedSoFar'
  <2>1. Taken' = took
    BY <1>8 DEF Taken
  <2>2. call.RetCount = call.at \/ call.size < call.Offset
    BY <1>1 DEF MovedSoFar
  <2>. HIDE DEF took
  <2>. QED  BY <1>1, <1>8, <1>11, <2>1, <2>2 DEF MovedSoFar, Beginning, FsOps, SendOps
<1>. QED  BY <1>6, <1>9, <1>10, <1>12

\* The response of a file operation ends the call or leads to the next chunk.
LEMMA FsResponseTransfer ==
  ASSUME TransferInv, FsResponse
  PROVE  TransferInv'
<1>. USE DEF TransferInv
<1>1. /\ call.pc = "response" /\ phase = "done" /\ call.op \in FsOps
      /\ moved' = IF call.op = "FsRead"
                  THEN moved \o Pairs(call.at, call.Offset, copied) ELSE moved
  BY DEF FsResponse, Cut, Ops
<1>2. FramingInv'
  BY FramingKept DEF FsResponse
<1>3. /\ call \in CallRecord /\ call.op \in Ops
      /\ call.len \in Nat /\ call.start \in Nat /\ call.size \in Nat /\ call.Len \in Nat
      /\ call.Offset \in Nat /\ call.at \in Nat /\ call.RetCount \in Nat
      /\ call.ChunkLen \in Nat /\ call.status \in Int /\ call.ChunkLen <= call.Len
  BY <1>1, CallNumbers
<1>4. /\ call.Offset = call.start + call.at /\ call.at + call.Len = call.len
      /\ call.RetCount = call.at \/ call.size < call.Offset
      /\ \/ call.status = -1
         \/ /\ call.Offset <= call.size
            /\ call.status = Smaller(call.ChunkLen, call.size - call.Offset)
      /\ call.op = "FsRead" => copied = Taken
  BY <1>1 DEF Cut, MovedSoFar, Asked
<1>5. /\ Taken \in Nat
      /\ call.status = -1 => Taken = 0
      /\ call.status # -1 => Taken = call.status /\ call.RetCount = call.at /\ call.status >= 0
      /\ call.status # -1 => \/ call.status = call.ChunkLen
                             \/ call.size < call.Offset + call.ChunkLen
  BY <1>3, <1>4 DEF Taken, Smaller
<1>6. moved' = Pairs(0, call.start, call.RetCount + Taken)
  <2>1. CASE call.op = "FsWrite"
    BY <1>1, <2>1 DEF MovedSoFar, Beginning
  <2>2. CASE call.op = "FsRead" /\ call.status = -1
    <3>1. moved = Pairs(0, call.start, call.RetCount)
      BY <1>1, <2>2 DEF MovedSoFar, Beginning
    <3>2. Pairs(call.at, call.Offset, 0) = <<>>
      BY DEF Pairs
    <3>3. moved \in Seq(Int \X Int)
      BY <1>3, <3>1, PairsType
    <3>4. moved \o <<>> = moved
      BY <3>3, ConcatEmptySeq
    <3>5. call.RetCount + 0 = call.RetCount
      BY <1>3
    <3>. QED  BY <1>1, <1>4, <1>5, <2>2, <3>1, <3>2, <3>4, <3>5
  <2>3. CASE call.op = "FsRead" /\ call.status # -1
    <3>1. moved = Pairs(0, call.start, call.at) /\ call.RetCount = call.at
      BY <1>1, <1>5, <2>3 DEF MovedSoFar, Beginning
    <3>2. Pairs(0, call.start, call.at) \o Pairs(call.at, call.start + call.at, Taken)
            = Pairs(0, call.start, call.at + Taken)
      BY <1>3, <1>5, PairsConcat
    <3>. QED  BY <1>1, <1>4, <2>3, <3>1, <3>2
  <2>. QED  BY <1>1, <2>1, <2>2, <2>3 DEF FsOps
<1>7. CASE call.status = -1
  <2>1. moved' = Pairs(0, call.start, call.RetCount)
    BY <1>3, <1>5, <1>6, <1>7
  <2>2. \E l \in {"done", "failed"} : call' = [call EXCEPT !.pc = l]
    BY <1>3, <1>7 DEF FsResponse
  <2>3. PICK l \in {"done", "failed"} : call' = [call EXCEPT !.pc = l]
    BY <2>2
  <2>4. /\ call'.pc = l /\ call' \in CallRecord
        /\ call'.op = call.op /\ call'.len = call.len /\ call'.start = call.start
        /\ call'.Len = call.Len /\ call'.Offset = call.Offset /\ call'.RetCount = call.RetCount
        /\ call'.at = call.at /\ call'.ChunkLen = call.ChunkLen
    BY <1>3, <2>3 DEF CallRecord
  <2>5. CallType' /\ Cut' /\ Asked'
    BY <1>1, <2>4 DEF CallType, Cut, Asked, FsOps, SendOps
  <2>6. MovedSoFar'
    BY <1>1, <2>1, <2>4 DEF MovedSoFar, Beginning, FsOps, SendOps
  <2>. QED  BY <1>2, <2>5, <2>6
<1>8. CASE call.status # -1
  <2>. DEFINE c == [call EXCEPT !.RetCount = @ + call.status]
              left == c.Len - c.ChunkLen
              chunk == Smaller(ChunkSize(c.op), left)
  <2>1. call' = NextChunk(c)
    BY <1>3, <1>5, <1>8 DEF FsResponse
  <2>2. call.RetCount + call.status \in Nat
    BY <1>3, <1>5, <1>8
  <2>3. /\ c \in CallRecord /\ c.op = call.op /\ c.len = call.len /\ c.start = call.start
        /\ c.size = call.size /\ c.Len = call.Len /\ c.Offset = call.Offset /\ c.at = call.at
        /\ c.ChunkLen = call.ChunkLen /\ c.RetCount = call.RetCount + call.status
    BY <1>3, <2>2 DEF CallRecord
  <2>. HIDE DEF c
  <2>4. /\ call' \in CallRecord
        /\ call'.op = c.op /\ call'.len = c.len /\ call'.start = c.start /\ call'.size = c.size
        /\ call'.Len = left /\ call'.Offset = c.Offset + c.ChunkLen
        /\ call'.at = c.at + c.ChunkLen /\ call'.ChunkLen = chunk
        /\ call'.Cmd = [Offset |-> c.Offset + c.ChunkLen, Len |-> chunk]
        /\ call'.RetCount = c.RetCount /\ call'.pc \in {"chunk", "done"}
    BY <1>3, <2>1, <2>3, NextChunkFields
  <2>5. CallType'
    BY <2>4 DEF CallType
  <2>6. Cut'
    <3>1. /\ call'.at + call'.Len = call'.len /\ call'.Offset = call'.start + call'.at
      BY <1>3, <1>4, <2>3, <2>4
    <3>. QED  BY <1>1, <1>3, <2>3, <2>4, <3>1 DEF Cut, FsOps, SendOps
  <2>7. Asked'
    BY <2>4 DEF Asked
  <2>8. call'.RetCount = call'.at \/ call'.size < call'.Offset
    BY <1>3, <1>5, <1>8, <2>3, <2>4
  <2>9. MovedSoFar'
    BY <1>1, <1>5, <1>6, <1>8, <2>3, <2>4, <2>8 DEF MovedSoFar, Beginning, FsOps, SendOps
  <2>. QED  BY <1>2, <2>5, <2>6, <2>7, <2>9
<1>. QED  BY <1>7, <1>8

\* A chunk has been sent: the next one, or the call is done.
LEMMA ChunkSentTransfer ==
  ASSUME TransferInv, ChunkSent
  PROVE  TransferInv'
<1>. USE DEF TransferInv
<1>. DEFINE d == NextChunk(call)
            left == call.Len - call.ChunkLen
            chunk == Smaller(ChunkSize(call.op), left)
<1>1. /\ call.pc = "sent" /\ call.op \in SendOps /\ moved' = moved
      /\ call' = [NextChunk(call) EXCEPT !.RetCount = call.len]
  BY DEF ChunkSent, Cut, Ops
<1>2. FramingInv'
  BY FramingKept DEF ChunkSent
<1>3. /\ call \in CallRecord /\ call.op \in Ops
      /\ call.len \in Nat /\ call.start \in Nat /\ call.Len \in Nat
      /\ call.Offset \in Nat /\ call.at \in Nat
      /\ call.ChunkLen \in Nat /\ call.ChunkLen <= call.Len
  BY <1>1, CallNumbers
<1>4. /\ call.Offset = call.start + call.at /\ call.at + call.Len = call.len /\ call.start = 0
      /\ call.op = "SendRaw" => call.len <= MaxPayload
      /\ moved = Pairs(0, call.start, call.at + call.ChunkLen)
      /\ call.ChunkLen = Smaller(ChunkSize(call.op), call.Len)
  BY <1>1 DEF Cut, MovedSoFar, Beginning
<1>5. /\ d \in CallRecord
      /\ d.op = call.op /\ d.len = call.len /\ d.start = call.start
      /\ d.Len = left /\ d.Offset = call.Offset + call.ChunkLen
      /\ d.at = call.at + call.ChunkLen /\ d.ChunkLen = chunk
      /\ d.Cmd = [Offset |-> call.Offset + call.ChunkLen, Len |-> chunk]
      /\ d.pc = IF chunk > 0 /\ call.op # "SendRaw" THEN "chunk" ELSE "done"
  BY <1>3, NextChunkFields
<1>. HIDE DEF d
<1>6. /\ call' \in CallRecord
      /\ call'.op = call.op /\ call'.len = call.len /\ call'.start = call.start
      /\ call'.Len = left /\ call'.Offset = call.Offset + call.ChunkLen
      /\ call'.at = call.at + call.ChunkLen /\ call'.ChunkLen = chunk
      /\ call'.Cmd = [Offset |-> call.Offset + call.ChunkLen, Len |-> chunk]
      /\ call'.pc = IF chunk > 0 /\ call.op # "SendRaw" THEN "chunk" ELSE "done"
      /\ call'.RetCount = call.len
  <2>1. call' = [d EXCEPT !.RetCount = call.len]
    BY <1>1 DEF d
  <2>. HIDE DEF left, chunk
  <2>. QED  BY <1>3, <1>5, <2>1 DEF CallRecord
<1>7. CallType'
  BY <1>6 DEF CallType
<1>8. Cut'
  <2>1. call'.at + call'.Len = call'.len /\ call'.Offset = call'.start + call'.at
    BY <1>3, <1>4, <1>6
  <2>. QED  BY <1>1, <1>3, <1>4, <1>6, <2>1 DEF Cut, FsOps, SendOps
<1>9. Asked'
  BY <1>6 DEF Asked
<1>10. call'.pc = "done" => call.at + call.ChunkLen = call.len
  <2>1. SUFFICES ASSUME ~(chunk > 0) \/ call.op = "SendRaw"
                 PROVE  call.ChunkLen = call.Len
    BY <1>3, <1>4, <1>6
  <2>2. left \in Nat
    BY <1>3
  <2>3. CASE ~(chunk > 0)
    <3>1. chunk \in Nat /\ (chunk = 0 => left = 0)
      <4>. HIDE DEF left
      <4>. QED  BY <1>3, <2>2, ChunkFacts
    <3>2. left = 0
      <4>. HIDE DEF chunk, left
      <4>. QED  BY <2>3, <3>1
    <3>. QED  BY <1>3, <3>2
  <2>4. CASE call.op = "SendRaw"
    <3>1. call.Len <= MaxPayload
      BY <1>3, <1>4, <2>4, TransferAssumption, FramingAssumption
    <3>. QED  BY <1>1, <1>3, <1>4, <3>1, ChunkFacts
  <2>. QED  BY <2>1, <2>3, <2>4
<1>11. MovedSoFar'
  <2>1. call'.pc \in {"chunk", "done"}
    BY <1>6
  <2>. QED  BY <1>1, <1>4, <1>6, <1>10, <2>1 DEF MovedSoFar, Beginning, FsOps, SendOps
<1>. QED  BY <1>2, <1>7, <1>8, <1>9, <1>11

\* The call returns.
LEMMA ReturnTransfer ==
  ASSUME TransferInv, Return
  PROVE  TransferInv'
<1>. USE DEF TransferInv
<1>1. FramingInv'
  BY FramingKept DEF Return
<1>2. NoCall \in CallRecord /\ NoCall.pc = "idle" /\ NoCall.op = "none"
  BY FramingAssumption DEF NoCall, CallRecord, Garbage, Sizes
<1>3. CallType' /\ Cut' /\ Asked' /\ MovedSoFar'
  BY <1>2 DEF Return, CallType, Cut, Asked, MovedSoFar, FsOps, SendOps
<1>. QED  BY <1>1, <1>3
-----------------------------------------------------------------------------
\* Every step preserves the invariant, if the messages fit.
LEMMA TransferStep ==
  ASSUME \A m \in Message : Fits(m), TransferInv, [TransferNext]_transferVars
  PROVE  TransferInv'
<1>1. CASE Calls
  BY <1>1, SendCommandTransfer, SendFailsTransfer, FsResponseTransfer, ChunkSentTransfer,
     ReturnTransfer, NwpTakeTransfer, NwpRespondTransfer DEF Calls
<1>2. CASE (MsgRead \/ MsgWrite) /\ UNCHANGED <<call, moved>>
  BY <1>2, MsgReadTransfer, MsgWriteTransfer
<1>3. CASE \E m \in Message : OtherMessage(m)
  <2>1. PICK m \in Message : OtherMessage(m)
    BY <1>3
  <2>2. m \in AnyMessage /\ Fits(m)
    BY FramingAssumption
  <2>. QED  BY <2>1, <2>2, OtherMessageTransfer
<1>4. CASE \E c \in Command : call.pc = "idle" /\ WriteHeader(c) /\ UNCHANGED <<call, moved>>
  <2>1. PICK c \in Command : call.pc = "idle" /\ WriteHeader(c) /\ UNCHANGED <<call, moved>>
    BY <1>4
  <2>. QED  BY <2>1, CommandFramed, OtherCommandTransfer
<1>5. CASE \E op \in FsOps, len \in Lengths, start \in Offsets, size \in FileSizes :
             StartCall(op, len, start, size)
  <2>1. PICK op \in FsOps, len \in Lengths, start \in Offsets, size \in FileSizes :
          StartCall(op, len, start, size)
    BY <1>5
  <2>2. op \in Ops /\ op \notin SendOps /\ len \in Nat /\ start \in Nat /\ size \in Nat
    BY TransferAssumption DEF Ops, FsOps, SendOps
  <2>. QED  BY <2>1, <2>2, StartCallTransfer DEF SendOps
<1>6. CASE \E op \in SendOps, len \in Lengths :
             (op = "SendRaw" => len <= MaxPayload) /\ StartCall(op, len, 0, 0)
  <2>1. PICK op \in SendOps, len \in Lengths :
          (op = "SendRaw" => len <= MaxPayload) /\ StartCall(op, len, 0, 0)
    BY <1>6
  <2>2. op \in Ops /\ len \in Nat /\ 0 \in Nat
    BY TransferAssumption DEF Ops
  <2>. QED  BY <2>1, <2>2, StartCallTransfer
<1>7. CASE UNCHANGED transferVars
  <2>1. UNCHANGED vars /\ UNCHANGED <<call, moved, msg, phase, copied, cmd>>
    BY <1>7 DEF transferVars, vars, readVars, writeVars
  <2>. QED  BY <2>1, FramingKept DEF TransferInv, CallType, Cut, Asked, MovedSoFar, Beginning, Taken
<1>. QED  BY <1>1, <1>2, <1>3, <1>4, <1>5, <1>6, <1>7 DEF TransferNext

\* The same for the interface alone.
LEMMA FramingStep ==
  ASSUME \A m \in Message : Fits(m), FramingInv, [Next]_vars
  PROVE  FramingInv'
<1>1. CASE \E m \in Message : NwpSend(m)
  <2>1. PICK m \in Message : NwpSend(m)
    BY <1>1
  <2>2. m \in AnyMessage /\ Fits(m)
    BY FramingAssumption
  <2>. QED  BY <2>1, <2>2, NwpSendFraming
<1>2. CASE \E c \in Command : WriteHeader(c)
  <2>1. PICK c \in Command : WriteHeader(c)
    BY <1>2
  <2>. QED  BY <2>1, CommandFramed, WriteHeaderFraming
<1>. QED  BY <1>1, <1>2, MsgReadFraming, MsgWriteFraming, FramingKept DEF Next

\* TransferInv holds in every reachable state.
THEOREM TransferInvariance ==
  ASSUME \A m \in Message : Fits(m)
  PROVE  TransferSpec => []TransferInv
<1>1. TransferInv /\ [TransferNext]_transferVars => TransferInv'
  BY TransferStep
<1>. QED  BY InitTransferInv, <1>1, PTL DEF TransferSpec

\* Neither side of the serial interface ever loses its place: every message
\* that fits its buffer, or is a multiple of 4, is read to its last byte and
\* no further, and as many bytes are written as the header announced.
THEOREM StaysInStep ==
  ASSUME \A m \in Message : Fits(m)
  PROVE  TransferSpec => []InStep
<1>1. TransferInv => InStep
  BY FramingProperties DEF TransferInv
<1>. QED  BY TransferInvariance, <1>1, PTL

\* The caller's buffer is never overrun, and a response fills it as far as
\* there is payload.
THEOREM BuffersFilled ==
  ASSUME \A m \in Message : Fits(m)
  PROVE  TransferSpec => []BufferFilled
<1>1. TransferInv => BufferFilled
  BY FramingProperties DEF TransferInv
<1>. QED  BY TransferInvariance, <1>1, PTL

\* Reading and writing alone, with any sequence of commands.
THEOREM InterfaceInStep ==
  ASSUME \A m \in Message : Fits(m)
  PROVE  Spec => [](InStep /\ BufferFilled)
<1>1. FramingInv /\ [Next]_vars => FramingInv'
  BY FramingStep
<1>. QED  BY InitFraming, <1>1, FramingProperties, PTL DEF Spec

\* Whatever the length of the buffer, the chunk sizes, the place in the file
\* and the end of the file, the count a call returns is the number of bytes
\* that were moved, each to its place.
THEOREM TransfersExact ==
  ASSUME \A m \in Message : Fits(m)
  PROVE  TransferSpec => []TransferExact
<1>1. TransferInv => TransferExact
  <2>1. SUFFICES ASSUME TransferInv PROVE TransferExact
    OBVIOUS
  <2>2. CASE call.pc = "done"
    <3>1. call.op \in FsOps \cup SendOps
      BY <2>1, <2>2 DEF TransferInv, Cut, Ops
    <3>. QED  BY <2>1, <2>2, <3>1 DEF TransferInv, MovedSoFar, Beginning, TransferExact
  <2>3. CASE call.pc = "failed"
    <3>1. /\ call.op \in FsOps \cup SendOps
          /\ call.RetCount \in Nat /\ call.at \in Nat /\ call.start \in Nat
      BY <2>1, <2>3, CallNumbers DEF TransferInv, Ops
    <3>2. \E n \in Nat : moved = Pairs(0, call.start, n)
      BY <2>1, <2>3, <3>1 DEF TransferInv, MovedSoFar, Beginning
    <3>3. PICK n \in Nat : moved = Pairs(0, call.start, n)
      BY <3>2
    <3>4. Len(moved) = n
      BY <3>1, <3>3, PairsType
    <3>. QED  BY <2>3, <3>3, <3>4 DEF TransferExact
  <2>. QED  BY <2>2, <2>3 DEF TransferExact
<1>. QED  BY TransferInvariance, <1>1, PTL
=============================================================================
