---------------------------- MODULE SlMsgFraming ----------------------------
(***************************************************************************)
(* How _SlDrvMsgWrite gives commands to the serial interface of the        *)
(* network processor (NWP), and _SlDrvMsgRead takes one message after      *)
(* another from it (driver.c).                                             *)
(*                                                                         *)
(* The interface has no frames: a reader that takes too few or too many    *)
(* bytes of a message leaves the next one out of step.  Bytes are counted, *)
(* not named.  The NWP pads every message to a multiple of 4 bytes.        *)
(***************************************************************************)
EXTENDS Integers

CONSTANTS
  Message,                   \* messages the NWP may send, a subset of AnyMessage
  Command,                   \* commands of the driver, a subset of AnyCommand
  MaxLen,                    \* bound: payload and buffer lengths
  SL_ASYNC_MAX_PAYLOAD_LEN,  \* protocol.h, "size must be aligned to 4"
  U16                        \* AlignedLengthRecv counts modulo this

SYNC_PATTERN_LEN  == 4
_SL_RESP_HDR_SIZE == 8
RECV_ARGS_SIZE    == 4

Sizes == 0 .. MaxLen

(***************************************************************************)
(* A message: shift is the number of stray bytes in front of its sync      *)
(* pattern, again how often the pattern is repeated, args the size of its  *)
(* arguments, data the length of its payload, and user the length of the   *)
(* buffer the caller has for it.                                           *)
(* The arguments of an event are part of its payload.                      *)
(***************************************************************************)
AnyMessage ==
  [class : {"ASYNC_EVT_CLASS"}, shift : 0 .. 7, again : 0 .. 1, args : {0}, data : Sizes,
   user : {SL_ASYNC_MAX_PAYLOAD_LEN}]
  \cup [class : {"RECV_RESP_CLASS"}, shift : 0 .. 7, again : 0 .. 1, args : {4, 12, 24}, data : Sizes, user : Sizes]
  \cup [class : {"CMD_RESP_CLASS"}, shift : 0 .. 7, again : 0 .. 1, args : {4, 8}, data : Sizes, user : Sizes]
  \cup [class : {"DUMMY_MSG_CLASS"}, shift : 0 .. 7, again : 0 .. 1, args : {0}, data : {0}, user : {0}]

(***************************************************************************)
(* A command: desc is TxDescLen, ext says that there is a pCmdExt, tx and  *)
(* rx are its TxPayloadLen and RxPayloadLen.  A negative rx asks to send   *)
(* the Rx payload too (sl_FsClose, sl_Send); its callers give a multiple   *)
(* of 4.  A payload comes with aligned arguments.                          *)
(***************************************************************************)
AnyCommand ==
  {c \in [desc : 0 .. 12, ext : BOOLEAN, tx : Sizes, rx : (-MaxLen) .. MaxLen] :
     /\ c.rx < 0 => c.rx % 4 = 0
     /\ c.ext /\ c.tx > 0 => c.desc % 4 = 0
     /\ ~c.ext => c.tx = 0 /\ c.rx = 0}

ASSUME FramingAssumption ==
  /\ MaxLen \in Nat /\ U16 \in Nat /\ U16 > MaxLen /\ U16 % 4 = 0
  /\ SL_ASYNC_MAX_PAYLOAD_LEN \in Nat /\ SL_ASYNC_MAX_PAYLOAD_LEN % 4 = 0
  /\ Message \subseteq AnyMessage /\ Command \subseteq AnyCommand

VARIABLES
  msg,                \* the message being read
  phase,              \* where _SlDrvMsgRead is
  unread,             \* bytes of the message still in the interface
  AlignedLengthRecv,  \* bytes left to dump
  AlignSize,          \* bytes to read behind the message
  copied,             \* bytes stored for the caller
  ActDataSize,        \* local of the CMD_RESP_CLASS case
  cmd,                \* the command being written
  wphase,             \* where _SlDrvMsgWrite is
  sendRxPayload,      \* local of _SlDrvMsgWrite
  announced,          \* TempProtocolHeader.Len
  written             \* bytes behind the header

readVars  == <<msg, phase, unread, AlignedLengthRecv, AlignSize, copied, ActDataSize>>
writeVars == <<cmd, wphase, sendRxPayload, announced, written>>
vars == <<readVars, writeVars>>

AlignDown(n) == n - (n % 4)
AlignUp(n)   == AlignDown(n + 3)    \* _SL_PROTOCOL_ALIGN_SIZE

Smaller(a, b) == IF a < b THEN a ELSE b

\* What the NWP sends for a message.
WireSize(m) ==
  AlignUp(m.shift + SYNC_PATTERN_LEN * (1 + m.again) + _SL_RESP_HDR_SIZE + AlignUp(m.args + m.data))

NoMsg == [class |-> "DUMMY_MSG_CLASS", shift |-> 0, again |-> 0, args |-> 0, data |-> 0, user |-> 0]

Init ==
  /\ msg = NoMsg
  /\ phase = "done"
  /\ unread = 0 /\ AlignedLengthRecv = 0 /\ AlignSize = 0
  /\ copied = 0 /\ ActDataSize = 0
  /\ cmd = [desc |-> 0, ext |-> FALSE, tx |-> 0, rx |-> 0]
  /\ wphase = "idle" /\ sendRxPayload = FALSE
  /\ announced = 0 /\ written = 0

\* Bytes are taken from the interface; -1 says that bytes behind the message
\* have been taken.
Read(n) == unread' = IF n <= unread THEN unread - n ELSE -1
-----------------------------------------------------------------------------
\* The next message, as long as the stream is in step.
NwpSend(m) ==
  /\ phase = "done" /\ unread = 0 /\ wphase = "idle"
  /\ msg' = m
  /\ unread' = WireSize(m)
  /\ phase' = "sync"
  /\ copied' = 0
  /\ UNCHANGED <<AlignedLengthRecv, AlignSize, ActDataSize, writeVars>>

\* Mutated RxHdrRead: the message is taken to be aligned.
RxHdrRead_NoAlign ==
  /\ phase = "sync"
  /\ LET words   == (msg.shift + 3) \div 4
         SyncCnt == msg.shift % SYNC_PATTERN_LEN
     IN  Read(4 + 4 * words + (IF SyncCnt > 0 THEN SyncCnt ELSE 4)
               + SYNC_PATTERN_LEN * msg.again + 4)
  /\ AlignSize' = 0
  /\ phase' = msg.class
  /\ UNCHANGED <<msg, AlignedLengthRecv, copied, ActDataSize, writeVars>>

(***************************************************************************)
(* _SlDrvRxHdrRead: words are read until the sync pattern, which may be    *)
(* shifted by SyncCnt bytes; then the rest of the generic header, behind   *)
(* the repeated pattern if there is one, and the response header.          *)
(***************************************************************************)
RxHdrRead ==
  /\ phase = "sync"
  /\ LET words   == (msg.shift + 3) \div 4
         SyncCnt == msg.shift % SYNC_PATTERN_LEN
     IN  /\ Read(4 + 4 * words + (IF SyncCnt > 0 THEN SyncCnt ELSE 4)
               + SYNC_PATTERN_LEN * msg.again + 4)
         /\ AlignSize' = IF SyncCnt > 0 THEN SYNC_PATTERN_LEN - SyncCnt ELSE 0
  /\ phase' = msg.class
  /\ UNCHANGED <<msg, AlignedLengthRecv, copied, ActDataSize, writeVars>>

ReadDummy ==
  /\ phase = "DUMMY_MSG_CLASS"
  /\ phase' = "align"
  /\ UNCHANGED <<msg, unread, AlignedLengthRecv, AlignSize, copied, ActDataSize, writeVars>>

\* ASYNC_EVT_CLASS: what does not fit the event buffer is dumped.
ReadAsync ==
  /\ phase = "ASYNC_EVT_CLASS"
  /\ LET n == Smaller(AlignUp(msg.data), SL_ASYNC_MAX_PAYLOAD_LEN) IN
       /\ Read(n)
       /\ copied' = n
       /\ AlignedLengthRecv' = AlignUp(msg.data) - n
  /\ phase' = "dump"
  /\ UNCHANGED <<msg, AlignSize, ActDataSize, writeVars>>

\* RECV_RESP_CLASS: arguments, aligned data and the tail.
ReadRecv ==
  /\ phase = "RECV_RESP_CLASS"
  /\ LET tail == IF msg.data % 4 > 0 THEN 4 ELSE 0 IN
       Read(RECV_ARGS_SIZE + (msg.args - RECV_ARGS_SIZE) + AlignDown(msg.data) + tail)
  /\ copied' = AlignDown(msg.data) + (msg.data % 4)
  /\ phase' = "align"
  /\ UNCHANGED <<msg, AlignedLengthRecv, AlignSize, ActDataSize, writeVars>>
-----------------------------------------------------------------------------
(***************************************************************************)
(* CMD_RESP_CLASS: the descriptor, and the payload if the caller has a     *)
(* buffer for it.  The response of a command without a buffer (user = 0)   *)
(* has no payload.                                                         *)
(***************************************************************************)
ReadDescriptor ==
  /\ phase = "CMD_RESP_CLASS"
  /\ Read(AlignUp(msg.args))
  /\ ActDataSize' = msg.data
  /\ phase' = IF msg.user # 0 /\ msg.data > 0 THEN "payload" ELSE "align"
  /\ UNCHANGED <<msg, AlignedLengthRecv, AlignSize, copied, writeVars>>

\* Mutated ReadPayload: the tail word is copied as a whole.
ReadPayload_WholeTail ==
  /\ phase = "payload"
  /\ LET n == Smaller(ActDataSize, msg.user)
         tail == IF n % 4 > 0 THEN 4 ELSE 0
     IN  /\ Read(AlignDown(n) + tail)
         /\ copied' = AlignDown(n) + tail
         /\ ActDataSize' = ActDataSize - tail
  /\ phase' = "rest"
  /\ UNCHANGED <<msg, AlignedLengthRecv, AlignSize, writeVars>>

\* Aligned part to the caller's buffer, tail through TailBuffer.
ReadPayload ==
  /\ phase = "payload"
  /\ LET n == Smaller(ActDataSize, msg.user)
         tail == IF n % 4 > 0 THEN 4 ELSE 0
     IN  /\ Read(AlignDown(n) + tail)
         /\ copied' = AlignDown(n) + (n % 4)
         /\ ActDataSize' = ActDataSize - tail
  /\ phase' = "rest"
  /\ UNCHANGED <<msg, AlignedLengthRecv, AlignSize, writeVars>>

\* Mutated RestToDump: the aligned length of the buffer is not considered.
RestToDump_Unaligned ==
  /\ phase = "rest"
  /\ AlignedLengthRecv' = IF ActDataSize > msg.user THEN (ActDataSize - msg.user) % U16 ELSE 0
  /\ phase' = "dump"
  /\ UNCHANGED <<msg, unread, AlignSize, copied, ActDataSize, writeVars>>

\* "calculate the rest of the data size to dump"
RestToDump ==
  /\ phase = "rest"
  /\ AlignedLengthRecv' = IF ActDataSize > msg.user
                          THEN (ActDataSize - AlignDown(msg.user)) % U16 ELSE 0
  /\ phase' = "dump"
  /\ UNCHANGED <<msg, unread, AlignSize, copied, ActDataSize, writeVars>>

\* One round of the dump loops.
Dump ==
  /\ phase = "dump" /\ AlignedLengthRecv > 0
  /\ Read(4)
  /\ AlignedLengthRecv' = (AlignedLengthRecv - 4) % U16
  /\ UNCHANGED <<msg, phase, AlignSize, copied, ActDataSize, writeVars>>

DumpEnd ==
  /\ phase = "dump" /\ AlignedLengthRecv = 0
  /\ phase' = "align"
  /\ UNCHANGED <<msg, unread, AlignedLengthRecv, AlignSize, copied, ActDataSize, writeVars>>

\* The rest of the last word, and the end of _SlDrvMsgRead and of its locals.
ReadAlign ==
  /\ phase = "align"
  /\ Read(AlignSize)
  /\ phase' = "done" /\ msg' = NoMsg
  /\ AlignedLengthRecv' = 0 /\ AlignSize' = 0 /\ ActDataSize' = 0
  /\ UNCHANGED <<copied, writeVars>>
-----------------------------------------------------------------------------
(***************************************************************************)
(* _SlDrvMsgWrite, under GlobalLockObj.                                    *)
(***************************************************************************)
_SL_PROTOCOL_CALC_LEN(c) == AlignUp(c.desc) + IF c.ext THEN AlignUp(c.tx) ELSE 0

\* Header.  The sign of RxPayloadLen is changed in the caller's structure.
WriteHeader(c) ==
  LET sends == c.ext /\ c.rx < 0 /\ c.tx # 0 IN
  /\ wphase = "idle" /\ phase = "done"
  /\ sendRxPayload' = sends
  /\ cmd' = IF sends THEN [c EXCEPT !.rx = -@] ELSE c
  /\ announced' = _SL_PROTOCOL_CALC_LEN(c) + IF sends THEN -c.rx ELSE 0
  /\ written' = 0 /\ copied' = 0
  /\ wphase' = "arguments"
  /\ UNCHANGED <<msg, phase, unread, AlignedLengthRecv, AlignSize, ActDataSize>>

\* Descriptors, and the Rx payload "used as Tx as well"
WriteArguments ==
  /\ wphase = "arguments"
  /\ written' = AlignUp(cmd.desc) + IF sendRxPayload THEN AlignUp(cmd.rx) ELSE 0
  /\ wphase' = "payload"
  /\ UNCHANGED <<cmd, sendRxPayload, announced, readVars>>

WritePayload ==
  /\ wphase = "payload"
  /\ written' = written + IF cmd.ext /\ cmd.tx > 0 THEN AlignUp(cmd.tx) ELSE 0
  /\ wphase' = "idle"
  /\ UNCHANGED <<cmd, sendRxPayload, announced, readVars>>

MsgWrite == WriteArguments \/ WritePayload

MsgRead ==
  \/ RxHdrRead \/ ReadDummy \/ ReadAsync \/ ReadRecv \/ ReadDescriptor
  \/ ReadPayload \/ RestToDump \/ Dump \/ DumpEnd \/ ReadAlign

Next ==
  \/ MsgRead \/ MsgWrite
  \/ \E m \in Message : NwpSend(m)
  \/ \E c \in Command : WriteHeader(c)

Spec == Init /\ [][Next]_vars

\* _SlDrvMsgRead runs on; the NWP may stay silent.
FairSpec == Spec /\ WF_vars(MsgRead)
-----------------------------------------------------------------------------
(***************************************************************************)
(* Properties.                                                             *)
(***************************************************************************)

\* Both directions stay in step: after _SlDrvMsgRead nothing of the message is
\* left in the interface and nothing behind it has been taken, and after
\* _SlDrvMsgWrite as many bytes follow the header as it announced.
InStep ==
  /\ phase = "done" => unread = 0
  /\ wphase = "idle" => written = announced

\* The caller's buffer receives what fits of the payload and nothing else.
BufferFilled ==
  /\ phase # "done" => copied <= msg.user
  /\ phase = "align" /\ msg.class = "CMD_RESP_CLASS" => copied = Smaller(msg.data, msg.user)

\* "In case the user supplied Rx buffer length which is smaller then the
\* received data length, dump the rest": the read of every message ends.
ReadEnds == phase = "sync" ~> phase = "done"
-----------------------------------------------------------------------------
(***************************************************************************)
(* The inductive invariant of reading and writing.                         *)
(***************************************************************************)

\* What the read needs to know of a message: a receive is never answered with
\* more than it asked for, and a response is longer than the caller's buffer
\* only if its payload is a multiple of 4.
Fits(m) ==
  /\ m.class = "RECV_RESP_CLASS" => m.data <= m.user
  /\ m.class = "CMD_RESP_CLASS" => \/ m.data <= m.user
                                   \/ m.user > 0 /\ m.data % 4 = 0

Classes == {"ASYNC_EVT_CLASS", "RECV_RESP_CLASS", "CMD_RESP_CLASS", "DUMMY_MSG_CLASS"}

FramingType ==
  /\ msg \in AnyMessage /\ Fits(msg)
  /\ phase \in Classes \cup {"done", "sync", "payload", "rest", "dump", "align"}
  /\ unread \in Nat /\ AlignedLengthRecv \in 0 .. U16 /\ AlignSize \in 0 .. 3
  /\ copied \in Nat /\ ActDataSize \in Int
  /\ cmd \in [desc : Nat, ext : BOOLEAN, tx : Nat, rx : Int]
  /\ wphase \in {"idle", "arguments", "payload"} /\ sendRxPayload \in BOOLEAN
  /\ announced \in Nat /\ written \in Nat

\* What is left of the message at every point of its read.
LeftToRead ==
  /\ phase = "sync" => unread = WireSize(msg)
  /\ phase \in Classes => /\ phase = msg.class
                          /\ unread = AlignSize + AlignUp(msg.args + msg.data)
  /\ phase = "payload" => /\ ActDataSize = msg.data
                          /\ unread = AlignSize + AlignUp(msg.data)
  /\ phase = "rest" =>
       LET n == Smaller(msg.data, msg.user)
       IN  /\ ActDataSize = msg.data - (AlignUp(n) - AlignDown(n))
           /\ unread = AlignSize + AlignUp(msg.data) - AlignUp(n)
  /\ phase = "dump" => unread = AlignSize + AlignedLengthRecv /\ AlignedLengthRecv % 4 = 0
  /\ phase = "align" => unread = AlignSize
  /\ phase = "done" => unread = 0

\* What the caller's buffer holds.
Stored ==
  /\ phase \in Classes \cup {"sync", "payload"} => copied = 0
  /\ phase \in {"payload", "rest"} => msg.class = "CMD_RESP_CLASS" /\ msg.user > 0
  /\ phase \in {"rest", "dump", "align"} => copied <= msg.user
  /\ phase \in {"rest", "dump", "align"} /\ msg.class = "CMD_RESP_CLASS" =>
       copied = Smaller(msg.data, msg.user)

\* What is left of the command at every point of its write.
LeftToWrite ==
  LET extra == IF sendRxPayload THEN AlignUp(cmd.rx) ELSE 0
      body  == IF cmd.ext /\ cmd.tx > 0 THEN AlignUp(cmd.tx) ELSE 0
  IN  /\ wphase # "idle" => announced = AlignUp(cmd.desc) + extra + body
      /\ wphase # "idle" /\ sendRxPayload => cmd.rx > 0
      /\ wphase = "payload" => written = AlignUp(cmd.desc) + extra
      /\ wphase = "idle" => written = announced

FramingInv == FramingType /\ LeftToRead /\ Stored /\ LeftToWrite
=============================================================================
