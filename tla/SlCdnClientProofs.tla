-------------------------- MODULE SlCdnClientProofs --------------------------
(***************************************************************************)
(* Proofs about the download of files, for every number and size of files, *)
(* every buffer and alignment, and every number of servers.                *)
(***************************************************************************)
EXTENDS SlCdnClient, TLAPS

\* Before the first file.
LEMMA InitCdn == Init => CdnInv
  BY DEF Init, CdnInv, Saving, WholeOwnFile, NoOpenHandle

\* A request is only sent on a socket that has nothing left to deliver.
LEMMA ConnectByUrlCdn ==
  ASSUME CdnInv, NEW s \in Servers, NEW size \in 1 .. MaxSize, ConnectByUrl(s, size)
  PROVE  CdnInv'
<1>1. /\ state' = "CONNECTED" /\ result' = "none" /\ number' = number + 1 /\ handle' = handle
      /\ file_size' = size /\ totalBytesReceived' = 0 /\ own' = 0 /\ ~handle
      /\ stream' = Append(<<>>, [of |-> number + 1, left |-> size])
  BY DEF ConnectByUrl, HeadersFound, CdnInv, NoOpenHandle
<1>2. size \in Nat /\ 0 < size /\ number + 1 \in Nat /\ size - 0 = size
  BY CdnAssumption DEF CdnInv
<1>3. stream' = <<[of |-> number + 1, left |-> size]>>
  BY <1>1
<1>4. Saving'
  <2>1. stream' = Body'
    BY <1>1, <1>2, <1>3 DEF Body
  <2>. QED  BY <1>1, <1>2, <2>1 DEF Saving
<1>. QED  BY <1>1, <1>2, <1>4 DEF CdnInv, WholeOwnFile, NoOpenHandle

\* What sl_Recv returns is at most the rest of the file; what is left of the
\* body then is the rest of the rest.
LEMMA ReceivedPart ==
  ASSUME CdnInv, state # "IDLE", NEW n \in Received(BUF_LEN)
  PROVE  /\ n \in Nat /\ 0 < n /\ totalBytesReceived + n <= file_size
         /\ Head(stream).of = number
         /\ Rest(n) = IF totalBytesReceived + n = file_size THEN <<>>
                      ELSE <<[of |-> number, left |-> file_size - (totalBytesReceived + n)]>>
<1>1. totalBytesReceived \in Nat /\ file_size \in Nat /\ number \in Nat
  BY DEF CdnInv
<1>2. stream # <<>>
  BY DEF Received
<1>3. stream = Body /\ totalBytesReceived < file_size
  BY <1>2 DEF CdnInv, Saving
<1>4. Head(stream) = [of |-> number, left |-> file_size - totalBytesReceived]
  BY <1>3 DEF Body
<1>5. n \in 1 .. (IF file_size - totalBytesReceived < BUF_LEN
                  THEN file_size - totalBytesReceived ELSE BUF_LEN)
  BY <1>2, <1>4 DEF Received
<1>6. n \in Nat /\ 0 < n /\ n <= file_size - totalBytesReceived
  BY <1>1, <1>5, CdnAssumption
<1>7. CASE totalBytesReceived + n = file_size
  <2>1. file_size - totalBytesReceived = n
    BY <1>1, <1>6, <1>7
  <2>2. Rest(n) = Tail(stream)
    BY <1>4, <2>1 DEF Rest
  <2>3. Tail(stream) = <<>>
    BY <1>3 DEF Body
  <2>. QED  BY <1>1, <1>4, <1>6, <1>7, <2>2, <2>3
<1>8. CASE totalBytesReceived + n # file_size
  <2>1. file_size - totalBytesReceived # n
    BY <1>1, <1>6, <1>8
  <2>2. Rest(n) = [stream EXCEPT ![1].left = @ - n]
    BY <1>4, <2>1 DEF Rest
  <2>3. (file_size - totalBytesReceived) - n = file_size - (totalBytesReceived + n)
    BY <1>1, <1>6
  <2>4. Rest(n) = <<[of |-> number, left |-> (file_size - totalBytesReceived) - n]>>
    BY <1>3, <2>2 DEF Body
  <2>. QED  BY <1>1, <1>4, <1>6, <1>8, <2>3, <2>4
<1>. QED  BY <1>7, <1>8

\* The last chunk completes the file.
LEMMA SaveLastCdn ==
  ASSUME CdnInv, SaveLast
  PROVE  CdnInv'
<1>1. PICK n \in Received(BUF_LEN) : IsLast(n) /\ Save(n, file_size - totalBytesReceived)
  BY DEF SaveLast
<1>2. /\ state = "SAVE" /\ state' = "IDLE" /\ handle' = FALSE /\ result' = "done"
      /\ own = totalBytesReceived /\ totalBytesReceived \in Nat /\ file_size \in Nat
      /\ number \in Nat
  BY DEF SaveLast, CdnInv, Saving
<1>3. Head(stream).of = number /\ n \in Nat
  BY <1>2, ReceivedPart
<1>4. /\ totalBytesReceived' = totalBytesReceived + (file_size - totalBytesReceived)
      /\ own' = own + (file_size - totalBytesReceived)
      /\ file_size' = file_size /\ number' = number
  BY <1>1, <1>3 DEF Save, Advance
<1>5. totalBytesReceived' = file_size /\ own' = file_size
  BY <1>2, <1>4
<1>. QED  BY <1>2, <1>4, <1>5 DEF CdnInv, Saving, WholeOwnFile, NoOpenHandle

\* A chunk that is not the last one is saved as it came.
LEMMA SaveChunkCdn ==
  ASSUME CdnInv, SaveChunk
  PROVE  CdnInv'
<1>1. PICK n \in Received(BUF_LEN) : Save(n, n)
  BY DEF SaveChunk
<1>2. /\ state = "SAVE" /\ UNCHANGED <<state, handle, result>> /\ result = "none"
      /\ own = totalBytesReceived /\ totalBytesReceived \in Nat /\ file_size \in Nat
      /\ number \in Nat
  BY DEF SaveChunk, CdnInv, Saving
<1>3. /\ n \in Nat /\ totalBytesReceived + n <= file_size /\ Head(stream).of = number
      /\ Rest(n) = IF totalBytesReceived + n = file_size THEN <<>>
                   ELSE <<[of |-> number, left |-> file_size - (totalBytesReceived + n)]>>
  BY <1>2, ReceivedPart
<1>4. /\ totalBytesReceived' = totalBytesReceived + n /\ own' = own + n /\ stream' = Rest(n)
      /\ file_size' = file_size /\ number' = number
  BY <1>1, <1>3 DEF Save, Advance
<1>5. Saving'
  <2>1. CASE totalBytesReceived + n = file_size
    BY <1>2, <1>3, <1>4, <2>1 DEF Saving
  <2>2. CASE totalBytesReceived + n # file_size
    <3>1. totalBytesReceived' < file_size'
      BY <1>2, <1>3, <1>4, <2>2
    <3>2. stream' = Body'
      BY <1>3, <1>4, <2>2 DEF Body
    <3>. QED  BY <1>2, <1>4, <3>1, <3>2 DEF Saving
  <2>. QED  BY <2>1, <2>2
<1>6. {totalBytesReceived', file_size', own', number'} \subseteq Nat
  BY <1>2, <1>3, <1>4
<1>. QED  BY <1>2, <1>5, <1>6 DEF CdnInv, WholeOwnFile, NoOpenHandle

\* The other steps save nothing.
LEMMA OtherCdn ==
  ASSUME CdnInv,
         ConnectByUrlFails \/ OpenFile \/ OpenFileFails \/ GiveUp \/ CloseServer
           \/ UNCHANGED vars
  PROVE  CdnInv'
<1>. USE DEF CdnInv, Saving, WholeOwnFile, NoOpenHandle, Body
<1>1. CASE ConnectByUrlFails
  BY <1>1 DEF ConnectByUrlFails
<1>2. CASE OpenFile
  BY <1>2 DEF OpenFile
<1>3. CASE OpenFileFails
  BY <1>3 DEF OpenFileFails
<1>4. CASE GiveUp
  BY <1>4 DEF GiveUp
<1>5. CASE CloseServer
  BY <1>5 DEF CloseServer
<1>6. CASE UNCHANGED vars
  BY <1>6 DEF vars
<1>. QED  BY <1>1, <1>2, <1>3, <1>4, <1>5, <1>6

\* CdnInv holds in every reachable state.
THEOREM CdnInvariance == Spec => []CdnInv
<1>1. CdnInv /\ [Next]_vars => CdnInv'
  BY ConnectByUrlCdn, SaveLastCdn, SaveChunkCdn, OtherCdn DEF Next, Run
<1>. QED  BY InitCdn, <1>1, PTL DEF Spec

\* A file that is reported as done is complete and consists of its own bytes,
\* whatever earlier downloads were given up on the same socket.
THEOREM FilesWhole == Spec => []WholeOwnFile
<1>1. CdnInv => WholeOwnFile
  BY DEF CdnInv
<1>. QED  BY CdnInvariance, <1>1, PTL

\* A file is open exactly while it is saved.
THEOREM HandlesClosed == Spec => []NoOpenHandle
<1>1. CdnInv => NoOpenHandle
  BY DEF CdnInv
<1>. QED  BY CdnInvariance, <1>1, PTL
=============================================================================
