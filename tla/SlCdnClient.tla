---------------------------- MODULE SlCdnClient ----------------------------
(***************************************************************************)
(* Download of the files of an update (CdnClient.c): one GET request per   *)
(* file, the body saved chunk by chunk as sl_Recv delivers it.  The socket *)
(* is kept for the next file if that is on the same server, also after a   *)
(* download that was given up with part of its body still to come.         *)
(***************************************************************************)
EXTENDS Integers, Sequences

CONSTANTS
  Servers,   \* CDN servers
  None,
  MaxSize,   \* bound: bytes of a file
  ALIGNMENT, \* ALIGNMENT_READ_MASK + 1: 16
  BUF_LEN,   \* HTTP_RECV_BUF_LEN: 1440
  MaxFiles   \* bound: files of the update

ASSUME CdnAssumption ==
  /\ None \notin Servers
  /\ MaxSize \in Nat /\ MaxFiles \in Nat
  /\ ALIGNMENT \in Nat \ {0} /\ BUF_LEN \in Nat \ {0} /\ BUF_LEN % ALIGNMENT = 0

VARIABLES
  state,              \* CdnClient_t.state
  server,             \* cdn_server_name and fileSockId
  totalBytesReceived, file_size,
  handle,             \* lFileHandle is open
  number,             \* the file of the update that is downloaded
  stream,             \* body bytes the socket will deliver: of which file, how many
  own,                \* history: bytes saved that are of the file itself
  result              \* how the last download ended

vars == <<state, server, totalBytesReceived, file_size, handle, number, stream, own, result>>

\* CdnClient_Init
Init ==
  /\ state = "IDLE" /\ server = None
  /\ totalBytesReceived = 0 /\ file_size = 0 /\ handle = FALSE
  /\ number = 0 /\ stream = <<>> /\ own = 0 /\ result = "none"

\* Mutant: the status line is not looked at.
HeadersFound_Unchecked(before) == TRUE

\* _ReadFileHeaders, http_skip_headers: the first 12 bytes that the socket
\* delivers after the request have "200" where a status line has it.  The rest
\* of a body is assumed not to look like that; one that is shorter than the
\* status line shifts it.
HeadersFound(before) == before = <<>>

\* CdnClient_ConnectByUrl for the next file, of size bytes on server s: the
\* socket is kept for the same server, replaced for another.
ConnectByUrl(s, size) ==
  LET before == IF server = s THEN stream ELSE <<>>
  IN /\ state = "IDLE" /\ number < MaxFiles
     /\ HeadersFound(before)
     /\ number' = number + 1
     /\ server' = s
     /\ stream' = Append(before, [of |-> number + 1, left |-> size])
     /\ file_size' = size /\ totalBytesReceived' = 0 /\ own' = 0
     /\ state' = "CONNECTED"
     /\ result' = "none"
     /\ UNCHANGED handle

\* The server cannot be reached, the request cannot be sent, the response is
\* an error or the rest of another one: the socket is closed.  It is not if the
\* URL makes no sense.
ConnectByUrlFails ==
  /\ state = "IDLE" /\ number < MaxFiles
  /\ number' = number + 1
  /\ \/ server' = None /\ stream' = <<>>
     \/ UNCHANGED <<server, stream>>
  /\ result' = "error"
  /\ UNCHANGED <<state, totalBytesReceived, file_size, handle, own>>

-----------------------------------------------------------------------------
\* CdnClient_Run

OpenFile ==
  /\ state = "CONNECTED"
  /\ state' = "SAVE" /\ handle' = TRUE
  /\ UNCHANGED <<server, totalBytesReceived, file_size, number, stream, own, result>>

OpenFileFails ==
  /\ state = "CONNECTED"
  /\ state' = "IDLE" /\ result' = "error"
  /\ UNCHANGED <<server, totalBytesReceived, file_size, handle, number, stream, own>>

\* What sl_Recv can return for a request of len bytes.
Received(len) == IF stream = <<>> THEN {}
                 ELSE 1 .. IF Head(stream).left < len THEN Head(stream).left ELSE len

Rest(n) == IF Head(stream).left = n THEN Tail(stream)
           ELSE [stream EXCEPT ![1].left = @ - n]

\* A chunk of n bytes that reaches the size of the file is its last one.
IsLast(n) == totalBytesReceived + n >= file_size

\* The bytes by which a chunk of n bytes is short of the alignment.
ToAlign(n) == (-n) % ALIGNMENT

Advance(n) == totalBytesReceived + n

\* n bytes are received, cut to what is missing of the file, and saved.
Save(n, bytes) ==
  /\ stream' = Rest(n)
  /\ totalBytesReceived' = Advance(bytes)
  /\ own' = IF Head(stream).of = number THEN own + bytes ELSE own
  /\ UNCHANGED <<server, file_size, number>>

\* The last chunk: the file is closed.
SaveLast ==
  /\ state = "SAVE"
  /\ \E n \in Received(BUF_LEN) :
       IsLast(n) /\ Save(n, file_size - totalBytesReceived)
  /\ state' = "IDLE" /\ handle' = FALSE /\ result' = "done"

\* Another chunk.  If its length is not aligned, a second sl_Recv asks for the
\* missing bytes and may get some of them.
SaveChunk ==
  /\ state = "SAVE"
  /\ \E n \in Received(BUF_LEN) :
       /\ ~IsLast(n)
       /\ IF ToAlign(n) = 0
          THEN Save(n, n)
          ELSE \E k \in 1 .. ToAlign(n) : n + k \in Received(BUF_LEN) /\ Save(n + k, n + k)
  /\ UNCHANGED <<state, handle, result>>

\* Mutant: the file is not aborted.
GiveUp_StaysOpen ==
  /\ state = "SAVE"
  /\ stream' \in {stream} \cup {Rest(n) : n \in Received(BUF_LEN)}
  /\ state' = "IDLE" /\ result' = "error"
  /\ UNCHANGED <<server, totalBytesReceived, file_size, handle, number, own>>

\* sl_Recv fails or has nothing for too long, the first or the second one; or
\* the chunk cannot be written or the file not closed.  The file is aborted;
\* what was received is lost, what was not stays on the socket.
GiveUp ==
  /\ state = "SAVE"
  /\ stream' \in {stream} \cup {Rest(n) : n \in Received(BUF_LEN)}
  /\ state' = "IDLE" /\ handle' = FALSE /\ result' = "error"
  /\ UNCHANGED <<server, totalBytesReceived, file_size, number, own>>

\* CdnClient_CloseServer, after the last file and by _OtaCleanToIdle.  The host
\* does not call sl_extLib_OtaSet in the middle of a download.
CloseServer ==
  /\ state = "IDLE" /\ server # None
  /\ server' = None /\ stream' = <<>>
  /\ UNCHANGED <<state, totalBytesReceived, file_size, handle, number, own, result>>

Run == OpenFile \/ OpenFileFails \/ SaveLast \/ SaveChunk \/ GiveUp

Next ==
  \/ \E s \in Servers, size \in 1..MaxSize : ConnectByUrl(s, size)
  \/ ConnectByUrlFails
  \/ Run
  \/ CloseServer

Spec == Init /\ [][Next]_vars

-----------------------------------------------------------------------------
\* A file that CdnClient_Run reports as done has all its bytes, and they are
\* its own: nothing that an earlier download left on the socket it shares is
\* saved as part of it.
WholeOwnFile == result = "done" => own = file_size /\ totalBytesReceived = file_size

\* Whenever a download is over the file it was saved to has been closed or
\* aborted, on every error path of CdnClient_Run: lFileHandle is not lost over a
\* long list of files.
NoOpenHandle == handle <=> state = "SAVE"

-----------------------------------------------------------------------------
\* The inductive invariant: while a file is saved its socket has nothing but
\* the rest of it, or nothing at all, and all that was saved is its own.
Body == <<[of |-> number, left |-> file_size - totalBytesReceived]>>

Saving ==
  state # "IDLE" =>
    /\ result = "none" /\ own = totalBytesReceived
    /\ stream = <<>> \/ (stream = Body /\ totalBytesReceived < file_size)

CdnInv ==
  /\ state \in {"IDLE", "CONNECTED", "SAVE"}
  /\ {totalBytesReceived, file_size, own, number} \subseteq Nat
  /\ Saving /\ WholeOwnFile /\ NoOpenHandle
=============================================================================
