----------------------------- MODULE SlTransfer -----------------------------
(***************************************************************************)
(* The calls that move a buffer in chunks: sl_FsRead, sl_FsWrite (fs.c),   *)
(* sl_Send and sl_SendTo (socket.c), over the writing of commands and the  *)
(* reading of responses.  Messages for others come between the chunks.     *)
(*                                                                         *)
(* Bytes are named by their place: in the caller's buffer, and in the file *)
(* or in the stream of the socket.                                         *)
(***************************************************************************)
EXTENDS SlMsgFraming, Sequences

CONSTANTS
  MAX_NVMEM_CHUNK_SIZE,      \* fs.c: 1460
  MaxPayload,                \* of a socket, _SlPayloadByProtocolLUT
  Lengths, Offsets,          \* arguments of the calls
  FileSizes                  \* how far a file can be read or written

ASSUME TransferAssumption ==
  /\ {MAX_NVMEM_CHUNK_SIZE, MaxPayload} \subseteq 1 .. MaxLen
  /\ Lengths \cup Offsets \cup FileSizes \subseteq Nat

VARIABLES
  call,    \* the call: its arguments, its locals, and the command in Msg
  moved    \* history: <<place in the buffer, place in the file or stream>>

transferVars == <<vars, call, moved>>

FsOps == {"FsRead", "FsWrite"}
SendOps == {"Send", "SendRaw", "SendTo"}    \* SendRaw: sl_Send on a RAW transceiver socket

ChunkSize(op) == IF op \in FsOps THEN MAX_NVMEM_CHUNK_SIZE ELSE MaxPayload

Garbage == [Offset |-> -1, Len |-> -1]

NoCall ==
  [op |-> "none", pc |-> "idle", len |-> 0, start |-> 0, size |-> 0,
   Len |-> 0, Offset |-> 0, at |-> 0, ChunkLen |-> 0,
   Cmd |-> Garbage, status |-> 0, RetCount |-> 0]

TransferInit == Init /\ call = NoCall /\ moved = <<>>

-----------------------------------------------------------------------------
\* A call: the first chunk.  An offset and a file are for the file system only.
StartCall(op, len, start, size) ==
  LET chunk == Smaller(ChunkSize(op), len) IN
  /\ call.pc = "idle" /\ phase = "done" /\ wphase = "idle"
  /\ call' = [NoCall EXCEPT !.op = op, !.pc = "chunk", !.len = len, !.start = start,
                !.size = size, !.Len = len, !.Offset = start, !.ChunkLen = chunk,
                !.Cmd = [Offset |-> start, Len |-> chunk]]
  /\ moved' = <<>>
  /\ UNCHANGED vars

\* The command of a chunk, with pCmdExt
CommandOf(c) ==
  [desc |-> IF c.op \in {"Send", "SendRaw"} THEN 4 ELSE 12, ext |-> TRUE,
   tx |-> IF c.op = "FsRead" THEN 0 ELSE c.ChunkLen,
   rx |-> CASE c.op = "FsRead"  -> c.ChunkLen
            [] c.op = "SendRaw" -> -4          \* the flags, "mark as Rx data to send"
            [] OTHER            -> 0]

\* _SlDrvCmdOp or _SlDrvDataWriteOp writes the command.
SendCommand ==
  /\ call.pc = "chunk"
  /\ WriteHeader(CommandOf(call))
  /\ call' = [call EXCEPT !.pc = "written"]
  /\ UNCHANGED moved

\* _SlDrvDataWriteOp fails: SL_EAGAIN or SL_SOC_ERROR
SendFails ==
  /\ call.pc = "chunk" /\ call.op \in SendOps
  /\ call' = [call EXCEPT !.pc = "failed"]
  /\ UNCHANGED <<vars, moved>>

\* n bytes of the buffer from the place `at' on, and where they go
Pairs(at, to, n) == [i \in 1 .. n |-> <<at + i - 1, to + i - 1>>]

-----------------------------------------------------------------------------
\* The network processor

\* It takes the command as Msg.Cmd has it.  Behind the end of a file, and when
\* the flash fails, the status is an error; a response to an error has no data.
Statuses(c) ==
  LET left == c.size - c.Cmd.Offset
  IN {-1} \cup IF left < 0 THEN {} ELSE {Smaller(c.Cmd.Len, left)}

\* The response overwrites Msg, which is a union.
NwpRespond(status) ==
  LET data == IF call.op = "FsRead" /\ status > 0 THEN status ELSE 0 IN
  /\ call.pc = "written" /\ wphase = "idle" /\ call.op \in FsOps
  /\ NwpSend([class |-> "CMD_RESP_CLASS", shift |-> 0, again |-> 0, args |-> 4,
              data |-> data, user |-> cmd.rx])
  /\ call' = [call EXCEPT !.pc = "response", !.status = status, !.Cmd = Garbage]
  /\ moved' = IF call.op = "FsWrite" /\ status > 0
              THEN moved \o Pairs(call.at, call.Cmd.Offset, status) ELSE moved

\* A send has no response: the bytes are behind those sent before.
NwpTake ==
  /\ call.pc = "written" /\ wphase = "idle" /\ call.op \in SendOps
  /\ moved' = moved \o Pairs(call.at, Len(moved), call.Cmd.Len)
  /\ call' = [call EXCEPT !.pc = "sent"]
  /\ UNCHANGED vars

\* A message for somebody else.  In a call it is no response to a command.
OtherMessage(m) ==
  /\ NwpSend(m)
  /\ \/ call.pc = "idle"
     \/ call.pc = "written" /\ m.class # "CMD_RESP_CLASS"
  /\ UNCHANGED <<call, moved>>

-----------------------------------------------------------------------------
\* Mutant: the offset is not set again for the next command.
NextChunk_StaleOffset(c) ==
  LET chunk == Smaller(ChunkSize(c.op), c.Len - c.ChunkLen)
  IN [c EXCEPT !.Len = @ - c.ChunkLen, !.Offset = @ + c.ChunkLen, !.at = @ + c.ChunkLen,
               !.ChunkLen = chunk, !.Cmd = [Offset |-> c.start, Len |-> chunk],
               !.pc = IF chunk > 0 /\ c.op # "SendRaw" THEN "chunk" ELSE "done"]

\* The end of the loop's body and its condition.  All of Msg.Cmd is set again.
NextChunk(c) ==
  LET left  == c.Len - c.ChunkLen
      chunk == Smaller(ChunkSize(c.op), left)
  IN [c EXCEPT !.Len = left, !.Offset = @ + c.ChunkLen, !.at = @ + c.ChunkLen,
               !.ChunkLen = chunk, !.Cmd = [Offset |-> c.Offset + c.ChunkLen, Len |-> chunk],
               !.pc = IF chunk > 0 /\ c.op # "SendRaw" THEN "chunk" ELSE "done"]

\* The response has been read: what was copied is where pRxPayload points to.
FsResponse ==
  /\ call.pc = "response" /\ phase = "done"
  /\ moved' = IF call.op = "FsRead"
              THEN moved \o Pairs(call.at, call.Offset, copied) ELSE moved
  /\ call' = CASE call.status < 0 /\ call.RetCount > 0 -> [call EXCEPT !.pc = "done"]
               [] call.status < 0 /\ call.RetCount = 0 -> [call EXCEPT !.pc = "failed"]
               [] OTHER -> NextChunk([call EXCEPT !.RetCount = @ + call.status])
  /\ UNCHANGED vars

\* The return value of a send that is done is the length it was called with.
ChunkSent ==
  /\ call.pc = "sent"
  /\ call' = [NextChunk(call) EXCEPT !.RetCount = call.len]
  /\ UNCHANGED <<vars, moved>>

Return ==
  /\ call.pc \in {"done", "failed"}
  /\ call' = NoCall /\ moved' = <<>>
  /\ UNCHANGED vars

-----------------------------------------------------------------------------
Calls ==
  \/ SendCommand \/ SendFails \/ FsResponse \/ ChunkSent \/ Return
  \/ NwpTake \/ \E status \in Statuses(call) : NwpRespond(status)

TransferNext ==
  \/ Calls
  \/ (MsgRead \/ MsgWrite) /\ UNCHANGED <<call, moved>>
  \/ \E m \in Message : OtherMessage(m)
  \/ \E c \in Command : call.pc = "idle" /\ WriteHeader(c) /\ UNCHANGED <<call, moved>>
  \/ \E op \in FsOps, len \in Lengths, start \in Offsets, size \in FileSizes :
       StartCall(op, len, start, size)
  \/ \E op \in SendOps, len \in Lengths :
       (op = "SendRaw" => len <= MaxPayload) /\ StartCall(op, len, 0, 0)

TransferSpec ==
  /\ TransferInit /\ [][TransferNext]_transferVars
  /\ WF_transferVars(MsgRead /\ UNCHANGED <<call, moved>>)

-----------------------------------------------------------------------------
\* What a call reports is what it moved: a count of n says that exactly the
\* first n bytes of the buffer were read, written or sent, each once and each
\* to its place, however the chunks were cut and wherever the file ended.  A
\* call that fails has at most moved a beginning of the buffer.
TransferExact ==
  LET beginning(n) == moved = Pairs(0, call.start, n)
  IN /\ call.pc = "done" => beginning(call.RetCount)
     /\ call.pc = "failed" => beginning(Len(moved))
-----------------------------------------------------------------------------
(***************************************************************************)
(* The inductive invariant of the calls, over FramingInv.                  *)
(***************************************************************************)
Ops == FsOps \cup SendOps

CallRecord ==
  [op : Ops \cup {"none"},
   pc : {"idle", "chunk", "written", "response", "sent", "done", "failed"},
   len : Nat, start : Nat, size : Nat, Len : Nat, Offset : Nat, at : Nat, ChunkLen : Sizes,
   Cmd : [Offset : Int, Len : Int], status : Int, RetCount : Nat]

CallType ==
  /\ call \in CallRecord
  /\ call.pc = "idle" => call = NoCall /\ moved = <<>>

\* Where the loop is: `at' bytes of the buffer are done, Len are to be done.
Cut ==
  call.pc # "idle" =>
    /\ call.op \in Ops
    /\ call.at + call.Len = call.len /\ call.Offset = call.start + call.at
    /\ call.ChunkLen = Smaller(ChunkSize(call.op), call.Len)
    /\ call.op \in SendOps => call.start = 0 /\ call.pc # "response"
    /\ call.op \in FsOps => call.pc # "sent"
    /\ call.op = "SendRaw" => call.len <= MaxPayload

\* What the command asks for, and what the response says.
Taken == IF call.status > 0 THEN call.status ELSE 0

Asked ==
  /\ call.pc \in {"chunk", "written"} => call.Cmd = [Offset |-> call.Offset, Len |-> call.ChunkLen]
  /\ call.pc = "written" => /\ call.op = "FsRead" => cmd.rx = call.ChunkLen
                            /\ call.op = "FsWrite" => cmd.rx = 0
  /\ call.pc = "response" =>
       \/ call.status = -1
       \/ call.Offset <= call.size /\ call.status = Smaller(call.ChunkLen, call.size - call.Offset)
  /\ call.pc = "response" /\ phase # "done" =>
       /\ msg.class = "CMD_RESP_CLASS"
       /\ call.op = "FsRead" => msg.data = Taken /\ msg.user = call.ChunkLen
  /\ call.pc = "response" /\ phase = "done" /\ call.op = "FsRead" => copied = Taken

\* What has been moved: a file operation that was cut short is behind the end
\* of the file, where it can move nothing more.
Beginning(n) == moved = Pairs(0, call.start, n)

MovedSoFar ==
  /\ call.op \in FsOps /\ call.pc \in {"chunk", "written", "response"} =>
       call.RetCount = call.at \/ call.size < call.Offset
  /\ call.op \in FsOps /\ call.pc # "idle" =>
       Beginning(IF call.pc = "response" /\ call.op = "FsWrite"
                 THEN call.RetCount + Taken ELSE call.RetCount)
  /\ call.op \in SendOps /\ call.pc \in {"chunk", "written", "failed"} => Beginning(call.at)
  /\ call.op \in SendOps /\ call.pc = "sent" => Beginning(call.at + call.ChunkLen)
  /\ call.op \in SendOps /\ call.pc = "done" => Beginning(call.len) /\ call.RetCount = call.len

TransferInv == FramingInv /\ CallType /\ Cut /\ Asked /\ MovedSoFar
=============================================================================
