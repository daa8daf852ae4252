----------------------------- MODULE SlCmdEngine -----------------------------
(***************************************************************************)
(* The command and receive engine of the SimpleLink host driver            *)
(* (simplelink/source/driver.c).                                           *)
(*                                                                         *)
(* A message of the network processor (NWP) raises an interrupt.  The      *)
(* handler masks the interrupt, counts it and either signals CmdSyncObj    *)
(* (a command is waiting for its response) or spawns                       *)
(* _SlDrvMsgReadSpawnCtx.  Whoever holds GlobalLockObj reads the message,  *)
(* which unmasks the interrupt, and counts it in RxDoneCnt.  The interrupt *)
(* handler takes no lock, so every assignment to what it reads is a step   *)
(* of its own here.                                                        *)
(***************************************************************************)
EXTENDS Integers, Sequences, FiniteSets

CONSTANTS
  Task,        \* application tasks
  Spawn,       \* the spawn task (vSimpleLinkSpawnTask)
  Token,       \* the buffers of _SlDrvCmdSend (HTTP token value)
  None,        \* no owner, no response
  CntMod,      \* RxIrqCnt and RxDoneCnt count modulo this (_u8: 256)
  QueueSize,   \* osi_freertos.c: slQUEUE_SIZE
  MaxCalls,    \* bound: driver calls per task
  MaxEvents    \* bound: messages of the NWP that answer no command

Proc == Task \cup {Spawn}

ASSUME EngineAssumption ==
  /\ CntMod \in Nat /\ CntMod > 2
  /\ QueueSize \in Nat \ {0}
  /\ MaxCalls \in Nat /\ MaxEvents \in Nat
  /\ Spawn \notin Task /\ Token \notin Proc /\ None \notin Proc \cup {Token}

EventClass == {"ASYNC_EVT_CLASS", "DUMMY_MSG_CLASS", "RECV_RESP_CLASS"}

\* A message: its class and, for a response, the task whose command it answers.
Message == [class : {"CMD_RESP_CLASS"}, to : Task] \cup [class : EventClass, to : {None}]

VARIABLES
  irqMasked,        \* sl_IfMaskIntHdlr, sl_IfUnMaskIntHdlr
  RxIrqCnt, RxDoneCnt,
  IsCmdRespWaited,
  CmdSyncObj,
  GlobalLockObj,    \* the process that holds the lock, or None
  pCmdCtrl,         \* FunctionParams: whose buffers a response is copied to
  RxMsgClass,       \* FunctionParams.AsyncExt.RxMsgClass
  spawnQueue,       \* entries _SlDrvMsgReadSpawnCtx in xSimpleLinkSpawnQueue
  pc,               \* where each process is
  saved,            \* what _SlDrvCmdSend saved, per process
  response,         \* the response in the buffer of each task's command
  calls, events,    \* calls made, events sent so far
  nwpIn, nwpOut     \* commands the NWP works on; messages it has to send

counts == <<RxIrqCnt, RxDoneCnt>>
params == <<pCmdCtrl, RxMsgClass>>
nwp    == <<nwpIn, nwpOut>>
vars   == <<irqMasked, RxIrqCnt, RxDoneCnt, IsCmdRespWaited, CmdSyncObj, GlobalLockObj,
            pCmdCtrl, RxMsgClass, spawnQueue, pc, saved, response, calls, events,
            nwpIn, nwpOut>>

NothingSaved == [waited |-> FALSE, pCmdCtrl |-> None, class |-> "DUMMY_MSG_CLASS"]

(***************************************************************************)
(* _SlDrvDriverCBInit: the engine is idle.                                 *)
(***************************************************************************)
Init ==
  /\ irqMasked = FALSE
  /\ RxIrqCnt = 0 /\ RxDoneCnt = 0
  /\ IsCmdRespWaited = FALSE
  /\ CmdSyncObj = FALSE
  /\ GlobalLockObj = None
  /\ pCmdCtrl = None
  /\ RxMsgClass = "DUMMY_MSG_CLASS"
  /\ spawnQueue = 0
  /\ pc = [w \in Proc |-> "idle"]
  /\ saved = [w \in Proc |-> NothingSaved]
  /\ response = [t \in Task |-> None]
  /\ calls = [t \in Task |-> 0]
  /\ events = 0
  /\ nwpIn = {} /\ nwpOut = << >>

Goto(w, label) == pc' = [pc EXCEPT ![w] = label]

\* A counter of type _u8 is incremented.
Inc(n) == IF n = CntMod - 1 THEN 0 ELSE n + 1

\* _SL_PENDING_RX_MSG
Pending == RxIrqCnt # RxDoneCnt

\* osi_Spawn: a full queue refuses the entry, and nobody looks at the result.
SpawnReader == spawnQueue' = IF spawnQueue < QueueSize THEN spawnQueue + 1 ELSE spawnQueue
-----------------------------------------------------------------------------
\* Mutated RxIrqHandler: the interrupt is not masked.
RxIrqHandler_NoMask ==
  /\ ~irqMasked /\ nwpOut # << >>
  /\ RxIrqCnt' = Inc(RxIrqCnt)
  /\ \/ IsCmdRespWaited /\ CmdSyncObj' = TRUE /\ UNCHANGED spawnQueue
     \/ ~IsCmdRespWaited /\ SpawnReader /\ UNCHANGED CmdSyncObj
  /\ UNCHANGED <<irqMasked, RxDoneCnt, IsCmdRespWaited, GlobalLockObj, params, pc, saved,
                 response, calls, events, nwp>>

\* _SlDrvRxIrqHandler.  The NWP announces one message at a time.
RxIrqHandler ==
  /\ ~irqMasked /\ nwpOut # << >>
  /\ irqMasked' = TRUE
  /\ RxIrqCnt' = Inc(RxIrqCnt)
  /\ \/ IsCmdRespWaited /\ CmdSyncObj' = TRUE /\ UNCHANGED spawnQueue
     \/ ~IsCmdRespWaited /\ SpawnReader /\ UNCHANGED CmdSyncObj
  /\ UNCHANGED <<RxDoneCnt, IsCmdRespWaited, GlobalLockObj, params, pc, saved,
                 response, calls, events, nwp>>

\* The NWP finishes a command.
NwpRespond(t) ==
  /\ t \in nwpIn
  /\ nwpIn' = nwpIn \ {t}
  /\ nwpOut' = Append(nwpOut, [class |-> "CMD_RESP_CLASS", to |-> t])
  /\ UNCHANGED <<irqMasked, counts, IsCmdRespWaited, CmdSyncObj, GlobalLockObj, params,
                 spawnQueue, pc, saved, response, calls, events>>

\* The NWP sends an event, a flow control message or received data.
NwpEvent(c) ==
  /\ events < MaxEvents
  /\ events' = events + 1
  /\ nwpOut' = Append(nwpOut, [class |-> c, to |-> None])
  /\ UNCHANGED <<irqMasked, counts, IsCmdRespWaited, CmdSyncObj, GlobalLockObj, params,
                 spawnQueue, pc, saved, response, calls, nwpIn>>
-----------------------------------------------------------------------------
\* Mutated MsgRead: the interrupt stays masked.
MsgRead_NoUnmask(w) ==
  /\ nwpOut # << >>
  /\ nwpOut' = Tail(nwpOut)
  /\ RxMsgClass' = Head(nwpOut).class
  /\ response' = IF Head(nwpOut).class = "CMD_RESP_CLASS" /\ pCmdCtrl \in Task
                 THEN [response EXCEPT ![pCmdCtrl] = Head(nwpOut).to] ELSE response
  /\ UNCHANGED <<irqMasked, RxIrqCnt, IsCmdRespWaited, CmdSyncObj, GlobalLockObj, pCmdCtrl,
                 spawnQueue, saved, calls, events, nwpIn>>

(***************************************************************************)
(* _SlDrvMsgRead: the message is classified, a response is copied to the   *)
(* buffers of FunctionParams, and the interrupt is unmasked.               *)
(***************************************************************************)
MsgRead(w) ==
  /\ nwpOut # << >>
  /\ nwpOut' = Tail(nwpOut)
  /\ RxMsgClass' = Head(nwpOut).class
  /\ response' = IF Head(nwpOut).class = "CMD_RESP_CLASS" /\ pCmdCtrl \in Task
                 THEN [response EXCEPT ![pCmdCtrl] = Head(nwpOut).to] ELSE response
  /\ irqMasked' = FALSE
  /\ UNCHANGED <<RxIrqCnt, IsCmdRespWaited, CmdSyncObj, GlobalLockObj, pCmdCtrl,
                 spawnQueue, saved, calls, events, nwpIn>>

\* Mutated CountRead: the message is not counted.
CountRead_NotCounted(w) == UNCHANGED RxDoneCnt

\* RxDoneCnt++ after _SlDrvMsgRead.
CountRead(w) == RxDoneCnt' = Inc(RxDoneCnt)
-----------------------------------------------------------------------------
(***************************************************************************)
(* _SlDrvCmdOp.                                                            *)
(***************************************************************************)
\* Mutated CmdLock: IsCmdRespWaited is not set.
CmdLock_NotWaited(t) ==
  /\ pc[t] = "idle" /\ calls[t] < MaxCalls
  /\ GlobalLockObj = None /\ GlobalLockObj' = t
  /\ calls' = [calls EXCEPT ![t] = @ + 1]
  /\ response' = [response EXCEPT ![t] = None]
  /\ Goto(t, "write")
  /\ UNCHANGED <<irqMasked, counts, IsCmdRespWaited, CmdSyncObj, params, spawnQueue,
                 saved, events, nwp>>

\* The lock is taken and IsCmdRespWaited set: from now on the interrupt
\* handler signals CmdSyncObj.
CmdLock(t) ==
  /\ pc[t] = "idle" /\ calls[t] < MaxCalls
  /\ GlobalLockObj = None /\ GlobalLockObj' = t
  /\ IsCmdRespWaited' = TRUE
  /\ calls' = [calls EXCEPT ![t] = @ + 1]
  /\ response' = [response EXCEPT ![t] = None]
  /\ Goto(t, "write")
  /\ UNCHANGED <<irqMasked, counts, CmdSyncObj, params, spawnQueue, saved, events, nwp>>

\* _SlDrvMsgWrite
CmdWrite(t) ==
  /\ pc[t] = "write"
  /\ pCmdCtrl' = t
  /\ nwpIn' = nwpIn \cup {t}
  /\ Goto(t, "loop")
  /\ UNCHANGED <<irqMasked, counts, IsCmdRespWaited, CmdSyncObj, GlobalLockObj, RxMsgClass,
                 spawnQueue, saved, response, calls, events, nwpOut>>

\* Mutated DataOp: the data message is written without GlobalLockObj.
DataOp_NoLock(t) ==
  /\ pc[t] = "idle" /\ calls[t] < MaxCalls
  /\ pCmdCtrl' = t
  /\ calls' = [calls EXCEPT ![t] = @ + 1]
  /\ UNCHANGED <<irqMasked, counts, IsCmdRespWaited, CmdSyncObj, GlobalLockObj, RxMsgClass,
                 spawnQueue, pc, saved, response, events, nwp>>

\* _SlDrvDataReadOp and _SlDrvDataWriteOp use FunctionParams under the lock
\* and wait for no response.
DataOp(t) ==
  /\ pc[t] = "idle" /\ calls[t] < MaxCalls
  /\ GlobalLockObj = None
  /\ pCmdCtrl' = t
  /\ calls' = [calls EXCEPT ![t] = @ + 1]
  /\ UNCHANGED <<irqMasked, counts, IsCmdRespWaited, CmdSyncObj, GlobalLockObj, RxMsgClass,
                 spawnQueue, pc, saved, response, events, nwp>>

(***************************************************************************)
(* _SlDrvMsgReadCmdCtx: read messages until the response has come.         *)
(***************************************************************************)
CmdCtxRead(t) ==
  /\ pc[t] = "loop" /\ IsCmdRespWaited /\ Pending
  /\ MsgRead(t)
  /\ Goto(t, "count")
  /\ UNCHANGED RxDoneCnt

CmdCtxCount(t) ==
  /\ pc[t] = "count" /\ CountRead(t)
  /\ Goto(t, CASE RxMsgClass = "CMD_RESP_CLASS"  -> "responded"
               [] RxMsgClass = "ASYNC_EVT_CLASS" -> "handle"
               [] OTHER                          -> "loop")
  /\ UNCHANGED <<irqMasked, RxIrqCnt, IsCmdRespWaited, CmdSyncObj, GlobalLockObj, params,
                 spawnQueue, saved, response, calls, events, nwp>>

CmdCtxResponded(t) ==
  /\ pc[t] = "responded"
  /\ IsCmdRespWaited' = FALSE
  /\ Goto(t, "clear")
  /\ UNCHANGED <<irqMasked, counts, CmdSyncObj, GlobalLockObj, params, spawnQueue,
                 saved, response, calls, events, nwp>>

\* sl_SyncObjClear, "to prevent old signal to be processed".
CmdCtxClear(t) ==
  /\ pc[t] = "clear"
  /\ CmdSyncObj' = FALSE
  /\ Goto(t, "loop")
  /\ UNCHANGED <<irqMasked, counts, IsCmdRespWaited, GlobalLockObj, params, spawnQueue,
                 saved, response, calls, events, nwp>>

CmdCtxSleep(t) ==
  /\ pc[t] = "loop" /\ IsCmdRespWaited /\ ~Pending
  /\ Goto(t, "sleep")
  /\ UNCHANGED <<irqMasked, counts, IsCmdRespWaited, CmdSyncObj, GlobalLockObj, params,
                 spawnQueue, saved, response, calls, events, nwp>>

CmdCtxWoken(t) ==
  /\ pc[t] = "sleep" /\ CmdSyncObj
  /\ CmdSyncObj' = FALSE
  /\ Goto(t, "loop")
  /\ UNCHANGED <<irqMasked, counts, IsCmdRespWaited, GlobalLockObj, params, spawnQueue,
                 saved, response, calls, events, nwp>>

\* The loop ends; the lock is released before the pending messages are
\* looked at.
CmdCtxUnlock(t) ==
  /\ pc[t] = "loop" /\ ~IsCmdRespWaited
  /\ GlobalLockObj' = None
  /\ Goto(t, "check")
  /\ UNCHANGED <<irqMasked, counts, IsCmdRespWaited, CmdSyncObj, params, spawnQueue,
                 saved, response, calls, events, nwp>>

\* Mutated CmdCtxCheck: the remaining messages are forgotten.
CmdCtxCheck_Forgets(t) ==
  /\ pc[t] = "check"
  /\ Goto(t, "idle")
  /\ UNCHANGED <<irqMasked, counts, IsCmdRespWaited, CmdSyncObj, GlobalLockObj, params,
                 spawnQueue, saved, response, calls, events, nwp>>

CmdCtxCheck(t) ==
  /\ pc[t] = "check"
  /\ \/ Pending /\ SpawnReader
     \/ ~Pending /\ UNCHANGED spawnQueue
  /\ Goto(t, "idle")
  /\ UNCHANGED <<irqMasked, counts, IsCmdRespWaited, CmdSyncObj, GlobalLockObj, params,
                 saved, response, calls, events, nwp>>
-----------------------------------------------------------------------------
(***************************************************************************)
(* _SlAsyncEventGenericHandler, in either context.  The handler of an HTTP *)
(* token event answers with _SlDrvCmdSend, which saves, overwrites and     *)
(* restores the engine's state; any other handler leaves it alone.         *)
(***************************************************************************)
HandlerDone(w) == IF w = Spawn THEN "unlock" ELSE "loop"

Handle(w) ==
  /\ pc[w] = "handle"
  /\ Goto(w, HandlerDone(w))
  /\ UNCHANGED <<irqMasked, counts, IsCmdRespWaited, CmdSyncObj, GlobalLockObj, params,
                 spawnQueue, saved, response, calls, events, nwp>>

CmdSendSave(w) ==
  /\ pc[w] = "handle"
  /\ saved' = [saved EXCEPT ![w] = [waited |-> IsCmdRespWaited, pCmdCtrl |-> pCmdCtrl,
                                    class |-> RxMsgClass]]
  /\ IsCmdRespWaited' = FALSE
  /\ Goto(w, "send")
  /\ UNCHANGED <<irqMasked, counts, CmdSyncObj, GlobalLockObj, params, spawnQueue,
                 response, calls, events, nwp>>

CmdSendWrite(w) ==
  /\ pc[w] = "send"
  /\ pCmdCtrl' = Token
  /\ Goto(w, "restore")
  /\ UNCHANGED <<irqMasked, counts, IsCmdRespWaited, CmdSyncObj, GlobalLockObj, RxMsgClass,
                 spawnQueue, saved, response, calls, events, nwp>>

CmdSendRestoreFlag(w) ==
  /\ pc[w] = "restore"
  /\ IsCmdRespWaited' = saved[w].waited
  /\ Goto(w, "restore2")
  /\ UNCHANGED <<irqMasked, counts, CmdSyncObj, GlobalLockObj, params, spawnQueue,
                 saved, response, calls, events, nwp>>

\* Mutated CmdSendRestoreParams: the parameters of the waiting command stay
\* overwritten.
CmdSendRestoreParams_Missing(w) ==
  /\ pc[w] = "restore2"
  /\ Goto(w, HandlerDone(w))
  /\ saved' = [saved EXCEPT ![w] = NothingSaved]
  /\ UNCHANGED <<irqMasked, counts, IsCmdRespWaited, CmdSyncObj, GlobalLockObj, params,
                 spawnQueue, response, calls, events, nwp>>

CmdSendRestoreParams(w) ==
  /\ pc[w] = "restore2"
  /\ pCmdCtrl' = saved[w].pCmdCtrl
  /\ RxMsgClass' = saved[w].class
  /\ saved' = [saved EXCEPT ![w] = NothingSaved]
  /\ Goto(w, HandlerDone(w))
  /\ UNCHANGED <<irqMasked, counts, IsCmdRespWaited, CmdSyncObj, GlobalLockObj,
                 spawnQueue, response, calls, events, nwp>>
-----------------------------------------------------------------------------
(***************************************************************************)
(* vSimpleLinkSpawnTask and _SlDrvMsgReadSpawnCtx.                         *)
(***************************************************************************)
SpawnTake ==
  /\ pc[Spawn] = "idle" /\ spawnQueue > 0
  /\ spawnQueue' = spawnQueue - 1
  /\ Goto(Spawn, "lock")
  /\ UNCHANGED <<irqMasked, counts, IsCmdRespWaited, CmdSyncObj, GlobalLockObj, params,
                 saved, response, calls, events, nwp>>

SpawnLock ==
  /\ pc[Spawn] = "lock"
  /\ GlobalLockObj = None /\ GlobalLockObj' = Spawn
  /\ Goto(Spawn, "test")
  /\ UNCHANGED <<irqMasked, counts, IsCmdRespWaited, CmdSyncObj, params, spawnQueue,
                 saved, response, calls, events, nwp>>

\* "Messages might have been read by CmdResp context."
SpawnNothing ==
  /\ pc[Spawn] = "test" /\ ~Pending
  /\ Goto(Spawn, "unlock")
  /\ UNCHANGED <<irqMasked, counts, IsCmdRespWaited, CmdSyncObj, GlobalLockObj, params,
                 spawnQueue, saved, response, calls, events, nwp>>

SpawnRead ==
  /\ pc[Spawn] = "test" /\ Pending
  /\ MsgRead(Spawn)
  /\ Goto(Spawn, "count")
  /\ UNCHANGED RxDoneCnt

\* VERIFY_PROTOCOL(0) for a response: "assert" is a state without exit.
SpawnCount ==
  /\ pc[Spawn] = "count" /\ CountRead(Spawn)
  /\ Goto(Spawn, CASE RxMsgClass = "CMD_RESP_CLASS"  -> "assert"
                   [] RxMsgClass = "ASYNC_EVT_CLASS" -> "handle"
                   [] OTHER                          -> "unlock")
  /\ UNCHANGED <<irqMasked, RxIrqCnt, IsCmdRespWaited, CmdSyncObj, GlobalLockObj, params,
                 spawnQueue, saved, response, calls, events, nwp>>

SpawnUnlock ==
  /\ pc[Spawn] = "unlock"
  /\ GlobalLockObj' = None
  /\ Goto(Spawn, "idle")
  /\ UNCHANGED <<irqMasked, counts, IsCmdRespWaited, CmdSyncObj, params, spawnQueue,
                 saved, response, calls, events, nwp>>
-----------------------------------------------------------------------------
CmdCtxStep(t) ==
  \/ CmdWrite(t) \/ CmdCtxRead(t) \/ CmdCtxCount(t) \/ CmdCtxResponded(t)
  \/ CmdCtxClear(t) \/ CmdCtxSleep(t) \/ CmdCtxWoken(t) \/ CmdCtxUnlock(t)
  \/ CmdCtxCheck(t)

SpawnStep ==
  \/ SpawnTake \/ SpawnLock \/ SpawnNothing \/ SpawnRead \/ SpawnCount \/ SpawnUnlock

HandlerStep(w) ==
  \/ Handle(w) \/ CmdSendSave(w) \/ CmdSendWrite(w)
  \/ CmdSendRestoreFlag(w) \/ CmdSendRestoreParams(w)

ProcStep(w) ==
  \/ HandlerStep(w)
  \/ w \in Task /\ CmdCtxStep(w)
  \/ w = Spawn /\ SpawnStep

NwpStep == \E t \in Task : NwpRespond(t)

Next ==
  \/ \E t \in Task : CmdLock(t) \/ DataOp(t)
  \/ \E w \in Proc : ProcStep(w)
  \/ RxIrqHandler
  \/ NwpStep
  \/ \E c \in EventClass : NwpEvent(c)

Spec == Init /\ [][Next]_vars

(***************************************************************************)
(* Every process that can run does run, an announced interrupt is taken    *)
(* and the NWP answers every command.  Calls and events may stop.          *)
(***************************************************************************)
FairSpec ==
  /\ Spec
  /\ \A w \in Proc : WF_vars(ProcStep(w))
  /\ WF_vars(RxIrqHandler)
  /\ WF_vars(NwpStep)
-----------------------------------------------------------------------------
(***************************************************************************)
(* Properties.                                                             *)
(***************************************************************************)
\* "Command response is illegal in this context": the spawn task never
\* reads the response of a command (the assertion at driver.c:1329).
NoResponseInSpawnCtx == pc[Spawn] # "assert"

\* A command returns with its own response in its buffers, although data
\* operations and handlers that send commands overwrite FunctionParams.
ResponseToIssuer ==
  \A t \in Task : /\ response[t] \in {None, t}
                  /\ pc[t] \in {"responded", "clear", "check"} => response[t] = t

\* _SL_PENDING_RX_MSG is exact: when it holds outside of the window between
\* _SlDrvMsgRead and RxDoneCnt++, there is a message to read, so that
\* _SlDrvRxHdrRead does not scan for a sync pattern that never comes.
PendingIsReadable ==
  Pending /\ (\A w \in Proc : pc[w] # "count") => irqMasked /\ nwpOut # << >>

\* The interrupt counter runs ahead of RxDoneCnt by two at most, so the
\* comparison of two 8-bit counters cannot be fooled by a wrap-around.
PendingBounded == RxIrqCnt \in {RxDoneCnt, Inc(RxDoneCnt), Inc(Inc(RxDoneCnt))}

\* An announced message always has a reader on its way: a command, an entry
\* in the spawn queue or the spawn task before its test, even though
\* osi_Spawn drops entries when the queue is full.
HasReader ==
  \/ spawnQueue > 0
  \/ pc[Spawn] \in {"lock", "test"}
  \/ \E t \in Task : pc[t] \notin {"idle", "sleep"} \/ (pc[t] = "sleep" /\ CmdSyncObj)

NoOrphanedMessage == irqMasked => HasReader

\* Every announced message is read and the interrupt unmasked again.
AlwaysUnmasked == irqMasked ~> ~irqMasked

\* Every command that has taken the lock returns.
CommandReturns == \A t \in Task : pc[t] = "write" ~> pc[t] = "idle"
-----------------------------------------------------------------------------
(***************************************************************************)
(* The inductive invariant.                                                *)
(***************************************************************************)
HandlerLabel == {"handle", "send", "restore", "restore2"}
TaskLabel    == HandlerLabel \cup {"idle", "write", "loop", "count", "responded", "clear",
                                   "sleep", "check"}
SpawnLabel   == HandlerLabel \cup {"idle", "lock", "test", "count", "assert", "unlock"}

TypeOK ==
  /\ irqMasked \in BOOLEAN /\ IsCmdRespWaited \in BOOLEAN /\ CmdSyncObj \in BOOLEAN
  /\ RxIrqCnt \in 0 .. CntMod - 1 /\ RxDoneCnt \in 0 .. CntMod - 1
  /\ GlobalLockObj \in Proc \cup {None}
  /\ pCmdCtrl \in Proc \cup {Token, None}
  /\ RxMsgClass \in EventClass \cup {"CMD_RESP_CLASS"}
  /\ spawnQueue \in 0 .. QueueSize
  /\ pc \in [Proc -> TaskLabel \cup SpawnLabel]
  /\ pc[Spawn] \in SpawnLabel /\ \A t \in Task : pc[t] \in TaskLabel
  /\ saved \in [Proc -> [waited : BOOLEAN, pCmdCtrl : Proc \cup {Token, None},
                         class : EventClass \cup {"CMD_RESP_CLASS"}]]
  /\ response \in [Task -> Task \cup {None}]
  /\ calls \in [Task -> 0 .. MaxCalls] /\ events \in 0 .. MaxEvents
  /\ nwpIn \in SUBSET Task /\ nwpOut \in Seq(Message)

\* Who holds GlobalLockObj is told by the labels.
LocksHeld == \A w \in Proc : GlobalLockObj = w <=> pc[w] \notin {"idle", "check", "lock"}

\* The two counters differ by the announced message, and by the one that is
\* between _SlDrvMsgRead and RxDoneCnt++.
CountsExact ==
  LET reading == \E w \in Proc : pc[w] = "count"
  IN  /\ irqMasked => nwpOut # << >>
      /\ RxIrqCnt = IF irqMasked
                    THEN IF reading THEN Inc(Inc(RxDoneCnt)) ELSE Inc(RxDoneCnt)
                    ELSE IF reading THEN Inc(RxDoneCnt) ELSE RxDoneCnt

\* IsCmdRespWaited, and the copy of it, follow the command that holds the lock;
\* at "loop" it tells whether the response has come.
WaitedFollows ==
  /\ GlobalLockObj \notin Task => ~IsCmdRespWaited
  /\ ~saved[Spawn].waited
  /\ \A t \in Task :
       /\ pc[t] \in {"write", "count", "responded", "sleep", "handle", "restore2"} => IsCmdRespWaited
       /\ pc[t] \in {"send", "restore"} => saved[t].waited
       /\ pc[t] = "clear" => ~IsCmdRespWaited

\* FunctionParams are those of the command that waits, or saved.
ParamsKept ==
  \A t \in Task :
    /\ pc[t] \in {"loop", "count", "responded", "clear", "sleep", "handle", "send"} => pCmdCtrl = t
    /\ pc[t] \in {"send", "restore", "restore2"} => saved[t].pCmdCtrl = t

\* A command of t is with the NWP, or its response on its way.
Queued(t)      == \E i \in 1 .. Len(nwpOut) : nwpOut[i].class = "CMD_RESP_CLASS" /\ nwpOut[i].to = t
Outstanding(t) == t \in nwpIn \/ Queued(t)

\* At most one response is on its way.
OneResponse ==
  /\ \A i, j \in 1 .. Len(nwpOut) :
       nwpOut[i].class = "CMD_RESP_CLASS" /\ nwpOut[j].class = "CMD_RESP_CLASS" => i = j
  /\ \A t \in nwpIn : ~Queued(t)

\* Its command waits for it, with the lock.
ResponseAwaited ==
  \A t \in Task : Outstanding(t) =>
    \/ pc[t] \in {"sleep"} \cup HandlerLabel
    \/ pc[t] = "loop" /\ IsCmdRespWaited
    \/ pc[t] = "count" /\ RxMsgClass # "CMD_RESP_CLASS"

\* The response that was read is in the buffers of its command.
ResponseStored ==
  /\ pc[Spawn] = "count" => RxMsgClass # "CMD_RESP_CLASS"
  /\ \A t \in Task :
       \/ pc[t] = "count" /\ RxMsgClass = "CMD_RESP_CLASS"
       \/ pc[t] = "loop" /\ ~IsCmdRespWaited
       => response[t] = t

IInv ==
  /\ TypeOK /\ LocksHeld /\ CountsExact /\ WaitedFollows /\ ParamsKept
  /\ OneResponse /\ ResponseAwaited /\ ResponseStored
  /\ NoResponseInSpawnCtx /\ ResponseToIssuer /\ NoOrphanedMessage
=============================================================================
