----------------------------- MODULE SlFlowCont -----------------------------
(***************************************************************************)
(* Flow control of the data messages (driver.c, FlowContCB).               *)
(*                                                                         *)
(* TxPoolCnt is the driver's idea of the buffers the network processor     *)
(* (NWP) has left.  Every message that is read overwrites it from its      *)
(* header; every data message that is written takes one.  Writers keep one *)
(* buffer more in reserve than receives do.  A caller that finds too few   *)
(* sleeps on TxSyncObj with TxLockObj held.                                *)
(***************************************************************************)
EXTENDS Integers

CONSTANTS
  Reader, Writer,   \* tasks in _SlDrvDataReadOp and in _SlDrvDataWriteOp
  Rx,               \* whoever reads messages: command or spawn context
  None,
  FLOW_CONT_MIN,    \* flowcont.h: 1
  Buffers,          \* data buffers of the NWP
  MaxCalls          \* bound: data operations per task

Task == Reader \cup Writer
Proc == Task \cup {Rx}

ASSUME FlowAssumption ==
  /\ FLOW_CONT_MIN \in Nat
  /\ Buffers \in Nat /\ Buffers > FLOW_CONT_MIN + 1
  /\ MaxCalls \in Nat
  /\ Rx \notin Task /\ None \notin Proc /\ Reader \cap Writer = {}

VARIABLES
  TxPoolCnt, TxSyncObj, TxLockObj, GlobalLockObj,
  SocketNonBlocking, SocketTXFailure,  \* the tasks whose socket the last header names
  pc, calls,
  result,        \* how the last data operation of a task ended
  nwpFree,       \* buffers the NWP really has left
  nwpNonBlocking, nwpTXFailure,        \* the same sets in the NWP
  nwpNews        \* the NWP has something to tell: a message to read

flow  == <<TxPoolCnt, SocketNonBlocking, SocketTXFailure>>
locks == <<TxLockObj, GlobalLockObj>>
nwp   == <<nwpFree, nwpNonBlocking, nwpTXFailure, nwpNews>>
vars  == <<TxPoolCnt, TxSyncObj, TxLockObj, GlobalLockObj, SocketNonBlocking,
           SocketTXFailure, pc, calls, result, nwpFree, nwpNonBlocking, nwpTXFailure, nwpNews>>

\* _SlDrvDriverCBInit: no credit until the first header has been read.  The
\* 'Init Complete' message, whose header bears no flow control information,
\* has been handled.
Init ==
  /\ TxPoolCnt = FLOW_CONT_MIN
  /\ TxSyncObj = FALSE
  /\ TxLockObj = None /\ GlobalLockObj = None
  /\ SocketNonBlocking = {} /\ SocketTXFailure = {}
  /\ pc = [w \in Proc |-> "idle"]
  /\ calls = [t \in Task |-> 0]
  /\ result = [t \in Task |-> "none"]
  /\ nwpFree = Buffers /\ nwpNonBlocking = {} /\ nwpTXFailure = {}
  /\ nwpNews = TRUE

Goto(w, label) == pc' = [pc EXCEPT ![w] = label]

\* The buffers that must remain: one for a receive, two for a send.
Reserve(t) == IF t \in Reader THEN FLOW_CONT_MIN ELSE FLOW_CONT_MIN + 1

Return(t, r) == result' = [result EXCEPT ![t] = r] /\ Goto(t, "idle")
-----------------------------------------------------------------------------
(***************************************************************************)
(* _SlDrvDataReadOp and _SlDrvDataWriteOp.  They differ in the reserve, in *)
(* the socket tests of the writer, and in what happens after the sleep:    *)
(* the writer tests again and starts over, the reader goes on.             *)
(***************************************************************************)
DataOpStart(t) ==
  /\ pc[t] = "idle" /\ calls[t] < MaxCalls
  /\ calls' = [calls EXCEPT ![t] = @ + 1]
  /\ result' = [result EXCEPT ![t] = "none"]
  /\ Goto(t, "txlock")
  /\ UNCHANGED <<flow, TxSyncObj, locks, nwp>>

TakeTxLock(t) ==
  /\ pc[t] = "txlock"
  /\ TxLockObj = None /\ TxLockObj' = t
  /\ Goto(t, "clear")
  /\ UNCHANGED <<flow, TxSyncObj, GlobalLockObj, calls, result, nwp>>

\* "Clear SyncObj for the case it was signalled before TxPoolCnt dropped"
ClearTxSync(t) ==
  /\ pc[t] = "clear"
  /\ TxSyncObj' = FALSE
  /\ Goto(t, IF t \in Writer THEN "failure" ELSE "test")
  /\ UNCHANGED <<flow, locks, calls, result, nwp>>

\* "the last send has failed - socket is no longer valid"
WriteFailure(t) ==
  /\ pc[t] = "failure"
  /\ \/ t \notin SocketTXFailure /\ Goto(t, "test") /\ UNCHANGED <<TxLockObj, result>>
     \/ t \in SocketTXFailure /\ Return(t, "SL_SOC_ERROR") /\ TxLockObj' = None
  /\ UNCHANGED <<flow, TxSyncObj, GlobalLockObj, calls, nwp>>

\* A writer tests again behind the sleep whether it has slept or not.
Granted(t) == IF t \in Writer THEN "retest" ELSE "global"

TestCredit(t) ==
  /\ pc[t] = "test"
  /\ \/ TxPoolCnt > Reserve(t) /\ Goto(t, Granted(t))
     \/ TxPoolCnt <= Reserve(t) /\ Goto(t, IF t \in Writer THEN "nonblock" ELSE "sleep")
  /\ UNCHANGED <<flow, TxSyncObj, locks, calls, result, nwp>>

WriteNonBlocking(t) ==
  /\ pc[t] = "nonblock"
  /\ \/ t \notin SocketNonBlocking /\ Goto(t, "sleep") /\ UNCHANGED <<TxLockObj, result>>
     \/ t \in SocketNonBlocking /\ Return(t, "SL_EAGAIN") /\ TxLockObj' = None
  /\ UNCHANGED <<flow, TxSyncObj, GlobalLockObj, calls, nwp>>

WokenByCredit(t) ==
  /\ pc[t] = "sleep" /\ TxSyncObj
  /\ TxSyncObj' = FALSE
  /\ Goto(t, Granted(t))
  /\ UNCHANGED <<flow, locks, calls, result, nwp>>

\* Mutated WriteRetest: the writer goes on after any wake-up.
WriteRetest_NoLoop(t) ==
  /\ pc[t] = "retest"
  /\ Goto(t, "global")
  /\ UNCHANGED <<flow, TxSyncObj, locks, calls, result, nwp>>

\* The signal means credit for a receive; a writer may need one more.
WriteRetest(t) ==
  /\ pc[t] = "retest"
  /\ \/ TxPoolCnt > Reserve(t) /\ Goto(t, "global") /\ UNCHANGED TxLockObj
     \/ TxPoolCnt <= Reserve(t) /\ Goto(t, "txlock") /\ TxLockObj' = None
  /\ UNCHANGED <<flow, TxSyncObj, GlobalLockObj, calls, result, nwp>>

TakeGlobalLock(t) ==
  /\ pc[t] = "global"
  /\ GlobalLockObj = None /\ GlobalLockObj' = t
  /\ Goto(t, "verify")
  /\ UNCHANGED <<flow, TxSyncObj, TxLockObj, calls, result, nwp>>

\* Mutated TakeCredit: the buffer is not counted.
TakeCredit_NotCounted(t) ==
  /\ pc[t] = "verify" /\ TxPoolCnt > Reserve(t)
  /\ TxLockObj' = None
  /\ Goto(t, "send")
  /\ UNCHANGED <<TxPoolCnt, SocketNonBlocking, SocketTXFailure, TxSyncObj, GlobalLockObj,
                 calls, result, nwp>>

\* VERIFY_PROTOCOL and TxPoolCnt--.
TakeCredit(t) ==
  /\ pc[t] = "verify" /\ TxPoolCnt > Reserve(t)
  /\ TxPoolCnt' = TxPoolCnt - 1
  /\ TxLockObj' = None
  /\ Goto(t, "send")
  /\ UNCHANGED <<SocketNonBlocking, SocketTXFailure, TxSyncObj, GlobalLockObj,
                 calls, result, nwp>>

\* _SlDrvMsgWrite and the release of GlobalLockObj.
SendMessage(t) ==
  /\ pc[t] = "send"
  /\ nwpFree' = nwpFree - 1
  /\ GlobalLockObj' = None
  /\ Return(t, "sent")
  /\ UNCHANGED <<flow, TxSyncObj, TxLockObj, calls, nwpNonBlocking, nwpTXFailure, nwpNews>>
-----------------------------------------------------------------------------
(***************************************************************************)
(* _SlDrvMsgRead: every message carries the flow control state of the NWP  *)
(* in its header.  The context that reads holds GlobalLockObj.             *)
(***************************************************************************)
RxLock ==
  /\ pc[Rx] = "idle" /\ nwpNews
  /\ GlobalLockObj = None /\ GlobalLockObj' = Rx
  /\ Goto(Rx, "header")
  /\ UNCHANGED <<flow, TxSyncObj, TxLockObj, calls, result, nwp>>

RxHeader ==
  /\ pc[Rx] = "header"
  /\ TxPoolCnt' = nwpFree
  /\ SocketNonBlocking' = nwpNonBlocking /\ SocketTXFailure' = nwpTXFailure
  /\ nwpNews' = FALSE
  /\ Goto(Rx, "signal")
  /\ UNCHANGED <<TxSyncObj, locks, calls, result, nwpFree, nwpNonBlocking, nwpTXFailure>>

\* Mutated RxSignal: the sleepers are not signalled.
RxSignal_Missing ==
  /\ pc[Rx] = "signal"
  /\ Goto(Rx, "unlock")
  /\ UNCHANGED <<flow, TxSyncObj, locks, calls, result, nwp>>

RxSignal ==
  /\ pc[Rx] = "signal"
  /\ TxSyncObj' = (TxPoolCnt > FLOW_CONT_MIN \/ TxSyncObj)
  /\ Goto(Rx, "unlock")
  /\ UNCHANGED <<flow, locks, calls, result, nwp>>

RxUnlock ==
  /\ pc[Rx] = "unlock"
  /\ GlobalLockObj' = None
  /\ Goto(Rx, "idle")
  /\ UNCHANGED <<flow, TxSyncObj, TxLockObj, calls, result, nwp>>

(***************************************************************************)
(* The NWP: a data message is done with and its buffer free again; a       *)
(* socket fails or is set non-blocking.  The NWP tells the host.           *)
(***************************************************************************)
NwpFree ==
  /\ nwpFree < Buffers
  /\ nwpFree' = nwpFree + 1
  /\ nwpNews' = TRUE
  /\ UNCHANGED <<flow, TxSyncObj, locks, pc, calls, result, nwpNonBlocking, nwpTXFailure>>

NwpSocket(t) ==
  /\ \/ nwpNonBlocking' = nwpNonBlocking \cup {t} /\ UNCHANGED nwpTXFailure
     \/ nwpTXFailure' = nwpTXFailure \cup {t} /\ UNCHANGED nwpNonBlocking
  /\ nwpNews' = TRUE
  /\ UNCHANGED <<flow, TxSyncObj, locks, pc, calls, result, nwpFree>>
-----------------------------------------------------------------------------
TaskStep(t) ==
  \/ TakeTxLock(t) \/ ClearTxSync(t) \/ WriteFailure(t) \/ TestCredit(t)
  \/ WriteNonBlocking(t) \/ WokenByCredit(t) \/ WriteRetest(t)
  \/ TakeGlobalLock(t) \/ TakeCredit(t) \/ SendMessage(t)

RxStep == RxLock \/ RxHeader \/ RxSignal \/ RxUnlock

Next ==
  \/ \E t \in Task : DataOpStart(t) \/ TaskStep(t)
  \/ RxStep
  \/ NwpFree
  \/ \E t \in Writer : NwpSocket(t)

Spec == Init /\ [][Next]_vars

(***************************************************************************)
(* Tasks and the reading context run, the NWP frees its buffers.  The      *)
(* locks are mutexes with a queue of waiters: a task that finds one free   *)
(* again and again gets it.                                                *)
(***************************************************************************)
FairSpec ==
  /\ Spec
  /\ \A t \in Task : WF_vars(TaskStep(t)) /\ SF_vars(TakeTxLock(t)) /\ SF_vars(TakeGlobalLock(t))
  /\ WF_vars(RxStep) /\ SF_vars(RxLock)
  /\ WF_vars(NwpFree)
-----------------------------------------------------------------------------
(***************************************************************************)
(* Properties.                                                             *)
(***************************************************************************)
Label == {"idle", "txlock", "clear", "failure", "test", "nonblock", "sleep", "retest",
          "global", "verify", "send", "header", "signal", "unlock"}

\* Type correctness.
TypeOK ==
  /\ TxPoolCnt \in 0 .. Buffers /\ nwpFree \in 0 .. Buffers
  /\ TxSyncObj \in BOOLEAN /\ nwpNews \in BOOLEAN
  /\ TxLockObj \in Task \cup {None} /\ GlobalLockObj \in Proc \cup {None}
  /\ SocketNonBlocking \subseteq Writer /\ SocketTXFailure \subseteq Writer
  /\ nwpNonBlocking \subseteq Writer /\ nwpTXFailure \subseteq Writer
  /\ pc \in [Proc -> Label] /\ calls \in [Task -> 0 .. MaxCalls]
  /\ result \in [Task -> {"none", "sent", "SL_EAGAIN", "SL_SOC_ERROR"}]

\* VERIFY_PROTOCOL(TxPoolCnt > FLOW_CONT_MIN [+ 1]) holds when a task has
\* both locks, although TxPoolCnt was tested before GlobalLockObj was taken
\* and the reader does not test it again after its sleep.
CreditAtHand == \A t \in Task : pc[t] = "verify" => TxPoolCnt > Reserve(t)

\* The driver never believes in a buffer the NWP does not have; the message
\* on its way to the NWP (there is one at most, under GlobalLockObj) is
\* covered by a buffer of its own.
InFlight == IF \E t \in Task : pc[t] = "send" THEN 1 ELSE 0

CreditCovered == TxPoolCnt + InFlight <= nwpFree

\* Senders leave a buffer for receive requests: after a send more than
\* FLOW_CONT_MIN buffers remain.
SendersLeaveReserve == \A t \in Writer : pc[t] = "send" => TxPoolCnt > FLOW_CONT_MIN

\* No wake-up is lost: a task that sleeps for credit is signalled, or the
\* credit really is too low, or the message that brings it is being read.
NoLostCredit ==
  \A t \in Task : pc[t] = "sleep" /\ TxPoolCnt > Reserve(t) => TxSyncObj \/ pc[Rx] = "signal"

\* The inductive invariant.  Who holds which lock; the credit that a task
\* has tested cannot drop before it is taken; and the signal that ends a
\* reader's sleep was given after the reader cleared TxSyncObj, for credit
\* that only the holder of TxLockObj could have taken since.
HasTxLock(t) == pc[t] \in {"clear", "failure", "test", "nonblock", "sleep", "retest",
                           "global", "verify"}

LocksHeld ==
  /\ \A t \in Task : HasTxLock(t) <=> TxLockObj = t
  /\ \A t \in Task : pc[t] \in {"verify", "send"} <=> GlobalLockObj = t
  /\ pc[Rx] \in {"header", "signal", "unlock"} <=> GlobalLockObj = Rx
  /\ pc[Rx] \in {"idle", "header", "signal", "unlock"}
  /\ \A t \in Task : pc[t] \notin {"header", "signal", "unlock"}
  /\ \A t \in Reader : pc[t] \notin {"failure", "nonblock", "retest"}

CreditKept == \A t \in Task : pc[t] \in {"global", "verify"} => TxPoolCnt > Reserve(t)

SignalMeansCredit ==
  \A t \in Task : TxSyncObj /\ pc[t] \in {"failure", "test", "nonblock", "sleep"}
                   => TxPoolCnt > FLOW_CONT_MIN

CreditSignalled ==
  \A t \in Task : pc[t] \in {"nonblock", "sleep"} /\ TxPoolCnt > Reserve(t)
                   => TxSyncObj \/ pc[Rx] = "signal"

IInv ==
  /\ TypeOK
  /\ LocksHeld
  /\ CreditKept
  /\ CreditCovered
  /\ SendersLeaveReserve
  /\ SignalMeansCredit
  /\ CreditSignalled

\* Every data operation ends.
DataOpReturns == \A t \in Task : pc[t] = "txlock" ~> pc[t] = "idle"
=============================================================================
