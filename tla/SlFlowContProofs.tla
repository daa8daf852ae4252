-------------------------- MODULE SlFlowContProofs --------------------------
(***************************************************************************)
(* The flow control invariants of SlFlowCont, proved for any number of     *)
(* tasks and of buffers.  Each action has a lemma: it preserves IInv.      *)
(***************************************************************************)
EXTENDS SlFlowCont, TLAPS

\* What SMT has to know of the processes.
LEMMA ProcFacts ==
  /\ Rx \in Proc /\ Rx \notin Task /\ None \notin Task /\ None # Rx
  /\ \A t \in Task : t \in Proc
  /\ \A t \in Reader : t \in Task /\ t \notin Writer
  /\ \A t \in Writer : t \in Task /\ t \notin Reader
  /\ \A t \in Task : t \notin Reader => t \in Writer
  /\ FLOW_CONT_MIN \in Nat /\ Buffers \in Nat /\ MaxCalls \in Nat
BY FlowAssumption DEF Task, Proc

LEMMA ReserveFacts ==
  \A t \in Task : /\ Reserve(t) \in Nat
                  /\ t \in Reader => Reserve(t) = FLOW_CONT_MIN
                  /\ t \in Writer => Reserve(t) = FLOW_CONT_MIN + 1
                  /\ Reserve(t) >= FLOW_CONT_MIN
<1> TAKE t \in Task
<1>1. CASE t \in Reader
  BY <1>1, ProcFacts DEF Reserve
<1>2. CASE t \in Writer
  BY <1>2, ProcFacts DEF Reserve
<1> QED
  BY <1>1, <1>2, ProcFacts

\* _SlDrvDriverCBInit establishes the invariant.
LEMMA InitIInv == Init => IInv
<1> SUFFICES ASSUME Init PROVE IInv
  OBVIOUS
<1> USE ProcFacts, ReserveFacts DEF Init
<1>1. TypeOK
  <2>1. TxPoolCnt \in 0 .. Buffers /\ nwpFree \in 0 .. Buffers
    BY FlowAssumption
  <2>2. pc \in [Proc -> Label]
    BY DEF Label
  <2>3. /\ calls \in [Task -> 0 .. MaxCalls]
        /\ result \in [Task -> {"none", "sent", "SL_EAGAIN", "SL_SOC_ERROR"}]
    OBVIOUS
  <2> QED
    BY <2>1, <2>2, <2>3 DEF TypeOK
<1>2. LocksHeld
  BY DEF LocksHeld, HasTxLock
<1>3. CreditKept /\ SendersLeaveReserve /\ SignalMeansCredit /\ CreditSignalled
  BY DEF CreditKept, SendersLeaveReserve, SignalMeansCredit, CreditSignalled
<1>4. CreditCovered
  BY FlowAssumption DEF CreditCovered, InFlight
<1> QED
  BY <1>1, <1>2, <1>3, <1>4 DEF IInv

\* A data operation begins.
LEMMA DataOpStartIInv ==
  ASSUME NEW t \in Task, IInv, DataOpStart(t)
  PROVE  IInv'
<1> USE ProcFacts, ReserveFacts DEF IInv, DataOpStart, Goto, flow, locks, nwp
<1>1. TypeOK'
  BY DEF TypeOK, Label
<1>2. LocksHeld'
  BY DEF TypeOK, LocksHeld, HasTxLock
<1>3. CreditKept'
  BY DEF TypeOK, LocksHeld, HasTxLock, CreditKept, CreditCovered, InFlight, SignalMeansCredit
<1>4. CreditCovered'
  BY DEF TypeOK, LocksHeld, CreditCovered, InFlight
<1>5. SendersLeaveReserve'
  BY DEF TypeOK, LocksHeld, CreditKept, SendersLeaveReserve
<1>6. SignalMeansCredit'
  BY DEF TypeOK, LocksHeld, HasTxLock, CreditCovered, InFlight, SignalMeansCredit
<1>7. CreditSignalled'
  BY DEF TypeOK, LocksHeld, HasTxLock, CreditSignalled
<1> QED
  BY <1>1, <1>2, <1>3, <1>4, <1>5, <1>6, <1>7

\* TxLockObj is taken when nobody holds it.
LEMMA TakeTxLockIInv ==
  ASSUME NEW t \in Task, IInv, TakeTxLock(t)
  PROVE  IInv'
<1> USE ProcFacts, ReserveFacts DEF IInv, TakeTxLock, Goto, flow, locks, nwp
<1>1. TypeOK'
  BY DEF TypeOK, Label
<1>2. LocksHeld'
  BY DEF TypeOK, LocksHeld, HasTxLock
<1>3. CreditKept'
  BY DEF TypeOK, LocksHeld, HasTxLock, CreditKept, CreditCovered, InFlight, SignalMeansCredit
<1>4. CreditCovered'
  BY DEF TypeOK, LocksHeld, CreditCovered, InFlight
<1>5. SendersLeaveReserve'
  BY DEF TypeOK, LocksHeld, CreditKept, SendersLeaveReserve
<1>6. SignalMeansCredit'
  BY DEF TypeOK, LocksHeld, HasTxLock, CreditCovered, InFlight, SignalMeansCredit
<1>7. CreditSignalled'
  BY DEF TypeOK, LocksHeld, HasTxLock, CreditSignalled
<1> QED
  BY <1>1, <1>2, <1>3, <1>4, <1>5, <1>6, <1>7

\* The old signal is cleared before the credit is tested.
LEMMA ClearTxSyncIInv ==
  ASSUME NEW t \in Task, IInv, ClearTxSync(t)
  PROVE  IInv'
<1> USE ProcFacts, ReserveFacts DEF IInv, ClearTxSync, Goto, flow, locks, nwp
<1>1. TypeOK'
  BY DEF TypeOK, Label
<1>2. LocksHeld'
  BY DEF TypeOK, LocksHeld, HasTxLock
<1>3. CreditKept'
  BY DEF TypeOK, LocksHeld, HasTxLock, CreditKept, CreditCovered, InFlight, SignalMeansCredit
<1>4. CreditCovered'
  BY DEF TypeOK, LocksHeld, CreditCovered, InFlight
<1>5. SendersLeaveReserve'
  BY DEF TypeOK, LocksHeld, CreditKept, SendersLeaveReserve
<1>6. SignalMeansCredit'
  BY DEF TypeOK, LocksHeld, HasTxLock, CreditCovered, InFlight, SignalMeansCredit
<1>7. CreditSignalled'
  BY DEF TypeOK, LocksHeld, HasTxLock, CreditSignalled
<1> QED
  BY <1>1, <1>2, <1>3, <1>4, <1>5, <1>6, <1>7

\* A writer gives up on a failed socket.
LEMMA WriteFailureIInv ==
  ASSUME NEW t \in Task, IInv, WriteFailure(t)
  PROVE  IInv'
<1> USE ProcFacts, ReserveFacts DEF IInv, WriteFailure, Return, Goto, flow, locks, nwp
<1>1. TypeOK'
  BY DEF TypeOK, Label
<1>2. LocksHeld'
  BY DEF TypeOK, LocksHeld, HasTxLock
<1>3. CreditKept'
  BY DEF TypeOK, LocksHeld, HasTxLock, CreditKept, CreditCovered, InFlight, SignalMeansCredit
<1>4. CreditCovered'
  BY DEF TypeOK, LocksHeld, CreditCovered, InFlight
<1>5. SendersLeaveReserve'
  BY DEF TypeOK, LocksHeld, CreditKept, SendersLeaveReserve
<1>6. SignalMeansCredit'
  BY DEF TypeOK, LocksHeld, HasTxLock, CreditCovered, InFlight, SignalMeansCredit
<1>7. CreditSignalled'
  BY DEF TypeOK, LocksHeld, HasTxLock, CreditSignalled
<1> QED
  BY <1>1, <1>2, <1>3, <1>4, <1>5, <1>6, <1>7

\* The credit is tested under TxLockObj.
LEMMA TestCreditIInv ==
  ASSUME NEW t \in Task, IInv, TestCredit(t)
  PROVE  IInv'
<1> USE ProcFacts, ReserveFacts DEF IInv, TestCredit, Granted, Goto, flow, locks, nwp
<1>1. TypeOK'
  BY DEF TypeOK, Label
<1>2. LocksHeld'
  BY DEF TypeOK, LocksHeld, HasTxLock
<1>3. CreditKept'
  BY DEF TypeOK, LocksHeld, HasTxLock, CreditKept, CreditCovered, InFlight, SignalMeansCredit
<1>4. CreditCovered'
  BY DEF TypeOK, LocksHeld, CreditCovered, InFlight
<1>5. SendersLeaveReserve'
  BY DEF TypeOK, LocksHeld, CreditKept, SendersLeaveReserve
<1>6. SignalMeansCredit'
  BY DEF TypeOK, LocksHeld, HasTxLock, CreditCovered, InFlight, SignalMeansCredit
<1>7. CreditSignalled'
  BY DEF TypeOK, LocksHeld, HasTxLock, CreditSignalled
<1> QED
  BY <1>1, <1>2, <1>3, <1>4, <1>5, <1>6, <1>7

\* A non-blocking writer gives up instead of sleeping.
LEMMA WriteNonBlockingIInv ==
  ASSUME NEW t \in Task, IInv, WriteNonBlocking(t)
  PROVE  IInv'
<1> USE ProcFacts, ReserveFacts DEF IInv, WriteNonBlocking, Return, Goto, flow, locks, nwp
<1>1. TypeOK'
  BY DEF TypeOK, Label
<1>2. LocksHeld'
  BY DEF TypeOK, LocksHeld, HasTxLock
<1>3. CreditKept'
  BY DEF TypeOK, LocksHeld, HasTxLock, CreditKept, CreditCovered, InFlight, SignalMeansCredit
<1>4. CreditCovered'
  BY DEF TypeOK, LocksHeld, CreditCovered, InFlight
<1>5. SendersLeaveReserve'
  BY DEF TypeOK, LocksHeld, CreditKept, SendersLeaveReserve
<1>6. SignalMeansCredit'
  BY DEF TypeOK, LocksHeld, HasTxLock, CreditCovered, InFlight, SignalMeansCredit
<1>7. CreditSignalled'
  BY DEF TypeOK, LocksHeld, HasTxLock, CreditSignalled
<1> QED
  BY <1>1, <1>2, <1>3, <1>4, <1>5, <1>6, <1>7

\* The sleep ends; for a reader the signal means credit.
LEMMA WokenByCreditIInv ==
  ASSUME NEW t \in Task, IInv, WokenByCredit(t)
  PROVE  IInv'
<1> USE ProcFacts, ReserveFacts DEF IInv, WokenByCredit, Granted, Goto, flow, locks, nwp
<1>1. TypeOK'
  BY DEF TypeOK, Label
<1>2. LocksHeld'
  BY DEF TypeOK, LocksHeld, HasTxLock
<1>3. CreditKept'
  BY DEF TypeOK, LocksHeld, HasTxLock, CreditKept, CreditCovered, InFlight, SignalMeansCredit
<1>4. CreditCovered'
  BY DEF TypeOK, LocksHeld, CreditCovered, InFlight
<1>5. SendersLeaveReserve'
  BY DEF TypeOK, LocksHeld, CreditKept, SendersLeaveReserve
<1>6. SignalMeansCredit'
  BY DEF TypeOK, LocksHeld, HasTxLock, CreditCovered, InFlight, SignalMeansCredit
<1>7. CreditSignalled'
  BY DEF TypeOK, LocksHeld, HasTxLock, CreditSignalled
<1> QED
  BY <1>1, <1>2, <1>3, <1>4, <1>5, <1>6, <1>7

\* A writer tests again and starts over if there is too little.
LEMMA WriteRetestIInv ==
  ASSUME NEW t \in Task, IInv, WriteRetest(t)
  PROVE  IInv'
<1> USE ProcFacts, ReserveFacts DEF IInv, WriteRetest, Goto, flow, locks, nwp
<1>1. TypeOK'
  BY DEF TypeOK, Label
<1>2. LocksHeld'
  BY DEF TypeOK, LocksHeld, HasTxLock
<1>3. CreditKept'
  BY DEF TypeOK, LocksHeld, HasTxLock, CreditKept, CreditCovered, InFlight, SignalMeansCredit
<1>4. CreditCovered'
  BY DEF TypeOK, LocksHeld, CreditCovered, InFlight
<1>5. SendersLeaveReserve'
  BY DEF TypeOK, LocksHeld, CreditKept, SendersLeaveReserve
<1>6. SignalMeansCredit'
  BY DEF TypeOK, LocksHeld, HasTxLock, CreditCovered, InFlight, SignalMeansCredit
<1>7. CreditSignalled'
  BY DEF TypeOK, LocksHeld, HasTxLock, CreditSignalled
<1> QED
  BY <1>1, <1>2, <1>3, <1>4, <1>5, <1>6, <1>7

\* GlobalLockObj is taken with the credit still at hand.
LEMMA TakeGlobalLockIInv ==
  ASSUME NEW t \in Task, IInv, TakeGlobalLock(t)
  PROVE  IInv'
<1> USE ProcFacts, ReserveFacts DEF IInv, TakeGlobalLock, Goto, flow, locks, nwp
<1>1. TypeOK'
  BY DEF TypeOK, Label
<1>2. LocksHeld'
  BY DEF TypeOK, LocksHeld, HasTxLock
<1>3. CreditKept'
  BY DEF TypeOK, LocksHeld, HasTxLock, CreditKept, CreditCovered, InFlight, SignalMeansCredit
<1>4. CreditCovered'
  BY DEF TypeOK, LocksHeld, CreditCovered, InFlight
<1>5. SendersLeaveReserve'
  BY DEF TypeOK, LocksHeld, CreditKept, SendersLeaveReserve
<1>6. SignalMeansCredit'
  BY DEF TypeOK, LocksHeld, HasTxLock, CreditCovered, InFlight, SignalMeansCredit
<1>7. CreditSignalled'
  BY DEF TypeOK, LocksHeld, HasTxLock, CreditSignalled
<1> QED
  BY <1>1, <1>2, <1>3, <1>4, <1>5, <1>6, <1>7

\* The credit is taken by the holder of both locks.
LEMMA TakeCreditIInv ==
  ASSUME NEW t \in Task, IInv, TakeCredit(t)
  PROVE  IInv'
<1> USE ProcFacts, ReserveFacts DEF IInv, TakeCredit, Goto, flow, locks, nwp
<1>1. TypeOK'
  BY DEF TypeOK, Label
<1>2. LocksHeld'
  BY DEF TypeOK, LocksHeld, HasTxLock
<1>3. CreditKept'
  BY DEF TypeOK, LocksHeld, HasTxLock, CreditKept, CreditCovered, InFlight, SignalMeansCredit
<1>4. CreditCovered'
  BY DEF TypeOK, LocksHeld, CreditCovered, InFlight
<1>5. SendersLeaveReserve'
  BY DEF TypeOK, LocksHeld, CreditKept, SendersLeaveReserve
<1>6. SignalMeansCredit'
  BY DEF TypeOK, LocksHeld, HasTxLock, CreditCovered, InFlight, SignalMeansCredit
<1>7. CreditSignalled'
  BY DEF TypeOK, LocksHeld, HasTxLock, CreditSignalled
<1> QED
  BY <1>1, <1>2, <1>3, <1>4, <1>5, <1>6, <1>7

\* The NWP gives a buffer to the message.
LEMMA SendMessageIInv ==
  ASSUME NEW t \in Task, IInv, SendMessage(t)
  PROVE  IInv'
<1> USE ProcFacts, ReserveFacts DEF IInv, SendMessage, Return, Goto, flow, locks, nwp
<1>1. TypeOK'
  BY DEF TypeOK, Label, LocksHeld, CreditCovered, InFlight
<1>2. LocksHeld'
  BY DEF TypeOK, LocksHeld, HasTxLock
<1>3. CreditKept'
  BY DEF TypeOK, LocksHeld, HasTxLock, CreditKept, CreditCovered, InFlight, SignalMeansCredit
<1>4. CreditCovered'
  BY DEF TypeOK, LocksHeld, CreditCovered, InFlight
<1>5. SendersLeaveReserve'
  BY DEF TypeOK, LocksHeld, CreditKept, SendersLeaveReserve
<1>6. SignalMeansCredit'
  BY DEF TypeOK, LocksHeld, HasTxLock, CreditCovered, InFlight, SignalMeansCredit
<1>7. CreditSignalled'
  BY DEF TypeOK, LocksHeld, HasTxLock, CreditSignalled
<1> QED
  BY <1>1, <1>2, <1>3, <1>4, <1>5, <1>6, <1>7

\* The reading context takes GlobalLockObj.
LEMMA RxLockIInv ==
  ASSUME IInv, RxLock
  PROVE  IInv'
<1> USE ProcFacts, ReserveFacts DEF IInv, RxLock, Goto, flow, locks, nwp
<1>1. TypeOK'
  BY DEF TypeOK, Label
<1>2. LocksHeld'
  BY DEF TypeOK, LocksHeld, HasTxLock
<1>3. CreditKept'
  BY DEF TypeOK, LocksHeld, HasTxLock, CreditKept, CreditCovered, InFlight, SignalMeansCredit
<1>4. CreditCovered'
  BY DEF TypeOK, LocksHeld, CreditCovered, InFlight
<1>5. SendersLeaveReserve'
  BY DEF TypeOK, LocksHeld, CreditKept, SendersLeaveReserve
<1>6. SignalMeansCredit'
  BY DEF TypeOK, LocksHeld, HasTxLock, CreditCovered, InFlight, SignalMeansCredit
<1>7. CreditSignalled'
  BY DEF TypeOK, LocksHeld, HasTxLock, CreditSignalled
<1> QED
  BY <1>1, <1>2, <1>3, <1>4, <1>5, <1>6, <1>7

\* The header can only raise TxPoolCnt: nothing is in flight.
LEMMA RxHeaderIInv ==
  ASSUME IInv, RxHeader
  PROVE  IInv'
<1> USE ProcFacts, ReserveFacts DEF IInv, RxHeader, Goto, flow, locks, nwp
<1>1. TypeOK'
  BY DEF TypeOK, Label
<1>2. LocksHeld'
  BY DEF TypeOK, LocksHeld, HasTxLock
<1>3. CreditKept'
  BY DEF TypeOK, LocksHeld, HasTxLock, CreditKept, CreditCovered, InFlight, SignalMeansCredit
<1>4. CreditCovered'
  BY DEF TypeOK, LocksHeld, CreditCovered, InFlight
<1>5. SendersLeaveReserve'
  BY DEF TypeOK, LocksHeld, CreditKept, SendersLeaveReserve
<1>6. SignalMeansCredit'
  BY DEF TypeOK, LocksHeld, HasTxLock, CreditCovered, InFlight, SignalMeansCredit
<1>7. CreditSignalled'
  BY DEF TypeOK, LocksHeld, HasTxLock, CreditSignalled
<1> QED
  BY <1>1, <1>2, <1>3, <1>4, <1>5, <1>6, <1>7

\* The sleeper is signalled.
LEMMA RxSignalIInv ==
  ASSUME IInv, RxSignal
  PROVE  IInv'
<1> USE ProcFacts, ReserveFacts DEF IInv, RxSignal, Goto, flow, locks, nwp
<1>1. TypeOK'
  BY DEF TypeOK, Label
<1>2. LocksHeld'
  BY DEF TypeOK, LocksHeld, HasTxLock
<1>3. CreditKept'
  BY DEF TypeOK, LocksHeld, HasTxLock, CreditKept, CreditCovered, InFlight, SignalMeansCredit
<1>4. CreditCovered'
  BY DEF TypeOK, LocksHeld, CreditCovered, InFlight
<1>5. SendersLeaveReserve'
  BY DEF TypeOK, LocksHeld, CreditKept, SendersLeaveReserve
<1>6. SignalMeansCredit'
  BY DEF TypeOK, LocksHeld, HasTxLock, CreditCovered, InFlight, SignalMeansCredit
<1>7. CreditSignalled'
  <2>1. TxPoolCnt > FLOW_CONT_MIN => TxSyncObj'
    BY Zenon
  <2> QED
    BY <2>1 DEF TypeOK, LocksHeld, HasTxLock, CreditSignalled
<1> QED
  BY <1>1, <1>2, <1>3, <1>4, <1>5, <1>6, <1>7

\* The reading context releases GlobalLockObj.
LEMMA RxUnlockIInv ==
  ASSUME IInv, RxUnlock
  PROVE  IInv'
<1> USE ProcFacts, ReserveFacts DEF IInv, RxUnlock, Goto, flow, locks, nwp
<1>1. TypeOK'
  BY DEF TypeOK, Label
<1>2. LocksHeld'
  BY DEF TypeOK, LocksHeld, HasTxLock
<1>3. CreditKept'
  BY DEF TypeOK, LocksHeld, HasTxLock, CreditKept, CreditCovered, InFlight, SignalMeansCredit
<1>4. CreditCovered'
  BY DEF TypeOK, LocksHeld, CreditCovered, InFlight
<1>5. SendersLeaveReserve'
  BY DEF TypeOK, LocksHeld, CreditKept, SendersLeaveReserve
<1>6. SignalMeansCredit'
  BY DEF TypeOK, LocksHeld, HasTxLock, CreditCovered, InFlight, SignalMeansCredit
<1>7. CreditSignalled'
  BY DEF TypeOK, LocksHeld, HasTxLock, CreditSignalled
<1> QED
  BY <1>1, <1>2, <1>3, <1>4, <1>5, <1>6, <1>7

\* The NWP frees a buffer.
LEMMA NwpFreeIInv ==
  ASSUME IInv, NwpFree
  PROVE  IInv'
<1> USE ProcFacts, ReserveFacts DEF IInv, NwpFree, Goto, flow, locks, nwp
<1>1. TypeOK'
  BY DEF TypeOK, Label
<1>2. LocksHeld'
  BY DEF TypeOK, LocksHeld, HasTxLock
<1>3. CreditKept'
  BY DEF TypeOK, LocksHeld, HasTxLock, CreditKept, CreditCovered, InFlight, SignalMeansCredit
<1>4. CreditCovered'
  BY DEF TypeOK, LocksHeld, CreditCovered, InFlight
<1>5. SendersLeaveReserve'
  BY DEF TypeOK, LocksHeld, CreditKept, SendersLeaveReserve
<1>6. SignalMeansCredit'
  BY DEF TypeOK, LocksHeld, HasTxLock, CreditCovered, InFlight, SignalMeansCredit
<1>7. CreditSignalled'
  BY DEF TypeOK, LocksHeld, HasTxLock, CreditSignalled
<1> QED
  BY <1>1, <1>2, <1>3, <1>4, <1>5, <1>6, <1>7

\* The NWP marks a socket.
LEMMA NwpSocketIInv ==
  ASSUME NEW t \in Writer, IInv, NwpSocket(t)
  PROVE  IInv'
<1> USE ProcFacts, ReserveFacts DEF IInv, NwpSocket, Goto, flow, locks, nwp
<1>1. TypeOK'
  BY DEF TypeOK, Label
<1>2. LocksHeld'
  BY DEF TypeOK, LocksHeld, HasTxLock
<1>3. CreditKept'
  BY DEF TypeOK, LocksHeld, HasTxLock, CreditKept, CreditCovered, InFlight, SignalMeansCredit
<1>4. CreditCovered'
  BY DEF TypeOK, LocksHeld, CreditCovered, InFlight
<1>5. SendersLeaveReserve'
  BY DEF TypeOK, LocksHeld, CreditKept, SendersLeaveReserve
<1>6. SignalMeansCredit'
  BY DEF TypeOK, LocksHeld, HasTxLock, CreditCovered, InFlight, SignalMeansCredit
<1>7. CreditSignalled'
  BY DEF TypeOK, LocksHeld, HasTxLock, CreditSignalled
<1> QED
  BY <1>1, <1>2, <1>3, <1>4, <1>5, <1>6, <1>7

\* A step of a data operation preserves the invariant.
LEMMA TaskStepIInv ==
  ASSUME NEW t \in Task, IInv, TaskStep(t)
  PROVE  IInv'
BY TakeTxLockIInv, ClearTxSyncIInv, WriteFailureIInv, TestCreditIInv, WriteNonBlockingIInv,
   WokenByCreditIInv, WriteRetestIInv, TakeGlobalLockIInv, TakeCreditIInv, SendMessageIInv
   DEF TaskStep

\* Every step, and stuttering, preserves the invariant.
LEMMA NextIInv == IInv /\ [Next]_vars => IInv'
<1> SUFFICES ASSUME IInv, [Next]_vars PROVE IInv'
  OBVIOUS
<1>1. CASE \E t \in Task : DataOpStart(t) \/ TaskStep(t)
  BY <1>1, DataOpStartIInv, TaskStepIInv
<1>2. CASE RxStep
  BY <1>2, RxLockIInv, RxHeaderIInv, RxSignalIInv, RxUnlockIInv DEF RxStep
<1>3. CASE NwpFree
  BY <1>3, NwpFreeIInv
<1>4. CASE \E t \in Writer : NwpSocket(t)
  BY <1>4, NwpSocketIInv
<1>5. CASE UNCHANGED vars
  BY <1>5 DEF vars, IInv, TypeOK, LocksHeld, HasTxLock, CreditKept, CreditCovered, InFlight,
              SendersLeaveReserve, SignalMeansCredit, CreditSignalled
<1> QED
  BY <1>1, <1>2, <1>3, <1>4, <1>5 DEF Next

\* The inductive invariant holds in every reachable state.
THEOREM Invariance == Spec => []IInv
BY InitIInv, NextIInv, PTL DEF Spec

\* The driver's counters and locks keep their types.
THEOREM TypeCorrect == Spec => []TypeOK
<1>1. IInv => TypeOK
  BY DEF IInv
<1> QED
  BY Invariance, <1>1, PTL

\* VERIFY_PROTOCOL on TxPoolCnt never fails in _SlDrvDataReadOp and
\* _SlDrvDataWriteOp, although the reader does not test again after its sleep.
THEOREM VerifyNeverFails == Spec => []CreditAtHand
<1>1. IInv => CreditAtHand
  BY DEF IInv, CreditKept, CreditAtHand
<1> QED
  BY Invariance, <1>1, PTL

\* TxPoolCnt never exceeds the buffers the NWP has left.
THEOREM CreditIsReal == Spec => []CreditCovered
<1>1. IInv => CreditCovered
  BY DEF IInv
<1> QED
  BY Invariance, <1>1, PTL

\* _SlDrvDataWriteOp never takes the buffer kept for receive requests.
THEOREM ReserveIsKept == Spec => []SendersLeaveReserve
<1>1. IInv => SendersLeaveReserve
  BY DEF IInv
<1> QED
  BY Invariance, <1>1, PTL

\* Clearing TxSyncObj before the test loses no wake-up.
THEOREM NoWakeUpLost == Spec => []NoLostCredit
<1>1. IInv => NoLostCredit
  BY DEF IInv, CreditSignalled, NoLostCredit
<1> QED
  BY Invariance, <1>1, PTL
=============================================================================
