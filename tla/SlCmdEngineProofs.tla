-------------------------- MODULE SlCmdEngineProofs --------------------------
(***************************************************************************)
(* The safety of SlCmdEngine, proved for any number of tasks, any size of  *)
(* the spawn queue and any width of the counters above 1 bit.  Each action *)
(* has a lemma: it preserves IInv.                                         *)
(***************************************************************************)
EXTENDS SlCmdEngine, TLAPS

\* What SMT has to know of the processes.
LEMMA ProcFacts ==
  /\ Spawn \in Proc /\ Spawn \notin Task /\ None \notin Proc /\ None \notin Task
  /\ Token \notin Proc /\ Token \notin Task /\ Token # None
  /\ \A t \in Task : t \in Proc /\ t # Spawn
  /\ \A w \in Proc : w # Spawn => w \in Task
  /\ QueueSize \in Nat /\ QueueSize > 0 /\ CntMod \in Nat /\ CntMod > 2
  /\ MaxCalls \in Nat /\ MaxEvents \in Nat
BY EngineAssumption DEF Proc

\* A counter that wraps at CntMod > 2 tells apart none, one and two ahead.
LEMMA IncFacts ==
  \A n \in 0 .. CntMod - 1 : /\ Inc(n) \in 0 .. CntMod - 1
                             /\ Inc(n) # n /\ Inc(Inc(n)) # n /\ Inc(Inc(n)) # Inc(n)
BY EngineAssumption DEF Inc

\* What the NWP appends is behind the messages it has to send.
LEMMA AppendFacts ==
  ASSUME NEW q \in Seq(Message), NEW m \in Message
  PROVE  /\ Append(q, m) \in Seq(Message) /\ Append(q, m) # << >>
         /\ Len(q) \in Nat /\ Len(Append(q, m)) = Len(q) + 1
         /\ \A i \in 1 .. Len(q) : Append(q, m)[i] = q[i]
         /\ Append(q, m)[Len(q) + 1] = m
OBVIOUS

\* What is read is the oldest message; the others move up.
LEMMA TailFacts ==
  ASSUME NEW q \in Seq(Message), q # << >>
  PROVE  /\ Tail(q) \in Seq(Message) /\ Head(q) \in Message /\ Head(q) = q[1]
         /\ Len(q) \in Nat /\ Len(q) >= 1 /\ Len(Tail(q)) = Len(q) - 1
         /\ \A i \in 1 .. Len(q) - 1 : Tail(q)[i] = q[i + 1]
OBVIOUS

\* A response whose command waits for it finds that command with the lock.
LEMMA WaiterHasLock ==
  ASSUME LocksHeld, ResponseAwaited
  PROVE  \A t \in Task : Outstanding(t) => GlobalLockObj = t
BY ProcFacts DEF LocksHeld, ResponseAwaited, HandlerLabel

\* _SlDrvDriverCBInit establishes the invariant.
LEMMA InitIInv == Init => IInv
<1> SUFFICES ASSUME Init PROVE IInv
  OBVIOUS
<1> USE ProcFacts DEF Init
<1>1. TypeOK
  <2>1. saved \in [Proc -> [waited : BOOLEAN, pCmdCtrl : Proc \cup {Token, None},
                            class : EventClass \cup {"CMD_RESP_CLASS"}]]
    BY DEF NothingSaved, EventClass
  <2>2. pc \in [Proc -> TaskLabel \cup SpawnLabel]
    BY DEF TaskLabel, SpawnLabel
  <2>3. nwpOut \in Seq(Message) /\ 0 \in 0 .. CntMod - 1 /\ spawnQueue \in 0 .. QueueSize
    OBVIOUS
  <2>4. /\ response \in [Task -> Task \cup {None}]
        /\ calls \in [Task -> 0 .. MaxCalls] /\ events \in 0 .. MaxEvents
    OBVIOUS
  <2> QED
    BY <2>1, <2>2, <2>3, <2>4 DEF TypeOK, EventClass, TaskLabel, SpawnLabel
<1>2. LocksHeld /\ CountsExact
  BY DEF LocksHeld, CountsExact
<1>3. WaitedFollows /\ ParamsKept
  BY DEF WaitedFollows, ParamsKept, NothingSaved
<1>4. OneResponse /\ ResponseAwaited /\ ResponseStored
  BY DEF OneResponse, ResponseAwaited, ResponseStored, Outstanding, Queued
<1>5. NoResponseInSpawnCtx /\ ResponseToIssuer /\ NoOrphanedMessage
  BY DEF NoResponseInSpawnCtx, ResponseToIssuer, NoOrphanedMessage
<1> QED
  BY <1>1, <1>2, <1>3, <1>4, <1>5 DEF IInv

\* The interrupt handler counts the message and gives it a reader.
LEMMA RxIrqHandlerIInv ==
  ASSUME IInv, RxIrqHandler
  PROVE  IInv'
<1> USE ProcFacts DEF IInv, RxIrqHandler, Goto, counts, params, nwp, SpawnReader
<1>1. TypeOK'
  <2>1. RxIrqCnt' \in 0 .. CntMod - 1
    BY IncFacts DEF TypeOK
  <2>2. spawnQueue' \in 0 .. QueueSize
    BY DEF TypeOK
  <2> QED
    BY <2>1, <2>2 DEF TypeOK
<1>2. LocksHeld'
  BY DEF TypeOK, LocksHeld
<1>3. CountsExact'
  BY IncFacts DEF TypeOK, LocksHeld, CountsExact, Pending
<1>4. WaitedFollows'
  BY DEF TypeOK, LocksHeld, WaitedFollows
<1>5. ParamsKept'
  BY DEF TypeOK, LocksHeld, ParamsKept
<1>6. OneResponse'
  BY DEF OneResponse, Queued
<1>7. ResponseAwaited'
  <2>1. \A u \in Task : Outstanding(u)' => Outstanding(u)
    BY DEF Outstanding, Queued
  <2> QED
    BY <2>1 DEF TypeOK, LocksHeld, ResponseAwaited, HandlerLabel, WaitedFollows
<1>8. ResponseStored'
  BY DEF TypeOK, LocksHeld, ResponseAwaited, ResponseStored, WaitedFollows, ResponseToIssuer
<1>9. NoResponseInSpawnCtx' /\ ResponseToIssuer'
  BY DEF TypeOK, LocksHeld, ResponseStored, NoResponseInSpawnCtx, ResponseToIssuer
<1>10. NoOrphanedMessage'
  BY IncFacts DEF TypeOK, LocksHeld, WaitedFollows, CountsExact, NoOrphanedMessage, HasReader, Pending
<1> QED
  BY <1>1, <1>2, <1>3, <1>4, <1>5, <1>6, <1>7, <1>8, <1>9, <1>10

\* The NWP answers a command.
LEMMA NwpRespondIInv ==
  ASSUME NEW t \in Task, IInv, NwpRespond(t)
  PROVE  IInv'
<1> USE ProcFacts DEF IInv, NwpRespond, Goto, counts, params, nwp
<1>1. TypeOK'
  BY IncFacts, AppendFacts DEF TypeOK, EventClass, TaskLabel, SpawnLabel, HandlerLabel, Message
<1>2. LocksHeld'
  BY DEF TypeOK, LocksHeld
<1>3. CountsExact'
  BY IncFacts, AppendFacts DEF TypeOK, LocksHeld, CountsExact, Pending, Message
<1>4. WaitedFollows'
  BY DEF TypeOK, LocksHeld, WaitedFollows
<1>5. ParamsKept'
  BY DEF TypeOK, LocksHeld, ParamsKept
<1> DEFINE m == [class |-> "CMD_RESP_CLASS", to |-> t]
<1>a. m \in Message
  BY DEF Message
<1>b. /\ Len(nwpOut) \in Nat /\ Len(nwpOut') = Len(nwpOut) + 1
      /\ \A i \in 1 .. Len(nwpOut) : nwpOut'[i] = nwpOut[i]
      /\ nwpOut'[Len(nwpOut) + 1] = m
  BY <1>a, AppendFacts DEF TypeOK
<1>c. Outstanding(t) /\ \A u \in Task : Outstanding(u) => u = t
  BY WaiterHasLock DEF Outstanding
<1>d. \A i \in 1 .. Len(nwpOut) : nwpOut[i].class # "CMD_RESP_CLASS"
  <2> SUFFICES ASSUME NEW i \in 1 .. Len(nwpOut), nwpOut[i].class = "CMD_RESP_CLASS"
               PROVE  FALSE
    OBVIOUS
  <2>1. nwpOut[i] \in Message
    BY DEF TypeOK
  <2>2. nwpOut[i].to \in Task
    BY <2>1 DEF Message, EventClass
  <2>3. Queued(nwpOut[i].to)
    BY DEF Queued
  <2> QED
    BY <2>2, <2>3, <1>c DEF Outstanding, OneResponse
<1>6. OneResponse'
  <2>1. \A u \in nwpIn' : u # t /\ u \in Task
    BY DEF TypeOK
  <2>2. \A u \in nwpIn' : ~Queued(u)'
    BY <1>b, <1>d, <2>1 DEF Queued
  <2> QED
    BY <1>b, <1>d, <2>2 DEF OneResponse
<1>7. ResponseAwaited'
  <2>1. \A u \in Task : Outstanding(u)' => Outstanding(u)
    BY <1>b, <1>c, <1>d DEF Outstanding, Queued
  <2> QED
    BY <2>1 DEF ResponseAwaited
<1>8. ResponseStored'
  BY DEF TypeOK, LocksHeld, ResponseAwaited, ResponseStored, WaitedFollows, ResponseToIssuer
<1>9. NoResponseInSpawnCtx' /\ ResponseToIssuer'
  BY DEF TypeOK, LocksHeld, ResponseStored, NoResponseInSpawnCtx, ResponseToIssuer
<1>10. NoOrphanedMessage'
  BY IncFacts DEF TypeOK, LocksHeld, WaitedFollows, CountsExact, NoOrphanedMessage, HasReader, Pending
<1> QED
  BY <1>1, <1>2, <1>3, <1>4, <1>5, <1>6, <1>7, <1>8, <1>9, <1>10

\* The NWP sends a message that answers no command.
LEMMA NwpEventIInv ==
  ASSUME NEW c \in EventClass, IInv, NwpEvent(c)
  PROVE  IInv'
<1> USE ProcFacts DEF IInv, NwpEvent, Goto, counts, params, nwp
<1>1. TypeOK'
  BY IncFacts, AppendFacts DEF TypeOK, EventClass, TaskLabel, SpawnLabel, HandlerLabel, Message
<1>2. LocksHeld'
  BY DEF TypeOK, LocksHeld
<1>3. CountsExact'
  BY IncFacts, AppendFacts DEF TypeOK, LocksHeld, CountsExact, Pending, Message
<1>4. WaitedFollows'
  BY DEF TypeOK, LocksHeld, WaitedFollows
<1>5. ParamsKept'
  BY DEF TypeOK, LocksHeld, ParamsKept
<1> DEFINE m == [class |-> c, to |-> None]
<1>a. m \in Message /\ m.class # "CMD_RESP_CLASS"
  BY DEF Message, EventClass
<1>b. /\ Len(nwpOut) \in Nat /\ Len(nwpOut') = Len(nwpOut) + 1
      /\ \A i \in 1 .. Len(nwpOut) : nwpOut'[i] = nwpOut[i]
      /\ nwpOut'[Len(nwpOut) + 1] = m
  BY <1>a, AppendFacts DEF TypeOK
<1> HIDE DEF m
<1>c. \A u : Queued(u)' => Queued(u)
  BY <1>a, <1>b DEF Queued
<1>6. OneResponse'
  BY <1>a, <1>b, <1>c DEF OneResponse
<1>7. ResponseAwaited'
  <2>1. \A u \in Task : Outstanding(u)' => Outstanding(u)
    BY <1>c DEF Outstanding
  <2> QED
    BY <2>1 DEF ResponseAwaited
<1>8. ResponseStored'
  BY DEF TypeOK, LocksHeld, ResponseAwaited, ResponseStored, WaitedFollows, ResponseToIssuer
<1>9. NoResponseInSpawnCtx' /\ ResponseToIssuer'
  BY DEF TypeOK, LocksHeld, ResponseStored, NoResponseInSpawnCtx, ResponseToIssuer
<1>10. NoOrphanedMessage'
  BY IncFacts DEF TypeOK, LocksHeld, WaitedFollows, CountsExact, NoOrphanedMessage, HasReader, Pending
<1> QED
  BY <1>1, <1>2, <1>3, <1>4, <1>5, <1>6, <1>7, <1>8, <1>9, <1>10

\* A command takes the lock.
LEMMA CmdLockIInv ==
  ASSUME NEW t \in Task, IInv, CmdLock(t)
  PROVE  IInv'
<1> USE ProcFacts DEF IInv, CmdLock, Goto, counts, params, nwp
<1>1. TypeOK'
  BY IncFacts DEF TypeOK, EventClass, TaskLabel, SpawnLabel, HandlerLabel
<1>2. LocksHeld'
  BY DEF TypeOK, LocksHeld
<1>3. CountsExact'
  BY IncFacts DEF TypeOK, LocksHeld, CountsExact, Pending
<1>4. WaitedFollows'
  BY DEF TypeOK, LocksHeld, WaitedFollows
<1>5. ParamsKept'
  BY DEF TypeOK, LocksHeld, ParamsKept
<1>6. OneResponse'
  BY DEF OneResponse, Queued
<1>7. ResponseAwaited'
  <2>1. \A u \in Task : Outstanding(u)' => Outstanding(u)
    BY DEF Outstanding, Queued
  <2> QED
    BY <2>1 DEF TypeOK, LocksHeld, ResponseAwaited, HandlerLabel, WaitedFollows
<1>8. ResponseStored'
  BY DEF TypeOK, LocksHeld, ResponseAwaited, ResponseStored, WaitedFollows, ResponseToIssuer
<1>9. NoResponseInSpawnCtx' /\ ResponseToIssuer'
  BY DEF TypeOK, LocksHeld, ResponseStored, NoResponseInSpawnCtx, ResponseToIssuer
<1>10. NoOrphanedMessage'
  BY IncFacts DEF TypeOK, LocksHeld, WaitedFollows, CountsExact, NoOrphanedMessage, HasReader, Pending
<1> QED
  BY <1>1, <1>2, <1>3, <1>4, <1>5, <1>6, <1>7, <1>8, <1>9, <1>10

\* A command is written.
LEMMA CmdWriteIInv ==
  ASSUME NEW t \in Task, IInv, CmdWrite(t)
  PROVE  IInv'
<1> USE ProcFacts DEF IInv, CmdWrite, Goto, counts, params, nwp
<1>1. TypeOK'
  BY IncFacts DEF TypeOK, EventClass, TaskLabel, SpawnLabel, HandlerLabel
<1>2. LocksHeld'
  BY DEF TypeOK, LocksHeld
<1>3. CountsExact'
  BY IncFacts DEF TypeOK, LocksHeld, CountsExact, Pending
<1>4. WaitedFollows'
  BY DEF TypeOK, LocksHeld, WaitedFollows
<1>5. ParamsKept'
  BY DEF TypeOK, LocksHeld, ParamsKept
<1>6. OneResponse'
  <2>1. ~Queued(t)
    BY DEF ResponseAwaited, Outstanding, HandlerLabel
  <2> QED
    BY <2>1 DEF OneResponse, Queued
<1>7. ResponseAwaited'
  <2>1. \A u \in Task : Outstanding(u)' => Outstanding(u) \/ u = t
    BY DEF Outstanding, Queued
  <2> QED
    BY <2>1 DEF TypeOK, LocksHeld, ResponseAwaited, HandlerLabel, WaitedFollows
<1>8. ResponseStored'
  BY DEF TypeOK, LocksHeld, ResponseAwaited, ResponseStored, WaitedFollows, ResponseToIssuer
<1>9. NoResponseInSpawnCtx' /\ ResponseToIssuer'
  BY DEF TypeOK, LocksHeld, ResponseStored, NoResponseInSpawnCtx, ResponseToIssuer
<1>10. NoOrphanedMessage'
  BY IncFacts DEF TypeOK, LocksHeld, WaitedFollows, CountsExact, NoOrphanedMessage, HasReader, Pending
<1> QED
  BY <1>1, <1>2, <1>3, <1>4, <1>5, <1>6, <1>7, <1>8, <1>9, <1>10

\* A data operation uses the parameters while nobody holds the lock.
LEMMA DataOpIInv ==
  ASSUME NEW t \in Task, IInv, DataOp(t)
  PROVE  IInv'
<1> USE ProcFacts DEF IInv, DataOp, Goto, counts, params, nwp
<1>1. TypeOK'
  BY IncFacts DEF TypeOK, EventClass, TaskLabel, SpawnLabel, HandlerLabel
<1>2. LocksHeld'
  BY DEF TypeOK, LocksHeld
<1>3. CountsExact'
  BY IncFacts DEF TypeOK, LocksHeld, CountsExact, Pending
<1>4. WaitedFollows'
  BY DEF TypeOK, LocksHeld, WaitedFollows
<1>5. ParamsKept'
  BY DEF TypeOK, LocksHeld, ParamsKept
<1>6. OneResponse'
  BY DEF OneResponse, Queued
<1>7. ResponseAwaited'
  <2>1. \A u \in Task : Outstanding(u)' => Outstanding(u)
    BY DEF Outstanding, Queued
  <2> QED
    BY <2>1 DEF TypeOK, LocksHeld, ResponseAwaited, HandlerLabel, WaitedFollows
<1>8. ResponseStored'
  BY DEF TypeOK, LocksHeld, ResponseAwaited, ResponseStored, WaitedFollows, ResponseToIssuer
<1>9. NoResponseInSpawnCtx' /\ ResponseToIssuer'
  BY DEF TypeOK, LocksHeld, ResponseStored, NoResponseInSpawnCtx, ResponseToIssuer
<1>10. NoOrphanedMessage'
  BY IncFacts DEF TypeOK, LocksHeld, WaitedFollows, CountsExact, NoOrphanedMessage, HasReader, Pending
<1> QED
  BY <1>1, <1>2, <1>3, <1>4, <1>5, <1>6, <1>7, <1>8, <1>9, <1>10

\* A command reads a message.
LEMMA CmdCtxReadIInv ==
  ASSUME NEW t \in Task, IInv, CmdCtxRead(t)
  PROVE  IInv'
<1> USE ProcFacts DEF IInv, CmdCtxRead, Goto, counts, params, nwp, MsgRead
<1>1. TypeOK'
  BY IncFacts, TailFacts DEF TypeOK, EventClass, TaskLabel, SpawnLabel, HandlerLabel, Message
<1>2. LocksHeld'
  BY DEF TypeOK, LocksHeld
<1>3. CountsExact'
  BY IncFacts DEF TypeOK, LocksHeld, CountsExact, Pending
<1>4. WaitedFollows'
  BY DEF TypeOK, LocksHeld, WaitedFollows
<1>5. ParamsKept'
  BY DEF TypeOK, LocksHeld, ParamsKept
<1> DEFINE m == Head(nwpOut)
<1>a. /\ m \in Message /\ m = nwpOut[1]
      /\ Len(nwpOut) \in Nat /\ Len(nwpOut) >= 1 /\ Len(nwpOut') = Len(nwpOut) - 1
      /\ \A i \in 1 .. Len(nwpOut) - 1 : nwpOut'[i] = nwpOut[i + 1]
  BY TailFacts DEF TypeOK
<1>b. \A u : Queued(u)' => Queued(u)
  BY <1>a DEF Queued
<1>c. m.class = "CMD_RESP_CLASS" => m.to \in Task /\ Queued(m.to) /\ GlobalLockObj = m.to
  <2>1. m.class = "CMD_RESP_CLASS" => m.to \in Task /\ Queued(m.to)
    BY <1>a DEF Message, EventClass, Queued
  <2> QED
    BY <2>1, WaiterHasLock DEF Outstanding
<1>d. m.class = "CMD_RESP_CLASS" => m.to = t /\ \A u \in Task : ~Outstanding(u)'
  <2> SUFFICES ASSUME m.class = "CMD_RESP_CLASS"
               PROVE  m.to = t /\ \A u \in Task : ~Outstanding(u)'
    OBVIOUS
  <2>1. m.to = t
    BY <1>c DEF LocksHeld
  <2>2. \A u : ~Queued(u)'
    BY <1>a DEF OneResponse, Queued
  <2>3. \A u \in nwpIn : FALSE
    BY <1>c, <2>1, WaiterHasLock DEF OneResponse, Outstanding, TypeOK
  <2> QED
    BY <2>1, <2>2, <2>3 DEF Outstanding
<1> HIDE DEF m
<1>6. OneResponse'
  BY <1>a, <1>b DEF OneResponse
<1>7. ResponseAwaited'
  <2>1. \A u \in Task : Outstanding(u)' => Outstanding(u) /\ u = t
    BY <1>b, WaiterHasLock DEF Outstanding, LocksHeld
  <2>2. RxMsgClass' = m.class
    BY DEF m
  <2> QED
    BY <1>d, <2>1, <2>2 DEF ResponseAwaited, TypeOK
<1>e. /\ RxMsgClass' = m.class /\ pCmdCtrl = t
      /\ response' = IF m.class = "CMD_RESP_CLASS" THEN [response EXCEPT ![t] = t] ELSE response
  BY <1>d DEF m, ParamsKept
<1>8. ResponseStored'
  <2>1. \A w \in Proc : w # t => pc'[w] \in {"idle", "check", "lock"}
    BY DEF TypeOK, LocksHeld
  <2>2. pc'[t] = "count" /\ (RxMsgClass' = "CMD_RESP_CLASS" => response'[t] = t)
    BY <1>e DEF TypeOK
  <2> QED
    BY <2>1, <2>2 DEF ResponseStored
<1>9. NoResponseInSpawnCtx' /\ ResponseToIssuer'
  BY <1>d, <1>e DEF TypeOK, LocksHeld, ResponseStored, NoResponseInSpawnCtx, ResponseToIssuer
<1>10. NoOrphanedMessage'
  BY IncFacts DEF TypeOK, LocksHeld, WaitedFollows, CountsExact, NoOrphanedMessage, HasReader, Pending
<1> QED
  BY <1>1, <1>2, <1>3, <1>4, <1>5, <1>6, <1>7, <1>8, <1>9, <1>10

\* A command counts the message it read.
LEMMA CmdCtxCountIInv ==
  ASSUME NEW t \in Task, IInv, CmdCtxCount(t)
  PROVE  IInv'
<1> USE ProcFacts DEF IInv, CmdCtxCount, Goto, counts, params, nwp, CountRead
<1>1. TypeOK'
  BY IncFacts DEF TypeOK, EventClass, TaskLabel, SpawnLabel, HandlerLabel
<1>2. LocksHeld'
  BY DEF TypeOK, LocksHeld
<1>3. CountsExact'
  BY IncFacts DEF TypeOK, LocksHeld, CountsExact, Pending
<1>4. WaitedFollows'
  BY DEF TypeOK, LocksHeld, WaitedFollows
<1>5. ParamsKept'
  BY DEF TypeOK, LocksHeld, ParamsKept
<1>6. OneResponse'
  BY DEF OneResponse, Queued
<1>7. ResponseAwaited'
  <2>1. \A u \in Task : Outstanding(u)' => Outstanding(u)
    BY DEF Outstanding, Queued
  <2> QED
    BY <2>1 DEF TypeOK, LocksHeld, ResponseAwaited, HandlerLabel, WaitedFollows
<1>8. ResponseStored'
  BY DEF TypeOK, LocksHeld, ResponseAwaited, ResponseStored, WaitedFollows, ResponseToIssuer
<1>9. NoResponseInSpawnCtx' /\ ResponseToIssuer'
  BY DEF TypeOK, LocksHeld, ResponseStored, NoResponseInSpawnCtx, ResponseToIssuer
<1>10. NoOrphanedMessage'
  BY IncFacts DEF TypeOK, LocksHeld, WaitedFollows, CountsExact, NoOrphanedMessage, HasReader, Pending
<1> QED
  BY <1>1, <1>2, <1>3, <1>4, <1>5, <1>6, <1>7, <1>8, <1>9, <1>10

\* The response has come.
LEMMA CmdCtxRespondedIInv ==
  ASSUME NEW t \in Task, IInv, CmdCtxResponded(t)
  PROVE  IInv'
<1> USE ProcFacts DEF IInv, CmdCtxResponded, Goto, counts, params, nwp
<1>1. TypeOK'
  BY IncFacts DEF TypeOK, EventClass, TaskLabel, SpawnLabel, HandlerLabel
<1>2. LocksHeld'
  BY DEF TypeOK, LocksHeld
<1>3. CountsExact'
  BY IncFacts DEF TypeOK, LocksHeld, CountsExact, Pending
<1>4. WaitedFollows'
  BY DEF TypeOK, LocksHeld, WaitedFollows
<1>5. ParamsKept'
  BY DEF TypeOK, LocksHeld, ParamsKept
<1>6. OneResponse'
  BY DEF OneResponse, Queued
<1>7. ResponseAwaited'
  <2>1. \A u \in Task : Outstanding(u)' => Outstanding(u)
    BY DEF Outstanding, Queued
  <2> QED
    BY <2>1 DEF TypeOK, LocksHeld, ResponseAwaited, HandlerLabel, WaitedFollows
<1>8. ResponseStored'
  BY DEF TypeOK, LocksHeld, ResponseAwaited, ResponseStored, WaitedFollows, ResponseToIssuer
<1>9. NoResponseInSpawnCtx' /\ ResponseToIssuer'
  BY DEF TypeOK, LocksHeld, ResponseStored, NoResponseInSpawnCtx, ResponseToIssuer
<1>10. NoOrphanedMessage'
  BY IncFacts DEF TypeOK, LocksHeld, WaitedFollows, CountsExact, NoOrphanedMessage, HasReader, Pending
<1> QED
  BY <1>1, <1>2, <1>3, <1>4, <1>5, <1>6, <1>7, <1>8, <1>9, <1>10

\* The old signal is cleared.
LEMMA CmdCtxClearIInv ==
  ASSUME NEW t \in Task, IInv, CmdCtxClear(t)
  PROVE  IInv'
<1> USE ProcFacts DEF IInv, CmdCtxClear, Goto, counts, params, nwp
<1>1. TypeOK'
  BY IncFacts DEF TypeOK, EventClass, TaskLabel, SpawnLabel, HandlerLabel
<1>2. LocksHeld'
  BY DEF TypeOK, LocksHeld
<1>3. CountsExact'
  BY IncFacts DEF TypeOK, LocksHeld, CountsExact, Pending
<1>4. WaitedFollows'
  BY DEF TypeOK, LocksHeld, WaitedFollows
<1>5. ParamsKept'
  BY DEF TypeOK, LocksHeld, ParamsKept
<1>6. OneResponse'
  BY DEF OneResponse, Queued
<1>7. ResponseAwaited'
  <2>1. \A u \in Task : Outstanding(u)' => Outstanding(u)
    BY DEF Outstanding, Queued
  <2> QED
    BY <2>1 DEF TypeOK, LocksHeld, ResponseAwaited, HandlerLabel, WaitedFollows
<1>8. ResponseStored'
  BY DEF TypeOK, LocksHeld, ResponseAwaited, ResponseStored, WaitedFollows, ResponseToIssuer
<1>9. NoResponseInSpawnCtx' /\ ResponseToIssuer'
  BY DEF TypeOK, LocksHeld, ResponseStored, NoResponseInSpawnCtx, ResponseToIssuer
<1>10. NoOrphanedMessage'
  BY IncFacts DEF TypeOK, LocksHeld, WaitedFollows, CountsExact, NoOrphanedMessage, HasReader, Pending
<1> QED
  BY <1>1, <1>2, <1>3, <1>4, <1>5, <1>6, <1>7, <1>8, <1>9, <1>10

\* Nothing is pending: the command goes to sleep.
LEMMA CmdCtxSleepIInv ==
  ASSUME NEW t \in Task, IInv, CmdCtxSleep(t)
  PROVE  IInv'
<1> USE ProcFacts DEF IInv, CmdCtxSleep, Goto, counts, params, nwp
<1>1. TypeOK'
  BY IncFacts DEF TypeOK, EventClass, TaskLabel, SpawnLabel, HandlerLabel
<1>2. LocksHeld'
  BY DEF TypeOK, LocksHeld
<1>3. CountsExact'
  BY IncFacts DEF TypeOK, LocksHeld, CountsExact, Pending
<1>4. WaitedFollows'
  BY DEF TypeOK, LocksHeld, WaitedFollows
<1>5. ParamsKept'
  BY DEF TypeOK, LocksHeld, ParamsKept
<1>6. OneResponse'
  BY DEF OneResponse, Queued
<1>7. ResponseAwaited'
  <2>1. \A u \in Task : Outstanding(u)' => Outstanding(u)
    BY DEF Outstanding, Queued
  <2> QED
    BY <2>1 DEF TypeOK, LocksHeld, ResponseAwaited, HandlerLabel, WaitedFollows
<1>8. ResponseStored'
  BY DEF TypeOK, LocksHeld, ResponseAwaited, ResponseStored, WaitedFollows, ResponseToIssuer
<1>9. NoResponseInSpawnCtx' /\ ResponseToIssuer'
  BY DEF TypeOK, LocksHeld, ResponseStored, NoResponseInSpawnCtx, ResponseToIssuer
<1>10. NoOrphanedMessage'
  BY IncFacts DEF TypeOK, LocksHeld, WaitedFollows, CountsExact, NoOrphanedMessage, HasReader, Pending
<1> QED
  BY <1>1, <1>2, <1>3, <1>4, <1>5, <1>6, <1>7, <1>8, <1>9, <1>10

\* The command is woken.
LEMMA CmdCtxWokenIInv ==
  ASSUME NEW t \in Task, IInv, CmdCtxWoken(t)
  PROVE  IInv'
<1> USE ProcFacts DEF IInv, CmdCtxWoken, Goto, counts, params, nwp
<1>1. TypeOK'
  BY IncFacts DEF TypeOK, EventClass, TaskLabel, SpawnLabel, HandlerLabel
<1>2. LocksHeld'
  BY DEF TypeOK, LocksHeld
<1>3. CountsExact'
  BY IncFacts DEF TypeOK, LocksHeld, CountsExact, Pending
<1>4. WaitedFollows'
  BY DEF TypeOK, LocksHeld, WaitedFollows
<1>5. ParamsKept'
  BY DEF TypeOK, LocksHeld, ParamsKept
<1>6. OneResponse'
  BY DEF OneResponse, Queued
<1>7. ResponseAwaited'
  <2>1. \A u \in Task : Outstanding(u)' => Outstanding(u)
    BY DEF Outstanding, Queued
  <2> QED
    BY <2>1 DEF TypeOK, LocksHeld, ResponseAwaited, HandlerLabel, WaitedFollows
<1>8. ResponseStored'
  BY DEF TypeOK, LocksHeld, ResponseAwaited, ResponseStored, WaitedFollows, ResponseToIssuer
<1>9. NoResponseInSpawnCtx' /\ ResponseToIssuer'
  BY DEF TypeOK, LocksHeld, ResponseStored, NoResponseInSpawnCtx, ResponseToIssuer
<1>10. NoOrphanedMessage'
  BY IncFacts DEF TypeOK, LocksHeld, WaitedFollows, CountsExact, NoOrphanedMessage, HasReader, Pending
<1> QED
  BY <1>1, <1>2, <1>3, <1>4, <1>5, <1>6, <1>7, <1>8, <1>9, <1>10

\* The command gives the lock back.
LEMMA CmdCtxUnlockIInv ==
  ASSUME NEW t \in Task, IInv, CmdCtxUnlock(t)
  PROVE  IInv'
<1> USE ProcFacts DEF IInv, CmdCtxUnlock, Goto, counts, params, nwp
<1>1. TypeOK'
  BY IncFacts DEF TypeOK, EventClass, TaskLabel, SpawnLabel, HandlerLabel
<1>2. LocksHeld'
  BY DEF TypeOK, LocksHeld
<1>3. CountsExact'
  BY IncFacts DEF TypeOK, LocksHeld, CountsExact, Pending
<1>4. WaitedFollows'
  BY DEF TypeOK, LocksHeld, WaitedFollows
<1>5. ParamsKept'
  BY DEF TypeOK, LocksHeld, ParamsKept
<1>6. OneResponse'
  BY DEF OneResponse, Queued
<1>7. ResponseAwaited'
  <2>1. \A u \in Task : Outstanding(u)' => Outstanding(u)
    BY DEF Outstanding, Queued
  <2> QED
    BY <2>1 DEF TypeOK, LocksHeld, ResponseAwaited, HandlerLabel, WaitedFollows
<1>8. ResponseStored'
  BY DEF TypeOK, LocksHeld, ResponseAwaited, ResponseStored, WaitedFollows, ResponseToIssuer
<1>9. NoResponseInSpawnCtx' /\ ResponseToIssuer'
  BY DEF TypeOK, LocksHeld, ResponseStored, NoResponseInSpawnCtx, ResponseToIssuer
<1>10. NoOrphanedMessage'
  BY IncFacts DEF TypeOK, LocksHeld, WaitedFollows, CountsExact, NoOrphanedMessage, HasReader, Pending
<1> QED
  BY <1>1, <1>2, <1>3, <1>4, <1>5, <1>6, <1>7, <1>8, <1>9, <1>10

\* What is still pending gets a reader.
LEMMA CmdCtxCheckIInv ==
  ASSUME NEW t \in Task, IInv, CmdCtxCheck(t)
  PROVE  IInv'
<1> USE ProcFacts DEF IInv, CmdCtxCheck, Goto, counts, params, nwp, SpawnReader
<1>1. TypeOK'
  BY IncFacts DEF TypeOK, EventClass, TaskLabel, SpawnLabel, HandlerLabel
<1>2. LocksHeld'
  BY DEF TypeOK, LocksHeld
<1>3. CountsExact'
  BY IncFacts DEF TypeOK, LocksHeld, CountsExact, Pending
<1>4. WaitedFollows'
  BY DEF TypeOK, LocksHeld, WaitedFollows
<1>5. ParamsKept'
  BY DEF TypeOK, LocksHeld, ParamsKept
<1>6. OneResponse'
  BY DEF OneResponse, Queued
<1>7. ResponseAwaited'
  <2>1. \A u \in Task : Outstanding(u)' => Outstanding(u)
    BY DEF Outstanding, Queued
  <2> QED
    BY <2>1 DEF TypeOK, LocksHeld, ResponseAwaited, HandlerLabel, WaitedFollows
<1>8. ResponseStored'
  BY DEF TypeOK, LocksHeld, ResponseAwaited, ResponseStored, WaitedFollows, ResponseToIssuer
<1>9. NoResponseInSpawnCtx' /\ ResponseToIssuer'
  BY DEF TypeOK, LocksHeld, ResponseStored, NoResponseInSpawnCtx, ResponseToIssuer
<1>10. NoOrphanedMessage'
  BY IncFacts DEF TypeOK, LocksHeld, WaitedFollows, CountsExact, NoOrphanedMessage, HasReader, Pending
<1> QED
  BY <1>1, <1>2, <1>3, <1>4, <1>5, <1>6, <1>7, <1>8, <1>9, <1>10

\* A handler that leaves the engine alone.
LEMMA HandleIInv ==
  ASSUME NEW w \in Proc, IInv, Handle(w)
  PROVE  IInv'
<1> USE ProcFacts DEF IInv, Handle, Goto, counts, params, nwp, HandlerDone
<1>1. TypeOK'
  BY IncFacts DEF TypeOK, EventClass, TaskLabel, SpawnLabel, HandlerLabel
<1>2. LocksHeld'
  BY DEF TypeOK, LocksHeld
<1>3. CountsExact'
  BY IncFacts DEF TypeOK, LocksHeld, CountsExact, Pending
<1>4. WaitedFollows'
  BY DEF TypeOK, LocksHeld, WaitedFollows
<1>5. ParamsKept'
  BY DEF TypeOK, LocksHeld, ParamsKept
<1>6. OneResponse'
  BY DEF OneResponse, Queued
<1>7. ResponseAwaited'
  <2>1. \A u \in Task : Outstanding(u)' => Outstanding(u)
    BY DEF Outstanding, Queued
  <2> QED
    BY <2>1 DEF TypeOK, LocksHeld, ResponseAwaited, HandlerLabel, WaitedFollows
<1>8. ResponseStored'
  BY DEF TypeOK, LocksHeld, ResponseAwaited, ResponseStored, WaitedFollows, ResponseToIssuer
<1>9. NoResponseInSpawnCtx' /\ ResponseToIssuer'
  BY DEF TypeOK, LocksHeld, ResponseStored, NoResponseInSpawnCtx, ResponseToIssuer
<1>10. NoOrphanedMessage'
  BY IncFacts DEF TypeOK, LocksHeld, WaitedFollows, CountsExact, NoOrphanedMessage, HasReader, Pending
<1> QED
  BY <1>1, <1>2, <1>3, <1>4, <1>5, <1>6, <1>7, <1>8, <1>9, <1>10

\* _SlDrvCmdSend saves the engine's state.
LEMMA CmdSendSaveIInv ==
  ASSUME NEW w \in Proc, IInv, CmdSendSave(w)
  PROVE  IInv'
<1> USE ProcFacts DEF IInv, CmdSendSave, Goto, counts, params, nwp
<1>1. TypeOK'
  BY IncFacts DEF TypeOK, EventClass, TaskLabel, SpawnLabel, HandlerLabel
<1>2. LocksHeld'
  BY DEF TypeOK, LocksHeld
<1>3. CountsExact'
  BY IncFacts DEF TypeOK, LocksHeld, CountsExact, Pending
<1>4. WaitedFollows'
  BY DEF TypeOK, LocksHeld, WaitedFollows
<1>5. ParamsKept'
  BY DEF TypeOK, LocksHeld, ParamsKept
<1>6. OneResponse'
  BY DEF OneResponse, Queued
<1>7. ResponseAwaited'
  <2>1. \A u \in Task : Outstanding(u)' => Outstanding(u)
    BY DEF Outstanding, Queued
  <2> QED
    BY <2>1 DEF TypeOK, LocksHeld, ResponseAwaited, HandlerLabel, WaitedFollows
<1>8. ResponseStored'
  BY DEF TypeOK, LocksHeld, ResponseAwaited, ResponseStored, WaitedFollows, ResponseToIssuer
<1>9. NoResponseInSpawnCtx' /\ ResponseToIssuer'
  BY DEF TypeOK, LocksHeld, ResponseStored, NoResponseInSpawnCtx, ResponseToIssuer
<1>10. NoOrphanedMessage'
  BY IncFacts DEF TypeOK, LocksHeld, WaitedFollows, CountsExact, NoOrphanedMessage, HasReader, Pending
<1> QED
  BY <1>1, <1>2, <1>3, <1>4, <1>5, <1>6, <1>7, <1>8, <1>9, <1>10

\* _SlDrvCmdSend overwrites the parameters.
LEMMA CmdSendWriteIInv ==
  ASSUME NEW w \in Proc, IInv, CmdSendWrite(w)
  PROVE  IInv'
<1> USE ProcFacts DEF IInv, CmdSendWrite, Goto, counts, params, nwp
<1>1. TypeOK'
  BY IncFacts DEF TypeOK, EventClass, TaskLabel, SpawnLabel, HandlerLabel
<1>2. LocksHeld'
  BY DEF TypeOK, LocksHeld
<1>3. CountsExact'
  BY IncFacts DEF TypeOK, LocksHeld, CountsExact, Pending
<1>4. WaitedFollows'
  BY DEF TypeOK, LocksHeld, WaitedFollows
<1>5. ParamsKept'
  BY DEF TypeOK, LocksHeld, ParamsKept
<1>6. OneResponse'
  BY DEF OneResponse, Queued
<1>7. ResponseAwaited'
  <2>1. \A u \in Task : Outstanding(u)' => Outstanding(u)
    BY DEF Outstanding, Queued
  <2> QED
    BY <2>1 DEF TypeOK, LocksHeld, ResponseAwaited, HandlerLabel, WaitedFollows
<1>8. ResponseStored'
  BY DEF TypeOK, LocksHeld, ResponseAwaited, ResponseStored, WaitedFollows, ResponseToIssuer
<1>9. NoResponseInSpawnCtx' /\ ResponseToIssuer'
  BY DEF TypeOK, LocksHeld, ResponseStored, NoResponseInSpawnCtx, ResponseToIssuer
<1>10. NoOrphanedMessage'
  BY IncFacts DEF TypeOK, LocksHeld, WaitedFollows, CountsExact, NoOrphanedMessage, HasReader, Pending
<1> QED
  BY <1>1, <1>2, <1>3, <1>4, <1>5, <1>6, <1>7, <1>8, <1>9, <1>10

\* _SlDrvCmdSend restores the flag.
LEMMA CmdSendRestoreFlagIInv ==
  ASSUME NEW w \in Proc, IInv, CmdSendRestoreFlag(w)
  PROVE  IInv'
<1> USE ProcFacts DEF IInv, CmdSendRestoreFlag, Goto, counts, params, nwp
<1>1. TypeOK'
  BY IncFacts DEF TypeOK, EventClass, TaskLabel, SpawnLabel, HandlerLabel
<1>2. LocksHeld'
  BY DEF TypeOK, LocksHeld
<1>3. CountsExact'
  BY IncFacts DEF TypeOK, LocksHeld, CountsExact, Pending
<1>4. WaitedFollows'
  BY DEF TypeOK, LocksHeld, WaitedFollows
<1>5. ParamsKept'
  BY DEF TypeOK, LocksHeld, ParamsKept
<1>6. OneResponse'
  BY DEF OneResponse, Queued
<1>7. ResponseAwaited'
  <2>1. \A u \in Task : Outstanding(u)' => Outstanding(u)
    BY DEF Outstanding, Queued
  <2> QED
    BY <2>1 DEF TypeOK, LocksHeld, ResponseAwaited, HandlerLabel, WaitedFollows
<1>8. ResponseStored'
  BY DEF TypeOK, LocksHeld, ResponseAwaited, ResponseStored, WaitedFollows, ResponseToIssuer
<1>9. NoResponseInSpawnCtx' /\ ResponseToIssuer'
  BY DEF TypeOK, LocksHeld, ResponseStored, NoResponseInSpawnCtx, ResponseToIssuer
<1>10. NoOrphanedMessage'
  BY IncFacts DEF TypeOK, LocksHeld, WaitedFollows, CountsExact, NoOrphanedMessage, HasReader, Pending
<1> QED
  BY <1>1, <1>2, <1>3, <1>4, <1>5, <1>6, <1>7, <1>8, <1>9, <1>10

\* _SlDrvCmdSend restores the parameters.
LEMMA CmdSendRestoreParamsIInv ==
  ASSUME NEW w \in Proc, IInv, CmdSendRestoreParams(w)
  PROVE  IInv'
<1> USE ProcFacts DEF IInv, CmdSendRestoreParams, Goto, counts, params, nwp, HandlerDone, NothingSaved
<1>1. TypeOK'
  BY IncFacts DEF TypeOK, EventClass, TaskLabel, SpawnLabel, HandlerLabel
<1>2. LocksHeld'
  BY DEF TypeOK, LocksHeld
<1>3. CountsExact'
  BY IncFacts DEF TypeOK, LocksHeld, CountsExact, Pending
<1>4. WaitedFollows'
  BY DEF TypeOK, LocksHeld, WaitedFollows
<1>5. ParamsKept'
  BY DEF TypeOK, LocksHeld, ParamsKept
<1>6. OneResponse'
  BY DEF OneResponse, Queued
<1>7. ResponseAwaited'
  <2>1. \A u \in Task : Outstanding(u)' => Outstanding(u)
    BY DEF Outstanding, Queued
  <2> QED
    BY <2>1 DEF TypeOK, LocksHeld, ResponseAwaited, HandlerLabel, WaitedFollows
<1>8. ResponseStored'
  BY DEF TypeOK, LocksHeld, ResponseAwaited, ResponseStored, WaitedFollows, ResponseToIssuer
<1>9. NoResponseInSpawnCtx' /\ ResponseToIssuer'
  BY DEF TypeOK, LocksHeld, ResponseStored, NoResponseInSpawnCtx, ResponseToIssuer
<1>10. NoOrphanedMessage'
  BY IncFacts DEF TypeOK, LocksHeld, WaitedFollows, CountsExact, NoOrphanedMessage, HasReader, Pending
<1> QED
  BY <1>1, <1>2, <1>3, <1>4, <1>5, <1>6, <1>7, <1>8, <1>9, <1>10

\* The spawn task takes an entry from its queue.
LEMMA SpawnTakeIInv ==
  ASSUME IInv, SpawnTake
  PROVE  IInv'
<1> USE ProcFacts DEF IInv, SpawnTake, Goto, counts, params, nwp
<1>1. TypeOK'
  BY IncFacts DEF TypeOK, EventClass, TaskLabel, SpawnLabel, HandlerLabel
<1>2. LocksHeld'
  BY DEF TypeOK, LocksHeld
<1>3. CountsExact'
  BY IncFacts DEF TypeOK, LocksHeld, CountsExact, Pending
<1>4. WaitedFollows'
  BY DEF TypeOK, LocksHeld, WaitedFollows
<1>5. ParamsKept'
  BY DEF TypeOK, LocksHeld, ParamsKept
<1>6. OneResponse'
  BY DEF OneResponse, Queued
<1>7. ResponseAwaited'
  <2>1. \A u \in Task : Outstanding(u)' => Outstanding(u)
    BY DEF Outstanding, Queued
  <2> QED
    BY <2>1 DEF TypeOK, LocksHeld, ResponseAwaited, HandlerLabel, WaitedFollows
<1>8. ResponseStored'
  BY DEF TypeOK, LocksHeld, ResponseAwaited, ResponseStored, WaitedFollows, ResponseToIssuer
<1>9. NoResponseInSpawnCtx' /\ ResponseToIssuer'
  BY DEF TypeOK, LocksHeld, ResponseStored, NoResponseInSpawnCtx, ResponseToIssuer
<1>10. NoOrphanedMessage'
  BY IncFacts DEF TypeOK, LocksHeld, WaitedFollows, CountsExact, NoOrphanedMessage, HasReader, Pending
<1> QED
  BY <1>1, <1>2, <1>3, <1>4, <1>5, <1>6, <1>7, <1>8, <1>9, <1>10

\* The spawn task takes the lock.
LEMMA SpawnLockIInv ==
  ASSUME IInv, SpawnLock
  PROVE  IInv'
<1> USE ProcFacts DEF IInv, SpawnLock, Goto, counts, params, nwp
<1>1. TypeOK'
  BY IncFacts DEF TypeOK, EventClass, TaskLabel, SpawnLabel, HandlerLabel
<1>2. LocksHeld'
  BY DEF TypeOK, LocksHeld
<1>3. CountsExact'
  BY IncFacts DEF TypeOK, LocksHeld, CountsExact, Pending
<1>4. WaitedFollows'
  BY DEF TypeOK, LocksHeld, WaitedFollows
<1>5. ParamsKept'
  BY DEF TypeOK, LocksHeld, ParamsKept
<1>6. OneResponse'
  BY DEF OneResponse, Queued
<1>7. ResponseAwaited'
  <2>1. \A u \in Task : Outstanding(u)' => Outstanding(u)
    BY DEF Outstanding, Queued
  <2> QED
    BY <2>1 DEF TypeOK, LocksHeld, ResponseAwaited, HandlerLabel, WaitedFollows
<1>8. ResponseStored'
  BY DEF TypeOK, LocksHeld, ResponseAwaited, ResponseStored, WaitedFollows, ResponseToIssuer
<1>9. NoResponseInSpawnCtx' /\ ResponseToIssuer'
  BY DEF TypeOK, LocksHeld, ResponseStored, NoResponseInSpawnCtx, ResponseToIssuer
<1>10. NoOrphanedMessage'
  BY IncFacts DEF TypeOK, LocksHeld, WaitedFollows, CountsExact, NoOrphanedMessage, HasReader, Pending
<1> QED
  BY <1>1, <1>2, <1>3, <1>4, <1>5, <1>6, <1>7, <1>8, <1>9, <1>10

\* The spawn task finds nothing to read.
LEMMA SpawnNothingIInv ==
  ASSUME IInv, SpawnNothing
  PROVE  IInv'
<1> USE ProcFacts DEF IInv, SpawnNothing, Goto, counts, params, nwp
<1>1. TypeOK'
  BY IncFacts DEF TypeOK, EventClass, TaskLabel, SpawnLabel, HandlerLabel
<1>2. LocksHeld'
  BY DEF TypeOK, LocksHeld
<1>3. CountsExact'
  BY IncFacts DEF TypeOK, LocksHeld, CountsExact, Pending
<1>4. WaitedFollows'
  BY DEF TypeOK, LocksHeld, WaitedFollows
<1>5. ParamsKept'
  BY DEF TypeOK, LocksHeld, ParamsKept
<1>6. OneResponse'
  BY DEF OneResponse, Queued
<1>7. ResponseAwaited'
  <2>1. \A u \in Task : Outstanding(u)' => Outstanding(u)
    BY DEF Outstanding, Queued
  <2> QED
    BY <2>1 DEF TypeOK, LocksHeld, ResponseAwaited, HandlerLabel, WaitedFollows
<1>8. ResponseStored'
  BY DEF TypeOK, LocksHeld, ResponseAwaited, ResponseStored, WaitedFollows, ResponseToIssuer
<1>9. NoResponseInSpawnCtx' /\ ResponseToIssuer'
  BY DEF TypeOK, LocksHeld, ResponseStored, NoResponseInSpawnCtx, ResponseToIssuer
<1>10. NoOrphanedMessage'
  BY IncFacts DEF TypeOK, LocksHeld, WaitedFollows, CountsExact, NoOrphanedMessage, HasReader, Pending
<1> QED
  BY <1>1, <1>2, <1>3, <1>4, <1>5, <1>6, <1>7, <1>8, <1>9, <1>10

\* The spawn task reads a message.
LEMMA SpawnReadIInv ==
  ASSUME IInv, SpawnRead
  PROVE  IInv'
<1> USE ProcFacts DEF IInv, SpawnRead, Goto, counts, params, nwp, MsgRead
<1>1. TypeOK'
  BY IncFacts, TailFacts DEF TypeOK, EventClass, TaskLabel, SpawnLabel, HandlerLabel, Message
<1>2. LocksHeld'
  BY DEF TypeOK, LocksHeld
<1>3. CountsExact'
  BY IncFacts DEF TypeOK, LocksHeld, CountsExact, Pending
<1>4. WaitedFollows'
  BY DEF TypeOK, LocksHeld, WaitedFollows
<1>5. ParamsKept'
  BY DEF TypeOK, LocksHeld, ParamsKept
<1> DEFINE m == Head(nwpOut)
<1>a. /\ m \in Message /\ m = nwpOut[1]
      /\ Len(nwpOut) \in Nat /\ Len(nwpOut) >= 1 /\ Len(nwpOut') = Len(nwpOut) - 1
      /\ \A i \in 1 .. Len(nwpOut) - 1 : nwpOut'[i] = nwpOut[i + 1]
  BY TailFacts DEF TypeOK
<1>b. \A u : Queued(u)' => Queued(u)
  BY <1>a DEF Queued
<1>c. m.class = "CMD_RESP_CLASS" => m.to \in Task /\ Queued(m.to) /\ GlobalLockObj = m.to
  <2>1. m.class = "CMD_RESP_CLASS" => m.to \in Task /\ Queued(m.to)
    BY <1>a DEF Message, EventClass, Queued
  <2> QED
    BY <2>1, WaiterHasLock DEF Outstanding
<1>d. m.class # "CMD_RESP_CLASS"
  BY <1>c DEF LocksHeld
<1> HIDE DEF m
<1>6. OneResponse'
  BY <1>a, <1>b DEF OneResponse
<1>7. ResponseAwaited'
  <2>1. \A u \in Task : Outstanding(u)' => Outstanding(u)
    BY <1>b DEF Outstanding
  <2> QED
    BY <2>1, WaiterHasLock DEF LocksHeld, ResponseAwaited
<1>e. RxMsgClass' = m.class /\ response' = response
  BY <1>d DEF m
<1>8. ResponseStored'
  BY <1>d, <1>e DEF TypeOK, LocksHeld, ResponseAwaited, ResponseStored, WaitedFollows, ResponseToIssuer
<1>9. NoResponseInSpawnCtx' /\ ResponseToIssuer'
  BY <1>d, <1>e DEF TypeOK, LocksHeld, ResponseStored, NoResponseInSpawnCtx, ResponseToIssuer
<1>10. NoOrphanedMessage'
  BY IncFacts DEF TypeOK, LocksHeld, WaitedFollows, CountsExact, NoOrphanedMessage, HasReader, Pending
<1> QED
  BY <1>1, <1>2, <1>3, <1>4, <1>5, <1>6, <1>7, <1>8, <1>9, <1>10

\* The spawn task counts the message it read.
LEMMA SpawnCountIInv ==
  ASSUME IInv, SpawnCount
  PROVE  IInv'
<1> USE ProcFacts DEF IInv, SpawnCount, Goto, counts, params, nwp, CountRead
<1>1. TypeOK'
  BY IncFacts DEF TypeOK, EventClass, TaskLabel, SpawnLabel, HandlerLabel
<1>2. LocksHeld'
  BY DEF TypeOK, LocksHeld
<1>3. CountsExact'
  BY IncFacts DEF TypeOK, LocksHeld, CountsExact, Pending
<1>4. WaitedFollows'
  BY DEF TypeOK, LocksHeld, WaitedFollows
<1>5. ParamsKept'
  BY DEF TypeOK, LocksHeld, ParamsKept
<1>6. OneResponse'
  BY DEF OneResponse, Queued
<1>7. ResponseAwaited'
  <2>1. \A u \in Task : Outstanding(u)' => Outstanding(u)
    BY DEF Outstanding, Queued
  <2> QED
    BY <2>1 DEF TypeOK, LocksHeld, ResponseAwaited, HandlerLabel, WaitedFollows
<1>8. ResponseStored'
  BY DEF TypeOK, LocksHeld, ResponseAwaited, ResponseStored, WaitedFollows, ResponseToIssuer
<1>9. NoResponseInSpawnCtx' /\ ResponseToIssuer'
  BY DEF TypeOK, LocksHeld, ResponseStored, NoResponseInSpawnCtx, ResponseToIssuer
<1>10. NoOrphanedMessage'
  BY IncFacts DEF TypeOK, LocksHeld, WaitedFollows, CountsExact, NoOrphanedMessage, HasReader, Pending
<1> QED
  BY <1>1, <1>2, <1>3, <1>4, <1>5, <1>6, <1>7, <1>8, <1>9, <1>10

\* The spawn task gives the lock back.
LEMMA SpawnUnlockIInv ==
  ASSUME IInv, SpawnUnlock
  PROVE  IInv'
<1> USE ProcFacts DEF IInv, SpawnUnlock, Goto, counts, params, nwp
<1>1. TypeOK'
  BY IncFacts DEF TypeOK, EventClass, TaskLabel, SpawnLabel, HandlerLabel
<1>2. LocksHeld'
  BY DEF TypeOK, LocksHeld
<1>3. CountsExact'
  BY IncFacts DEF TypeOK, LocksHeld, CountsExact, Pending
<1>4. WaitedFollows'
  BY DEF TypeOK, LocksHeld, WaitedFollows
<1>5. ParamsKept'
  BY DEF TypeOK, LocksHeld, ParamsKept
<1>6. OneResponse'
  BY DEF OneResponse, Queued
<1>7. ResponseAwaited'
  <2>1. \A u \in Task : Outstanding(u)' => Outstanding(u)
    BY DEF Outstanding, Queued
  <2> QED
    BY <2>1 DEF TypeOK, LocksHeld, ResponseAwaited, HandlerLabel, WaitedFollows
<1>8. ResponseStored'
  BY DEF TypeOK, LocksHeld, ResponseAwaited, ResponseStored, WaitedFollows, ResponseToIssuer
<1>9. NoResponseInSpawnCtx' /\ ResponseToIssuer'
  BY DEF TypeOK, LocksHeld, ResponseStored, NoResponseInSpawnCtx, ResponseToIssuer
<1>10. NoOrphanedMessage'
  BY IncFacts DEF TypeOK, LocksHeld, WaitedFollows, CountsExact, NoOrphanedMessage, HasReader, Pending
<1> QED
  BY <1>1, <1>2, <1>3, <1>4, <1>5, <1>6, <1>7, <1>8, <1>9, <1>10

\* A step of a process preserves the invariant.
LEMMA ProcStepIInv ==
  ASSUME NEW w \in Proc, IInv, ProcStep(w)
  PROVE  IInv'
<1>1. CASE HandlerStep(w)
  BY <1>1, HandleIInv, CmdSendSaveIInv, CmdSendWriteIInv, CmdSendRestoreFlagIInv,
     CmdSendRestoreParamsIInv DEF HandlerStep
<1>2. CASE w \in Task /\ CmdCtxStep(w)
  BY <1>2, CmdWriteIInv, CmdCtxReadIInv, CmdCtxCountIInv, CmdCtxRespondedIInv,
     CmdCtxClearIInv, CmdCtxSleepIInv, CmdCtxWokenIInv, CmdCtxUnlockIInv, CmdCtxCheckIInv
     DEF CmdCtxStep
<1>3. CASE SpawnStep
  BY <1>3, SpawnTakeIInv, SpawnLockIInv, SpawnNothingIInv, SpawnReadIInv, SpawnCountIInv,
     SpawnUnlockIInv DEF SpawnStep
<1> QED
  BY <1>1, <1>2, <1>3 DEF ProcStep

\* Every step, and stuttering, preserves the invariant.
LEMMA NextIInv == IInv /\ [Next]_vars => IInv'
<1> SUFFICES ASSUME IInv, [Next]_vars PROVE IInv'
  OBVIOUS
<1>1. CASE \E t \in Task : CmdLock(t) \/ DataOp(t)
  BY <1>1, CmdLockIInv, DataOpIInv
<1>2. CASE \E w \in Proc : ProcStep(w)
  BY <1>2, ProcStepIInv
<1>3. CASE RxIrqHandler
  BY <1>3, RxIrqHandlerIInv
<1>4. CASE NwpStep
  BY <1>4, NwpRespondIInv DEF NwpStep
<1>5. CASE \E c \in EventClass : NwpEvent(c)
  BY <1>5, NwpEventIInv
<1>6. CASE UNCHANGED vars
  BY <1>6 DEF vars, IInv, TypeOK, LocksHeld, CountsExact, WaitedFollows, ParamsKept, OneResponse,
     ResponseAwaited, Outstanding, Queued, ResponseStored, NoResponseInSpawnCtx, ResponseToIssuer,
     NoOrphanedMessage, HasReader
<1> QED
  BY <1>1, <1>2, <1>3, <1>4, <1>5, <1>6 DEF Next

\* The inductive invariant holds in every reachable state.
THEOREM Invariance == Spec => []IInv
BY InitIInv, NextIInv, PTL DEF Spec

\* The assertion in _SlDrvMsgReadSpawnCtx never fails: a response is only read
\* while the command it answers holds GlobalLockObj.
THEOREM NoResponseMisread == Spec => []NoResponseInSpawnCtx
<1>1. IInv => NoResponseInSpawnCtx
  BY DEF IInv
<1> QED
  BY Invariance, <1>1, PTL

\* A command returns with its own response, although FunctionParams is shared
\* and overwritten by handlers that send commands.
THEOREM ResponsesDelivered == Spec => []ResponseToIssuer
<1>1. IInv => ResponseToIssuer
  BY DEF IInv
<1> QED
  BY Invariance, <1>1, PTL

\* The comparison of RxIrqCnt and RxDoneCnt announces a message only when there
\* is one, for counters of any width above 1 bit.
THEOREM PendingIsExact == Spec => []PendingIsReadable
<1>1. IInv => PendingIsReadable
  BY IncFacts DEF IInv, TypeOK, CountsExact, Pending, PendingIsReadable
<1> QED
  BY Invariance, <1>1, PTL

\* RxIrqCnt is at most two ahead of RxDoneCnt.
THEOREM CountersStayClose == Spec => []PendingBounded
<1>1. IInv => PendingBounded
  BY DEF IInv, CountsExact, PendingBounded
<1> QED
  BY Invariance, <1>1, PTL

\* An announced message has a reader on its way, although osi_Spawn drops
\* entries, for every size of the spawn queue.
THEOREM ReaderOnItsWay == Spec => []NoOrphanedMessage
<1>1. IInv => NoOrphanedMessage
  BY DEF IInv
<1> QED
  BY Invariance, <1>1, PTL
==============================================================================
