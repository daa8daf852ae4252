--------------------------- MODULE SlDrvPoolProofs ---------------------------
(***************************************************************************)
(* Proofs about the action-object pool, for every number of tasks, objects *)
(* and sockets: IInv is inductive, and the safety properties of SlDrvPool  *)
(* follow from it.                                                         *)
(***************************************************************************)
EXTENDS SlDrvPool, TLAPS, WellFoundedInduction

-----------------------------------------------------------------------------
(***************************************************************************)
(* Index-linked lists: what the walk of a list visits after an insertion   *)
(* at the head and after _SlRemoveFromList.  Proved by exhibiting closed   *)
(* sets, without induction.                                                *)
(***************************************************************************)

\* The walk starts at the head, stays in the array and is closed.
LEMMA ChainClosed ==
  ASSUME NEW nx, NEW head
  PROVE  /\ Chain(nx, head) \subseteq DOMAIN nx
         /\ head \in DOMAIN nx => head \in Chain(nx, head)
         /\ Closed(nx, Chain(nx, head))
  BY DEF Chain, Closed

\* The walk stays in every closed set that contains the head.
LEMMA ChainLeast ==
  ASSUME NEW nx, NEW head, NEW S, S \subseteq DOMAIN nx,
         head \in DOMAIN nx => head \in S, Closed(nx, S)
  PROVE  Chain(nx, head) \subseteq S
  BY DEF Chain, Closed

\* The walk of an empty list visits nothing.
LEMMA ChainEmpty ==
  ASSUME NEW nx, NEW head, head \notin DOMAIN nx
  PROVE  Chain(nx, head) = {} /\ WellFormed(nx, head)
  BY DEF Chain, WellFormed

\* A list is not affected by changes to objects that are not on it.
LEMMA ChainLocal ==
  ASSUME NEW nx, NEW ny, NEW head, DOMAIN ny = DOMAIN nx,
         \A x \in Chain(nx, head) : ny[x] = nx[x]
  PROVE  /\ Chain(ny, head) = Chain(nx, head)
         /\ WellFormed(nx, head) => WellFormed(ny, head)
<1>1. Chain(ny, head) \subseteq Chain(nx, head)
  <2>1. Closed(ny, Chain(nx, head))
    BY ChainClosed DEF Closed
  <2>. QED  BY <2>1, ChainClosed, ChainLeast
<1>2. Chain(nx, head) \subseteq Chain(ny, head)
  <2>. DEFINE S == Chain(nx, head) \cap Chain(ny, head)
  <2>1. Closed(nx, S)
    <3>1. Closed(nx, Chain(nx, head)) /\ Closed(ny, Chain(ny, head))
      BY ChainClosed
    <3>. QED  BY <3>1 DEF Closed
  <2>2. S \subseteq DOMAIN nx /\ (head \in DOMAIN nx => head \in S)
    BY ChainClosed
  <2>3. Chain(nx, head) \subseteq S
    <3>. HIDE DEF S
    <3>. QED  BY <2>1, <2>2, ChainLeast
  <2>. QED  BY <2>3
<1>. QED  BY <1>1, <1>2 DEF WellFormed

\* Insertion at the head adds exactly the inserted object.
LEMMA PushChain ==
  ASSUME NEW nx, NEW head, NEW item \in DOMAIN nx,
         nx = [x \in DOMAIN nx |-> nx[x]],
         item \notin Chain(nx, head), WellFormed(nx, head)
  PROVE  /\ Chain(PushNext(nx, head, item), item) = Chain(nx, head) \cup {item}
         /\ WellFormed(PushNext(nx, head, item), item)
<1>. DEFINE ny == PushNext(nx, head, item)
            C == Chain(nx, head)
            N == Chain(ny, item)
<1>1. DOMAIN ny = DOMAIN nx /\ ny[item] = head /\ \A x \in DOMAIN nx \ {item} : ny[x] = nx[x]
  BY DEF PushNext
<1>2. C \subseteq DOMAIN nx /\ (head \in DOMAIN nx => head \in C) /\ Closed(nx, C)
  BY ChainClosed
<1>3. N \subseteq DOMAIN ny /\ item \in N /\ Closed(ny, N)
  BY <1>1, ChainClosed
<1>. HIDE DEF ny, C, N
<1>4. Closed(ny, C \cup {item})
  BY <1>1, <1>2 DEF Closed, C
<1>5. N \subseteq C \cup {item}
  BY <1>1, <1>2, <1>4, ChainLeast DEF N
<1>6. Closed(nx, C \cap N)
  <2>1. item \notin C
    BY DEF C
  <2>. QED  BY <1>1, <1>2, <1>3, <2>1 DEF Closed
<1>7. head \in DOMAIN nx => head \in C \cap N
  BY <1>1, <1>2, <1>3 DEF Closed
<1>8. C \subseteq C \cap N
  BY <1>2, <1>6, <1>7, ChainLeast DEF C
<1>9. N = C \cup {item}
  BY <1>3, <1>5, <1>8
<1>10. WellFormed(ny, item)
  <2>1. /\ \A x, y \in C : nx[x] \in DOMAIN nx /\ nx[x] = nx[y] => x = y
        /\ \A x \in C : head \in DOMAIN nx => nx[x] # head
    BY DEF WellFormed, C
  <2>2. item \notin C
    BY DEF C
  <2>3. \A x \in C : x \in DOMAIN nx /\ x # item /\ ny[x] = nx[x]
    BY <1>1, <1>2, <2>2
  <2>4. \A x \in C : nx[x] # item
    BY <1>2, <2>2 DEF Closed
  <2>5. \A x, y \in N : ny[x] \in DOMAIN ny /\ ny[x] = ny[y] => x = y
    BY <1>1, <1>9, <2>1, <2>3
  <2>6. head # item
    BY <1>2, <2>2
  <2>7. \A x \in N : ny[x] # item
    BY <1>1, <1>9, <2>3, <2>4, <2>6
  <2>. QED  BY <2>5, <2>7 DEF WellFormed, N
<1>. QED  BY <1>9, <1>10 DEF N, C, ny

\* A list whose head is its last object has no other object.
LEMMA SingletonChain ==
  ASSUME NEW nx, NEW head \in DOMAIN nx, nx[head] \notin DOMAIN nx
  PROVE  Chain(nx, head) = {head}
<1>1. Closed(nx, {head})
  BY DEF Closed
<1>. QED  BY <1>1, ChainClosed, ChainLeast

\* On a list without sharing no object is its own successor, and no two
\* objects are each other's successor.
LEMMA NoShortCycle ==
  ASSUME NEW nx, NEW head, WellFormed(nx, head),
         NEW x \in Chain(nx, head), NEW y \in Chain(nx, head),
         nx[x] = y, nx[y] = x
  PROVE  FALSE
<1>. DEFINE C == Chain(nx, head)
            S == C \ {x, y}
<1>1. C \subseteq DOMAIN nx /\ (head \in DOMAIN nx => head \in C) /\ Closed(nx, C)
  BY ChainClosed
<1>2. x \in C /\ y \in C
  OBVIOUS
<1>3. /\ \A u, v \in C : nx[u] \in DOMAIN nx /\ nx[u] = nx[v] => u = v
      /\ \A u \in C : head \in DOMAIN nx => nx[u] # head
  BY DEF WellFormed
<1>. HIDE DEF C
<1>4. head \in DOMAIN nx => head \in S
  BY <1>1, <1>2, <1>3
<1>5. Closed(nx, S)
  BY <1>1, <1>2, <1>3 DEF Closed
<1>6. C \subseteq S
  BY <1>1, <1>4, <1>5, ChainLeast DEF C
<1>. QED  BY <1>2, <1>6

\* _SlRemoveFromList removes exactly the given object, wherever it is on
\* the list, and changes only objects of that list.
LEMMA RemoveChain ==
  ASSUME NEW nx, NEW head, NEW end, NEW item \in Chain(nx, head),
         nx = [x \in DOMAIN nx |-> nx[x]],
         end \notin DOMAIN nx, head \in DOMAIN nx,
         \A x \in DOMAIN nx : nx[x] \in DOMAIN nx \cup {end},
         WellFormed(nx, head)
  PROVE  LET ny == RemoveNext(nx, head, item, end)
             nh == RemoveHead(nx, head, item, end)
         IN  /\ Chain(ny, nh) = Chain(nx, head) \ {item}
             /\ WellFormed(ny, nh)
             /\ nh \in DOMAIN nx \cup {end}
             /\ DOMAIN ny = DOMAIN nx
             /\ ny = [x \in DOMAIN nx |-> ny[x]]
             /\ \A x \in DOMAIN nx \ Chain(nx, head) : ny[x] = nx[x]
             /\ \A x \in DOMAIN nx : ny[x] \in DOMAIN nx \cup {end}
<1>. DEFINE C == Chain(nx, head)
            ny == RemoveNext(nx, head, item, end)
            nh == RemoveHead(nx, head, item, end)
<1>1. C \subseteq DOMAIN nx /\ head \in C /\ Closed(nx, C)
  BY ChainClosed
<1>2. item \in C /\ item \in DOMAIN nx
  BY <1>1
<1>3. /\ \A u, v \in C : nx[u] \in DOMAIN nx /\ nx[u] = nx[v] => u = v
      /\ \A u \in C : nx[u] # head
  BY DEF WellFormed
<1>4. CASE nx[head] = end
  <2>1. C = {head} /\ item = head
    BY <1>2, <1>4, SingletonChain
  <2>2. nh = end /\ ny = nx
    BY <1>4 DEF RemoveHead, RemoveNext
  <2>3. Chain(ny, nh) = {} /\ WellFormed(ny, nh)
    BY <2>2, ChainEmpty
  <2>. QED  BY <2>1, <2>2, <2>3
<1>5. CASE nx[head] # end /\ head = item
  <2>. DEFINE S == C \ {item}
  <2>1. nh = nx[head] /\ ny = nx /\ nh \in DOMAIN nx
    BY <1>1, <1>5 DEF RemoveHead, RemoveNext
  <2>2. nh \in S
    BY <1>1, <1>3, <1>5, <2>1 DEF Closed
  <2>3. Closed(nx, S)
    BY <1>1, <1>3, <1>5 DEF Closed
  <2>4. Chain(nx, nh) \subseteq S
    BY <1>1, <2>2, <2>3, ChainLeast
  <2>5. Closed(nx, Chain(nx, nh) \cup {item})
    <3>1. Closed(nx, Chain(nx, nh)) /\ nh \in Chain(nx, nh)
      BY <2>1, ChainClosed
    <3>. QED  BY <1>5, <2>1, <3>1 DEF Closed
  <2>6. C \subseteq Chain(nx, nh) \cup {item}
    BY <1>2, <1>5, <2>5, ChainLeast, ChainClosed
  <2>7. Chain(nx, nh) = S
    BY <2>4, <2>6
  <2>8. \A x \in S : nx[x] # nh
    BY <1>1, <1>3, <1>5, <2>1
  <2>9. WellFormed(nx, nh)
    BY <1>3, <2>7, <2>8 DEF WellFormed
  <2>. QED  BY <2>1, <2>7, <2>9
<1>6. CASE nx[head] # end /\ head # item
  <2>. DEFINE S == C \ {item}
              N == Chain(ny, nh)
  <2>1. nh = head
    BY <1>6 DEF RemoveHead
  <2>2. /\ DOMAIN ny = DOMAIN nx
        /\ ny = [x \in DOMAIN nx |-> ny[x]]
        /\ \A x \in DOMAIN nx :
             ny[x] = IF x \in C /\ nx[x] = item THEN nx[item] ELSE nx[x]
    BY <1>6 DEF RemoveNext
  <2>3. nx[item] # item
    BY <1>2, NoShortCycle
  <2>4. head \in S
    BY <1>1, <1>6
  <2>5. N \subseteq DOMAIN nx /\ head \in N /\ Closed(ny, N)
    BY <2>1, <2>2, ChainClosed
  <2>. HIDE DEF ny, nh, C, N
  <2>6. Closed(ny, S)
    BY <1>1, <1>2, <2>2, <2>3 DEF Closed
  <2>7. N \subseteq S
    BY <1>1, <2>1, <2>2, <2>4, <2>6, ChainLeast DEF N
  <2>8. S \subseteq N
    <3>. DEFINE T == {x \in C : x \in N \/ (x = item /\ \E p \in C \cap N : nx[p] = item)}
    <3>1. Closed(nx, T)
      <4>1. SUFFICES ASSUME NEW x \in T, nx[x] \in DOMAIN nx PROVE nx[x] \in T
        BY DEF Closed
      <4>2. nx[x] \in C
        BY <1>1, <4>1 DEF Closed
      <4>3. CASE x \in N /\ nx[x] = item
        BY <1>2, <4>1, <4>3
      <4>4. CASE x \in N /\ nx[x] # item
        <5>1. ny[x] = nx[x]
          BY <1>1, <2>2, <4>4
        <5>. QED  BY <2>2, <2>5, <4>1, <4>2, <4>4, <5>1 DEF Closed
      <4>5. CASE x \notin N
        <5>1. PICK p \in C \cap N : nx[p] = item
          BY <4>1, <4>5
        <5>2. x = item
          BY <4>1, <4>5
        <5>3. ny[p] = nx[item]
          BY <1>1, <2>2, <5>1
        <5>. QED  BY <2>2, <2>5, <4>1, <4>2, <5>1, <5>2, <5>3 DEF Closed
      <4>. QED  BY <4>3, <4>4, <4>5
    <3>2. T \subseteq DOMAIN nx /\ head \in T
      BY <1>1, <2>5
    <3>3. C \subseteq T
      <4>. HIDE DEF T
      <4>. QED  BY <3>1, <3>2, ChainLeast DEF C
    <3>. QED  BY <3>3
  <2>9. N = S
    BY <2>7, <2>8
  <2>10. \A u, v \in S : ny[u] \in DOMAIN nx /\ ny[u] = ny[v] => u = v
    <3>1. SUFFICES ASSUME NEW u \in S, NEW v \in S, ny[u] \in DOMAIN nx, ny[u] = ny[v]
                   PROVE u = v
      OBVIOUS
    <3>2. u \in DOMAIN nx /\ v \in DOMAIN nx /\ u \in C /\ v \in C /\ u # item /\ v # item
      BY <1>1
    <3>3. ny[u] = (IF nx[u] = item THEN nx[item] ELSE nx[u])
          /\ ny[v] = (IF nx[v] = item THEN nx[item] ELSE nx[v])
      BY <2>2, <3>2
    <3>4. CASE nx[u] = item /\ nx[v] = item
      BY <1>2, <1>3, <3>2, <3>4
    <3>5. CASE nx[u] = item /\ nx[v] # item
      BY <1>2, <1>3, <3>1, <3>2, <3>3, <3>5
    <3>6. CASE nx[u] # item /\ nx[v] = item
      BY <1>2, <1>3, <3>1, <3>2, <3>3, <3>6
    <3>7. CASE nx[u] # item /\ nx[v] # item
      BY <1>2, <1>3, <3>1, <3>2, <3>3, <3>7
    <3>. QED  BY <3>4, <3>5, <3>6, <3>7
  <2>11. \A u \in S : ny[u] # head
    BY <1>1, <1>2, <1>3, <2>2
  <2>12. WellFormed(ny, nh)
    BY <2>1, <2>2, <2>9, <2>10, <2>11 DEF WellFormed, N
  <2>13. \A x \in DOMAIN nx : ny[x] \in DOMAIN nx \cup {end}
    BY <1>2, <2>2
  <2>14. \A x \in DOMAIN nx \ C : ny[x] = nx[x]
    BY <2>2
  <2>. QED  BY <2>1, <2>2, <2>9, <2>12, <2>13, <2>14 DEF N, C, ny, nh
<1>. QED  BY <1>4, <1>5, <1>6

-----------------------------------------------------------------------------
(***************************************************************************)
(* Facts about requests and bits.                                          *)
(***************************************************************************)

\* The fields of a request: a call is about a socket, or it is one of the
\* actions that are not.
LEMMA RequestFields ==
  ASSUME NEW r \in AnyRequest
  PROVE  /\ r.ActionID \in Int /\ r.SocketID \in Int
         /\ SL_MAX_SOCKETS <= r.ActionID /\ r.ActionID <= SL_MAX_SOCKETS + 7
         /\ 0 <= r.SocketID /\ r.SocketID <= SL_MAX_SOCKETS
         /\ r.ActionID \in {ACCEPT_ID, CONNECT_ID, RECV_ID} <=> r.SocketID < SL_MAX_SOCKETS
<1>. USE PoolAssumption
     DEF SocketIDs, ACCEPT_ID, CONNECT_ID, SELECT_ID, GETHOSYBYNAME_ID,
         GETHOSYBYSERVICE_ID, PING_ID, START_STOP_ID, RECV_ID
<1>1. CASE r \in sl_Accept \cup sl_Connect \cup sl_Recv
  <2>1. r.ActionID \in {ACCEPT_ID, CONNECT_ID, RECV_ID} /\ r.SocketID \in SocketIDs
    BY <1>1 DEF sl_Accept, sl_Connect, sl_Recv, SocketCall, ServerCall
  <2>. QED  BY <2>1
<1>2. CASE r \in sl_Select \cup sl_Stop \cup sl_NetAppPingStart
  <2>1. r.ActionID \in {SELECT_ID, PING_ID, START_STOP_ID} /\ r.SocketID = SL_MAX_SOCKETS
    BY <1>2 DEF sl_Select, sl_Stop, sl_NetAppPingStart, DeviceCall
  <2>. QED  BY <2>1
<1>3. CASE r \in sl_NetAppDnsGetHostByName \cup sl_NetAppDnsGetHostByService
  <2>1. r.ActionID \in {GETHOSYBYNAME_ID, GETHOSYBYSERVICE_ID} /\ r.SocketID = SL_MAX_SOCKETS
    BY <1>3 DEF sl_NetAppDnsGetHostByName, sl_NetAppDnsGetHostByService, QueryCall
  <2>. QED  BY <2>1
<1>. QED  BY <1>1, <1>2, <1>3 DEF AnyRequest

\* The numbers of sockets, actions and unsolicited events do not overlap.
LEMMA RequestFacts ==
  ASSUME NEW r \in AnyRequest
  PROVE  /\ r.ActionID \in ActionIDs
         /\ r.ActionID # UNSOLICITED
         /\ r.ActionID # 0
         /\ r.SocketID \in SocketIDs \cup {SL_MAX_SOCKETS}
         /\ Bit(r.ActionID, r.SocketID) \in SocketIDs \cup ActionIDs
         /\ r # NoEvent
         /\ r # UnsolicitedEvent
         /\ r.ActionID = RECV_ID => r.SocketID < SL_MAX_SOCKETS
<1>1. /\ r.ActionID \in ActionIDs
      /\ r.ActionID # UNSOLICITED
      /\ r.ActionID # 0
      /\ r.SocketID \in SocketIDs \cup {SL_MAX_SOCKETS}
      /\ r.ActionID = RECV_ID => r.SocketID < SL_MAX_SOCKETS
  BY RequestFields, PoolAssumption DEF ActionIDs, UNSOLICITED, SocketIDs, ACCEPT_ID, RECV_ID
<1>2. Bit(r.ActionID, r.SocketID) \in SocketIDs \cup ActionIDs
  BY <1>1, PoolAssumption DEF Bit, SocketIDs
<1>3. r # NoEvent /\ r # UnsolicitedEvent
  BY <1>1 DEF NoEvent, UnsolicitedEvent
<1>. QED  BY <1>1, <1>2, <1>3

\* Requests on one socket need the same bit, and so do two requests of one
\* action one of which is not about a socket; requests with the same bit
\* that are not about a socket have the same action.
LEMMA SameBit ==
  ASSUME NEW r \in AnyRequest, NEW s \in AnyRequest
  PROVE  /\ r.SocketID = s.SocketID /\ r.SocketID < SL_MAX_SOCKETS
              => Bit(r.ActionID, r.SocketID) = Bit(s.ActionID, s.SocketID)
         /\ r.ActionID = s.ActionID /\ r.SocketID = SL_MAX_SOCKETS
              => Bit(r.ActionID, r.SocketID) = Bit(s.ActionID, s.SocketID)
<1>1. r.SocketID < SL_MAX_SOCKETS \/ r.SocketID = SL_MAX_SOCKETS
  BY RequestFields, PoolAssumption
<1>2. r.ActionID = s.ActionID /\ r.SocketID = SL_MAX_SOCKETS => s.SocketID = SL_MAX_SOCKETS
  BY RequestFields, PoolAssumption
<1>. QED  BY <1>1, <1>2, PoolAssumption DEF Bit

\* An unsolicited event is neither a request nor the empty event.
LEMMA UnsolicitedFacts ==
  /\ UnsolicitedEvent.ActionID = UNSOLICITED
  /\ UnsolicitedEvent.SocketID = SL_MAX_SOCKETS
  /\ NoEvent # UnsolicitedEvent
  /\ UNSOLICITED # RECV_ID
  /\ UNSOLICITED \notin ActionIDs \cup {0}
  /\ SL_MAX_SOCKETS \notin SocketIDs
  BY PoolAssumption DEF UnsolicitedEvent, NoEvent, UNSOLICITED, RECV_ID, ACCEPT_ID, ActionIDs, SocketIDs

\* MAX_CONCURRENT_ACTIONS is not the index of an object.
LEMMA IndexFacts ==
  /\ Nil \notin ObjIdx
  /\ Link = ObjIdx \cup {Nil}
  /\ 0 \in ObjIdx
  BY PoolAssumption DEF ObjIdx, Nil, Link

\* Every call that is under way has an object of the pool, a request and a
\* bit.
LEMMA CallFacts ==
  ASSUME TypeOK, NEW t \in Task, ~Idle(t)
  PROVE  obj[t] \in ObjIdx /\ req[t] \in AnyRequest /\ obj[t] # Nil
  BY IndexFacts DEF TypeOK

-----------------------------------------------------------------------------
\* A non-empty set of naturals has a least element.
LEMMA LeastNat ==
  ASSUME NEW T, T \subseteq Nat, T # {}
  PROVE  \E x \in T : \A y \in T : ~(y < x)
<1>1. PICK x \in T : \A y \in T : ~(<<y, x>> \in OpToRel(<, Nat))
  BY NatLessThanWellFounded, WFMin
<1>2. \A y \in T : y < x => <<y, x>> \in OpToRel(<, Nat)
  BY DEF OpToRel
<1>. QED  BY <1>1, <1>2

\* After _SlDrvDriverCBInit the walk of the free list visits the pool.
LEMMA InitChain ==
  ASSUME NextIndex = [o \in ObjIdx |-> o + 1]
  PROVE  Chain(NextIndex, 0) = ObjIdx /\ WellFormed(NextIndex, 0)
<1>. DEFINE C == Chain(NextIndex, 0)
            M == ObjIdx \ C
<1>1. C \subseteq ObjIdx /\ 0 \in C /\ Closed(NextIndex, C)
  BY ChainClosed, IndexFacts
<1>2. M = {}
  <2>1. SUFFICES ASSUME M # {} PROVE FALSE
    OBVIOUS
  <2>2. M \subseteq Nat
    BY PoolAssumption DEF ObjIdx
  <2>3. PICK x \in M : \A y \in M : ~(y < x)
    BY <2>1, <2>2, LeastNat
  <2>4. x # 0 /\ x - 1 \in ObjIdx /\ x - 1 \notin M
    BY <1>1, <2>3, PoolAssumption DEF ObjIdx
  <2>5. x - 1 \in C /\ NextIndex[x - 1] = x
    BY <2>4, PoolAssumption DEF ObjIdx
  <2>. QED  BY <1>1, <2>3, <2>5 DEF Closed
<1>3. WellFormed(NextIndex, 0)
  BY PoolAssumption, <1>1 DEF WellFormed, ObjIdx
<1>. QED  BY <1>1, <1>2, <1>3

-----------------------------------------------------------------------------
\* The initial state: every object is free, no call is under way.
LEMMA InitIInv == Init => IInv
<1>. SUFFICES ASSUME Init PROVE IInv
  OBVIOUS
<1>. USE DEF Init
<1>1. TypeOK
  <2>1. NextIndex \in [ObjIdx -> Link]
    BY PoolAssumption DEF ObjIdx, Link
  <2>2. /\ FreePoolIdx \in Link /\ PendingPoolIdx \in Link /\ ActivePoolIdx \in Link
        /\ obj \in [Task -> Link]
    BY IndexFacts
  <2>3. rx \in [evt : Event \cup {NoEvent}, idx : Link, wild : BOOLEAN, busy : BOOLEAN]
    BY IndexFacts DEF NoRx, Nil
  <2>4. calls \in [Task -> 0 .. MaxCalls]
    BY PoolAssumption
  <2>. QED  BY <2>1, <2>2, <2>3, <2>4 DEF TypeOK, Idle, NoRequest, Event
<1>2. PoolPartition /\ ListsWellFormed
  <2>1. DOMAIN NextIndex = ObjIdx
    OBVIOUS
  <2>2. /\ Chain(NextIndex, Nil) = {} /\ WellFormed(NextIndex, Nil)
        /\ Chain(NextIndex, 0) = ObjIdx /\ WellFormed(NextIndex, 0)
    BY <2>1, ChainEmpty, InitChain, IndexFacts
  <2>3. FreeObjs = ObjIdx /\ PendingObjs = {} /\ ActiveObjs = {}
    BY DEF FreeObjs, PendingObjs, ActiveObjs, Idle, Queued, Holding
  <2>. QED  BY <2>2, <2>3 DEF PoolPartition, ListsWellFormed, Idle
<1>3. FieldsMatch /\ BitsHeld /\ Exclusive /\ NoStaleSignal
  BY DEF FieldsMatch, BitsHeld, Exclusive, NoStaleSignal, Idle, Holding, FreeObjs
<1>4. BuffersSet /\ EventsAwaited /\ RxAwaited /\ NotYetAnswered /\ AnswerIsForCaller
  BY DEF BuffersSet, EventsAwaited, RxAwaited, NotYetAnswered, AnswerIsForCaller, NoRx
<1>5. NoWildHandler
  BY DEF NoWildHandler, NoRx
<1>. QED  BY <1>1, <1>2, <1>3, <1>4, <1>5 DEF IInv

-----------------------------------------------------------------------------
(***************************************************************************)
(* Steps that do not touch the lists.                                      *)
(***************************************************************************)

\* The lists stay right when no link changes and every call stays queued,
\* active or neither.
LEMMA ListsKept ==
  ASSUME PoolPartition, ListsWellFormed,
         UNCHANGED <<NextIndex, FreePoolIdx, PendingPoolIdx, ActivePoolIdx, obj>>,
         \A t \in Task : /\ Idle(t)' <=> Idle(t)
                         /\ Queued(t)' <=> Queued(t)
                         /\ Holding(t)' <=> Holding(t)
  PROVE  /\ PoolPartition' /\ ListsWellFormed'
         /\ FreeObjs' = FreeObjs
<1>1. /\ FreeObjs' = FreeObjs
      /\ PendingObjs' = PendingObjs
      /\ ActiveObjs' = ActiveObjs
  BY DEF FreeObjs, PendingObjs, ActiveObjs
<1>. QED  BY <1>1 DEF PoolPartition, ListsWellFormed

\* Two calls under way have different objects.
LEMMA OwnObject ==
  ASSUME PoolPartition, NEW t \in Task, NEW u \in Task, ~Idle(t), ~Idle(u), t # u
  PROVE  obj[t] # obj[u]
  BY DEF PoolPartition

\* A call that was queued behind a busy socket is woken.
LEMMA WokenFromPendingIInv ==
  ASSUME IInv, NEW t \in Task, WokenFromPending(t)
  PROVE  IInv'
<1>. USE DEF IInv
<1>1. /\ pc[t] = "pending" /\ SyncObj[obj[t]] /\ obj[t] \in ObjIdx
      /\ pc' = [pc EXCEPT ![t] = "retry"]
      /\ SyncObj' = [SyncObj EXCEPT ![obj[t]] = FALSE]
      /\ UNCHANGED <<NextIndex, ActionID, AdditionalData, FamilyBit, pRespArgs,
                     FreePoolIdx, PendingPoolIdx, ActivePoolIdx, ActiveActionsBitmap,
                     obj, req, resp, calls, nwp, rx>>
  BY CallFacts DEF WokenFromPending, Idle, heads
<1>2. TypeOK'
  BY <1>1 DEF TypeOK, Idle
<1>3. \A u \in Task : u # t => pc'[u] = pc[u] /\ (~Idle(u) => SyncObj'[obj[u]] = SyncObj[obj[u]])
  BY <1>1, OwnObject DEF TypeOK, Idle
<1>4. pc'[t] = "retry" /\ SyncObj'[obj[t]] = FALSE
  BY <1>1 DEF TypeOK
<1>5. PoolPartition' /\ ListsWellFormed' /\ FreeObjs' = FreeObjs
  <2>1. \A u \in Task : /\ Idle(u)' <=> Idle(u)
                        /\ Queued(u)' <=> Queued(u)
                        /\ Holding(u)' <=> Holding(u)
    BY <1>1, <1>3, <1>4 DEF Idle, Queued, Holding
  <2>. QED  BY <1>1, <2>1, ListsKept
<1>6. FieldsMatch' /\ BitsHeld' /\ Exclusive'
  BY <1>1, <1>3, <1>4, <1>5 DEF FieldsMatch, BitsHeld, Exclusive, TaskBit, Idle, Holding
<1>7. NoStaleSignal'
  BY <1>1, <1>3, <1>4, <1>5 DEF NoStaleSignal, Idle, TypeOK
<1>8. BuffersSet' /\ NotYetAnswered' /\ AnswerIsForCaller' /\ NoWildHandler'
  BY <1>1, <1>3, <1>4 DEF BuffersSet, NotYetAnswered, AnswerIsForCaller, NoWildHandler, Idle
<1>9. EventsAwaited' /\ RxAwaited'
  <2>1. \A u \in Task : Unanswered(u) => Unanswered(u)'
    BY <1>1, <1>3 DEF Unanswered, Idle
  <2>. QED  BY <1>1, <2>1 DEF EventsAwaited, RxAwaited
<1>. QED  BY <1>2, <1>5, <1>6, <1>7, <1>8, <1>9

\* The API registers its response buffer with its active object.
LEMMA SetRespArgsIInv ==
  ASSUME IInv, NEW t \in Task, SetRespArgs(t)
  PROVE  IInv'
<1>. USE DEF IInv
<1>1. /\ pc[t] = "active" /\ obj[t] \in ObjIdx /\ req[t] \in AnyRequest
      /\ pc' = [pc EXCEPT ![t] = "command"]
      /\ pRespArgs' = [pRespArgs EXCEPT ![obj[t]] = t]
      /\ FamilyBit' = [FamilyBit EXCEPT ![obj[t]] = @ \/ (req[t].v6 /\ req[t].ActionID # ACCEPT_ID)]
      /\ UNCHANGED <<NextIndex, ActionID, AdditionalData, SyncObj,
                     FreePoolIdx, PendingPoolIdx, ActivePoolIdx, ActiveActionsBitmap,
                     obj, req, resp, calls, nwp, rx>>
  BY CallFacts DEF SetRespArgs, Idle, heads
<1>2. TypeOK'
  BY <1>1 DEF TypeOK, Idle
<1>3. \A u \in Task : u # t => pc'[u] = pc[u] /\ (~Idle(u) => pRespArgs'[obj[u]] = pRespArgs[obj[u]])
  BY <1>1, OwnObject DEF TypeOK, Idle
<1>4. pc'[t] = "command" /\ pRespArgs'[obj[t]] = t
  BY <1>1 DEF TypeOK
<1>5. PoolPartition' /\ ListsWellFormed' /\ FreeObjs' = FreeObjs
  <2>1. \A u \in Task : /\ Idle(u)' <=> Idle(u)
                        /\ Queued(u)' <=> Queued(u)
                        /\ Holding(u)' <=> Holding(u)
    BY <1>1, <1>3, <1>4 DEF Idle, Queued, Holding
  <2>. QED  BY <1>1, <2>1, ListsKept
<1>6. FieldsMatch' /\ BitsHeld' /\ Exclusive'
  BY <1>1, <1>3, <1>4, <1>5 DEF FieldsMatch, BitsHeld, Exclusive, TaskBit, Idle, Holding
<1>7. NoStaleSignal'
  BY <1>1, <1>3, <1>4, <1>5 DEF NoStaleSignal
<1>8. BuffersSet' /\ NotYetAnswered' /\ AnswerIsForCaller' /\ NoWildHandler'
  BY <1>1, <1>3, <1>4 DEF BuffersSet, NotYetAnswered, AnswerIsForCaller, NoWildHandler, Idle
<1>9. EventsAwaited' /\ RxAwaited'
  <2>1. \A u \in Task : Unanswered(u) => Unanswered(u)'
    BY <1>1, <1>3 DEF Unanswered
  <2>. QED  BY <1>1, <2>1 DEF EventsAwaited, RxAwaited
<1>. QED  BY <1>2, <1>5, <1>6, <1>7, <1>8, <1>9

\* The NWP has accepted a command: its answer is now awaited.
LEMMA CommandAcceptedIInv ==
  ASSUME IInv, NEW t \in Task, CommandAccepted(t)
  PROVE  IInv'
<1>. USE DEF IInv
<1>1. /\ pc[t] = "command" /\ obj[t] \in ObjIdx /\ req[t] \in AnyRequest
      /\ pc' = [pc EXCEPT ![t] = "wait"]
      /\ nwp' = nwp \cup {req[t]}
      /\ UNCHANGED <<NextIndex, ActionID, AdditionalData, FamilyBit, pRespArgs, SyncObj,
                     FreePoolIdx, PendingPoolIdx, ActivePoolIdx, ActiveActionsBitmap,
                     obj, req, resp, calls, rx>>
  BY CallFacts DEF CommandAccepted, Idle, heads, fields
<1>2. TypeOK'
  BY <1>1 DEF TypeOK, Idle, Event
<1>3. pc'[t] = "wait" /\ \A u \in Task : u # t => pc'[u] = pc[u]
  BY <1>1 DEF TypeOK
<1>4. Unanswered(t)'
  BY <1>1, <1>3 DEF Unanswered, NoStaleSignal, NotYetAnswered
<1>5. PoolPartition' /\ ListsWellFormed' /\ FreeObjs' = FreeObjs
  <2>1. \A u \in Task : /\ Idle(u)' <=> Idle(u)
                        /\ Queued(u)' <=> Queued(u)
                        /\ Holding(u)' <=> Holding(u)
    BY <1>1, <1>3 DEF Idle, Queued, Holding
  <2>. QED  BY <1>1, <2>1, ListsKept
<1>6. FieldsMatch' /\ BitsHeld' /\ Exclusive'
  BY <1>1, <1>3, <1>5 DEF FieldsMatch, BitsHeld, Exclusive, TaskBit, Idle, Holding
<1>7. NoStaleSignal'
  BY <1>1, <1>3, <1>5 DEF NoStaleSignal
<1>8. BuffersSet' /\ NotYetAnswered' /\ AnswerIsForCaller' /\ NoWildHandler'
  BY <1>1, <1>3, <1>4 DEF BuffersSet, NotYetAnswered, AnswerIsForCaller, NoWildHandler, Unanswered
<1>9. EventsAwaited' /\ RxAwaited'
  <2>1. \A u \in Task : Unanswered(u) => Unanswered(u)'
    BY <1>1, <1>3 DEF Unanswered
  <2>2. ~(rx.busy /\ rx.idx = obj[t])
    <3>1. SUFFICES ASSUME rx.busy, rx.idx = obj[t] PROVE FALSE
      OBVIOUS
    <3>2. PICK u \in Task : pc[u] = "wait" /\ obj[u] = obj[t]
      BY <1>1, <3>1, IndexFacts DEF RxAwaited, Unanswered
    <3>. QED  BY <1>1, <3>2, OwnObject DEF Idle
  <2>. QED  BY <1>1, <1>4, <2>1, <2>2 DEF EventsAwaited, RxAwaited
<1>. QED  BY <1>2, <1>5, <1>6, <1>7, <1>8, <1>9

\* The NWP has refused a command: the call goes on to its release.
LEMMA CommandRefusedIInv ==
  ASSUME IInv, NEW t \in Task, CommandRefused(t)
  PROVE  IInv'
<1>. USE DEF IInv
<1>1. /\ pc[t] = "command" /\ obj[t] \in ObjIdx
      /\ pc' = [pc EXCEPT ![t] = "release"]
      /\ UNCHANGED <<NextIndex, ActionID, AdditionalData, FamilyBit, pRespArgs, SyncObj,
                     FreePoolIdx, PendingPoolIdx, ActivePoolIdx, ActiveActionsBitmap,
                     obj, req, resp, calls, nwp, rx>>
  BY CallFacts DEF CommandRefused, Idle, heads, fields
<1>2. TypeOK'
  BY <1>1 DEF TypeOK, Idle
<1>3. pc'[t] = "release" /\ \A u \in Task : u # t => pc'[u] = pc[u]
  BY <1>1 DEF TypeOK
<1>5. PoolPartition' /\ ListsWellFormed' /\ FreeObjs' = FreeObjs
  <2>1. \A u \in Task : /\ Idle(u)' <=> Idle(u)
                        /\ Queued(u)' <=> Queued(u)
                        /\ Holding(u)' <=> Holding(u)
    BY <1>1, <1>3 DEF Idle, Queued, Holding
  <2>. QED  BY <1>1, <2>1, ListsKept
<1>6. FieldsMatch' /\ BitsHeld' /\ Exclusive'
  BY <1>1, <1>3, <1>5 DEF FieldsMatch, BitsHeld, Exclusive, TaskBit, Idle, Holding
<1>7. NoStaleSignal'
  BY <1>1, <1>3, <1>5 DEF NoStaleSignal
<1>8. BuffersSet' /\ NotYetAnswered' /\ AnswerIsForCaller' /\ NoWildHandler'
  BY <1>1, <1>3 DEF BuffersSet, NotYetAnswered, AnswerIsForCaller, NoWildHandler
<1>9. EventsAwaited' /\ RxAwaited'
  <2>1. \A u \in Task : Unanswered(u) => Unanswered(u)'
    BY <1>1, <1>3 DEF Unanswered
  <2>. QED  BY <1>1, <2>1 DEF EventsAwaited, RxAwaited
<1>. QED  BY <1>2, <1>5, <1>6, <1>7, <1>8, <1>9

\* The sleep for the answer ends: the signal is consumed.
LEMMA WokenByAnswerIInv ==
  ASSUME IInv, NEW t \in Task, WokenByAnswer(t)
  PROVE  IInv'
<1>. USE DEF IInv
<1>1. /\ pc[t] = "wait" /\ SyncObj[obj[t]] /\ obj[t] \in ObjIdx
      /\ pc' = [pc EXCEPT ![t] = "release"]
      /\ SyncObj' = [SyncObj EXCEPT ![obj[t]] = FALSE]
      /\ UNCHANGED <<NextIndex, ActionID, AdditionalData, FamilyBit, pRespArgs,
                     FreePoolIdx, PendingPoolIdx, ActivePoolIdx, ActiveActionsBitmap,
                     obj, req, resp, calls, nwp, rx>>
  BY CallFacts DEF WokenByAnswer, Idle, heads
<1>2. TypeOK'
  BY <1>1 DEF TypeOK, Idle
<1>3. \A u \in Task : u # t => pc'[u] = pc[u] /\ (~Idle(u) => SyncObj'[obj[u]] = SyncObj[obj[u]])
  BY <1>1, OwnObject DEF TypeOK, Idle
<1>4. pc'[t] = "release" /\ SyncObj'[obj[t]] = FALSE
  BY <1>1 DEF TypeOK
<1>5. PoolPartition' /\ ListsWellFormed' /\ FreeObjs' = FreeObjs
  <2>1. \A u \in Task : /\ Idle(u)' <=> Idle(u)
                        /\ Queued(u)' <=> Queued(u)
                        /\ Holding(u)' <=> Holding(u)
    BY <1>1, <1>3, <1>4 DEF Idle, Queued, Holding
  <2>. QED  BY <1>1, <2>1, ListsKept
<1>6. FieldsMatch' /\ BitsHeld' /\ Exclusive'
  BY <1>1, <1>3, <1>4, <1>5 DEF FieldsMatch, BitsHeld, Exclusive, TaskBit, Idle, Holding
<1>7. NoStaleSignal'
  BY <1>1, <1>3, <1>4, <1>5 DEF NoStaleSignal, Idle, TypeOK
<1>8. BuffersSet' /\ NotYetAnswered' /\ AnswerIsForCaller' /\ NoWildHandler'
  BY <1>1, <1>3, <1>4 DEF BuffersSet, NotYetAnswered, AnswerIsForCaller, NoWildHandler, Idle
<1>9. EventsAwaited' /\ RxAwaited'
  <2>1. \A u \in Task : Unanswered(u) => Unanswered(u)'
    BY <1>1, <1>3 DEF Unanswered, Idle
  <2>. QED  BY <1>1, <2>1 DEF EventsAwaited, RxAwaited
<1>. QED  BY <1>2, <1>5, <1>6, <1>7, <1>8, <1>9

-----------------------------------------------------------------------------
(***************************************************************************)
(* Events.  The walk of the active list can only stop at the object of the *)
(* caller that awaits the event: every other active object has another     *)
(* bit, even if its table entry is read from behind the table.             *)
(***************************************************************************)
LEMMA MatchedObject ==
  ASSUME IInv, NEW e \in nwp, NEW wild \in Wild,
         NEW o \in Chain(NextIndex, ActivePoolIdx) \cap (RecvMatch(e) \cup TableMatch(e, wild))
  PROVE  /\ o \in ObjIdx /\ ActionID[o] = e.ActionID
         /\ \E t \in Task : /\ Unanswered(t) /\ req[t] = e /\ obj[t] = o
                            /\ ~(rx.busy /\ rx.idx = obj[t])
<1>. USE DEF IInv
<1>1. /\ o \in ObjIdx
      /\ o \in Chain(NextIndex, ActivePoolIdx)
      /\ o \in RecvMatch(e) \/ o \in TableMatch(e, wild)
  BY DEF RecvMatch, TableMatch
<1>2. PICK u \in Task : Holding(u) /\ obj[u] = o
  BY <1>1 DEF PoolPartition, ActiveObjs
<1>3. /\ req[u] \in AnyRequest /\ ActionID[o] = req[u].ActionID
      /\ AdditionalData[o] = req[u].SocketID
  BY <1>2, CallFacts DEF FieldsMatch, Holding, Idle
<1>4. /\ req[u].ActionID \in ActionIDs
      /\ req[u].ActionID = RECV_ID => req[u].SocketID < SL_MAX_SOCKETS
      /\ req[u].SocketID \in SocketIDs \cup {SL_MAX_SOCKETS}
  BY <1>3, RequestFacts
<1>5. ~(SL_MAX_SOCKETS < SL_MAX_SOCKETS)
  BY PoolAssumption
<1>6. \/ /\ e.ActionID = req[u].ActionID
         /\ e.SocketID = req[u].SocketID \/ req[u].SocketID = SL_MAX_SOCKETS
      \/ e.SocketID = req[u].SocketID /\ e.SocketID < SL_MAX_SOCKETS
  <2>1. CASE o \in RecvMatch(e)
    BY <2>1, <1>3 DEF RecvMatch
  <2>2. CASE o \in TableMatch(e, wild)
    <3>1. /\ e.ActionID = (IF ActionID[o] = RECV_ID THEN wild ELSE ActionID[o])
          /\ \/ e.SocketID = AdditionalData[o] /\ e.SocketID < SL_MAX_SOCKETS
             \/ AdditionalData[o] = SL_MAX_SOCKETS
      BY <2>2 DEF TableMatch
    <3>. QED  BY <3>1, <1>3, <1>4, <1>5
  <2>. QED  BY <1>1, <2>1, <2>2
<1>7. e # UnsolicitedEvent
  BY <1>4, <1>5, <1>6, UnsolicitedFacts
<1>8. PICK t \in Task : /\ Unanswered(t) /\ req[t] = e
                        /\ ~(rx.busy /\ rx.idx = obj[t])
  BY <1>7 DEF EventsAwaited
<1>9. e \in AnyRequest
  BY <1>8, CallFacts DEF Unanswered, Idle
<1>10. TaskBit(u) = TaskBit(t)
  <2>1. CASE e.ActionID = req[u].ActionID /\ req[u].SocketID = SL_MAX_SOCKETS
    BY <2>1, <1>3, <1>8, <1>9, SameBit DEF TaskBit
  <2>2. CASE e.ActionID = req[u].ActionID /\ e.SocketID = req[u].SocketID
    BY <2>2, <1>8 DEF TaskBit
  <2>3. CASE e.SocketID = req[u].SocketID /\ e.SocketID < SL_MAX_SOCKETS
    BY <2>3, <1>3, <1>8, <1>9, SameBit DEF TaskBit
  <2>. QED  BY <1>6, <2>1, <2>2, <2>3
<1>11. u = t
  BY <1>2, <1>8, <1>10 DEF Exclusive, Holding, Unanswered
<1>. QED  BY <1>1, <1>2, <1>3, <1>8, <1>11

\* In particular the object at which the walk does stop.
LEMMA FoundObject ==
  ASSUME IInv, NEW e \in nwp, NEW wild \in Wild, NEW o \in FindActiveObj(e, wild)
  PROVE  /\ o \in ObjIdx /\ ActionID[o] = e.ActionID
         /\ \E t \in Task : /\ Unanswered(t) /\ req[t] = e /\ obj[t] = o
                            /\ ~(rx.busy /\ rx.idx = obj[t])
<1>1. o \in Chain(NextIndex, ActivePoolIdx) \cap (RecvMatch(e) \cup TableMatch(e, wild))
  BY DEF FindActiveObj, FirstOf
<1>. QED  BY <1>1, MatchedObject

\* An asynchronous event is read: its object is that of the caller who
\* awaits it.
LEMMA ReadAsyncEventIInv ==
  ASSUME IInv, NEW e \in nwp, NEW wild \in Wild, ReadAsyncEvent(e, wild)
  PROVE  IInv'
<1>. USE DEF IInv
<1>1. /\ e.ActionID # RECV_ID
      /\ nwp' = nwp \ {e}
      /\ UNCHANGED <<NextIndex, ActionID, AdditionalData, FamilyBit, pRespArgs, SyncObj,
                     FreePoolIdx, PendingPoolIdx, ActivePoolIdx, ActiveActionsBitmap,
                     pc, obj, req, resp, calls>>
  BY DEF ReadAsyncEvent, fields, heads
<1>2. /\ rx'.evt = e /\ rx'.idx \in Link /\ rx'.wild = FALSE /\ rx'.busy = TRUE
      /\ rx' = [evt |-> e, idx |-> rx'.idx, wild |-> FALSE, busy |-> TRUE]
      /\ rx'.idx # Nil =>
           \E t \in Task : Unanswered(t) /\ req[t] = e /\ obj[t] = rx'.idx
  <2>1. CASE rx' = [evt |-> e, idx |-> Nil, wild |-> FALSE, busy |-> TRUE]
    BY <2>1, IndexFacts
  <2>2. CASE \E o \in FindActiveObj(e, wild) :
               rx' = [evt |-> e, idx |-> o, wild |-> ActionID[o] = RECV_ID, busy |-> TRUE]
    <3>1. PICK o \in FindActiveObj(e, wild) :
            rx' = [evt |-> e, idx |-> o, wild |-> ActionID[o] = RECV_ID, busy |-> TRUE]
      BY <2>2
    <3>2. /\ o \in ObjIdx /\ ActionID[o] = e.ActionID
          /\ \E t \in Task : Unanswered(t) /\ req[t] = e /\ obj[t] = o
      BY FoundObject
    <3>3. (ActionID[o] = RECV_ID) = FALSE
      BY <1>1, <3>2
    <3>. QED  BY <3>1, <3>2, <3>3, IndexFacts
  <2>. QED  BY <2>1, <2>2 DEF ReadAsyncEvent
<1>3. TypeOK'
  <2>1. rx' \in [evt : Event \cup {NoEvent}, idx : Link, wild : BOOLEAN, busy : BOOLEAN]
    BY <1>2 DEF TypeOK
  <2>. QED  BY <1>1, <2>1 DEF TypeOK, Idle
<1>4. PoolPartition' /\ ListsWellFormed' /\ FreeObjs' = FreeObjs
  <2>1. \A u \in Task : /\ Idle(u)' <=> Idle(u)
                        /\ Queued(u)' <=> Queued(u)
                        /\ Holding(u)' <=> Holding(u)
    BY <1>1 DEF Idle, Queued, Holding
  <2>. QED  BY <1>1, <2>1, ListsKept
<1>5. FieldsMatch' /\ BitsHeld' /\ Exclusive' /\ NoStaleSignal'
  BY <1>1, <1>4 DEF FieldsMatch, BitsHeld, Exclusive, TaskBit, Idle, Holding, NoStaleSignal
<1>6. BuffersSet' /\ NotYetAnswered' /\ AnswerIsForCaller' /\ NoWildHandler'
  BY <1>1, <1>2 DEF BuffersSet, NotYetAnswered, AnswerIsForCaller, NoWildHandler
<1>7. \A u \in Task : Unanswered(u)' <=> Unanswered(u)
  BY <1>1 DEF Unanswered
<1>8. RxAwaited'
  BY <1>1, <1>2, <1>7 DEF RxAwaited
<1>9. EventsAwaited'
  <2>1. SUFFICES ASSUME NEW f \in nwp', f # UnsolicitedEvent
                 PROVE  \E u \in Task : Unanswered(u) /\ req[u] = f /\ ~(rx'.idx = obj[u])
    BY <1>1, <1>7, <2>1 DEF EventsAwaited
  <2>2. PICK u \in Task : Unanswered(u) /\ req[u] = f
    BY <1>1, <2>1 DEF EventsAwaited
  <2>3. rx'.idx # obj[u]
    <3>1. SUFFICES ASSUME rx'.idx = obj[u] PROVE FALSE
      OBVIOUS
    <3>2. obj[u] # Nil
      BY <2>2, CallFacts DEF Unanswered, Idle
    <3>3. PICK v \in Task : Unanswered(v) /\ req[v] = e /\ obj[v] = obj[u]
      BY <1>2, <3>1, <3>2
    <3>4. u = v
      BY <2>2, <3>3, OwnObject DEF Unanswered, Idle
    <3>. QED  BY <1>1, <2>1, <2>2, <3>3, <3>4
  <2>. QED  BY <2>2, <2>3
<1>. QED  BY <1>3, <1>4, <1>5, <1>6, <1>8, <1>9

\* Copying an answer to its caller and signalling the caller's object, in
\* a handler or in the receive path, disturbs no other call.
LEMMA AnswerCopied ==
  ASSUME IInv, NEW t \in Task, Unanswered(t), NEW o, obj[t] = o, NEW e, e = req[t],
         resp' = [resp EXCEPT ![pRespArgs[o]] = e],
         SyncObj' = [SyncObj EXCEPT ![o] = TRUE],
         nwp' \subseteq nwp,
         UNCHANGED <<NextIndex, ActionID, AdditionalData, FamilyBit, pRespArgs,
                     FreePoolIdx, PendingPoolIdx, ActivePoolIdx, ActiveActionsBitmap,
                     pc, obj, req, calls>>,
         rx' \in [evt : Event \cup {NoEvent}, idx : Link, wild : BOOLEAN, busy : BOOLEAN],
         RxAwaited', NoWildHandler',
         \A f \in nwp' : f = UnsolicitedEvent \/
           \E u \in Task : u # t /\ Unanswered(u) /\ req[u] = f /\ ~(rx'.busy /\ rx'.idx = obj[u])
  PROVE  IInv'
<1>. USE DEF IInv
<1>1. pc[t] = "wait" /\ obj[t] \in ObjIdx /\ req[t] \in AnyRequest /\ pRespArgs[o] = t
  BY CallFacts DEF Unanswered, Idle, BuffersSet
<1>2. TypeOK'
  BY <1>1 DEF TypeOK, Idle, Event
<1>3. \A u \in Task : u # t =>
        /\ resp'[u] = resp[u]
        /\ ~Idle(u) => (SyncObj'[obj'[u]] <=> SyncObj[obj[u]])
  BY <1>1, OwnObject DEF TypeOK, Idle
<1>4. resp'[t] = req[t] /\ SyncObj'[obj'[t]]
  BY <1>1 DEF TypeOK
<1>5. PoolPartition' /\ ListsWellFormed' /\ FreeObjs' = FreeObjs
  <2>1. \A u \in Task : /\ Idle(u)' <=> Idle(u)
                        /\ Queued(u)' <=> Queued(u)
                        /\ Holding(u)' <=> Holding(u)
    BY <1>1, <1>3, <1>4 DEF Idle, Queued, Holding
  <2>. QED  BY <2>1, ListsKept
<1>6. FieldsMatch' /\ BitsHeld' /\ Exclusive'
  BY <1>1, <1>5 DEF FieldsMatch, BitsHeld, Exclusive, TaskBit, Idle, Holding
<1>7. NoStaleSignal'
  <2>1. o \notin FreeObjs
    BY <1>1 DEF FreeObjs, Idle
  <2>2. \A x \in FreeObjs : SyncObj'[x] = SyncObj[x]
    BY <2>1 DEF FreeObjs, TypeOK
  <2>. QED  BY <1>1, <1>3, <1>5, <2>2 DEF NoStaleSignal, Idle
<1>8. BuffersSet' /\ NotYetAnswered'
  BY <1>1, <1>3 DEF BuffersSet, NotYetAnswered
<1>9. AnswerIsForCaller'
  BY <1>1, <1>3, <1>4 DEF AnswerIsForCaller, Idle
<1>10. EventsAwaited'
  <2>1. \A u \in Task : u # t /\ Unanswered(u) => Unanswered(u)'
    BY <1>3 DEF Unanswered, Idle
  <2>. QED  BY <2>1 DEF EventsAwaited
<1>. QED  BY <1>2, <1>5, <1>6, <1>7, <1>8, <1>9, <1>10

\* A response to a receive is read: copied and signalled at once.
LEMMA ReadRecvResponseIInv ==
  ASSUME IInv, NEW e \in nwp, NEW wild \in Wild, ReadRecvResponse(e, wild)
  PROVE  IInv'
<1>. USE DEF IInv
<1>1. PICK o \in FindActiveObj(e, wild) :
        /\ resp' = [resp EXCEPT ![pRespArgs[o]] = e]
        /\ SyncObj' = [SyncObj EXCEPT ![o] = TRUE]
  BY DEF ReadRecvResponse
<1>2. /\ ~rx.busy
      /\ nwp' = nwp \ {e}
      /\ UNCHANGED <<NextIndex, ActionID, AdditionalData, FamilyBit, pRespArgs,
                     FreePoolIdx, PendingPoolIdx, ActivePoolIdx, ActiveActionsBitmap,
                     pc, obj, req, calls, rx>>
  BY DEF ReadRecvResponse, heads
<1>3. PICK t \in Task : Unanswered(t) /\ req[t] = e /\ obj[t] = o
  BY FoundObject
<1>4. /\ rx' \in [evt : Event \cup {NoEvent}, idx : Link, wild : BOOLEAN, busy : BOOLEAN]
      /\ RxAwaited' /\ NoWildHandler'
  BY <1>2 DEF TypeOK, RxAwaited, NoWildHandler
<1>5. \A f \in nwp' : f = UnsolicitedEvent \/
        \E u \in Task : u # t /\ Unanswered(u) /\ req[u] = f /\ ~(rx'.busy /\ rx'.idx = obj[u])
  BY <1>2, <1>3 DEF EventsAwaited
<1>. QED  BY <1>1, <1>2, <1>3, <1>4, <1>5, AnswerCopied

\* A handler copies the answer of the event it was selected for.
LEMMA HandleAsyncIInv ==
  ASSUME IInv, HandleAsync
  PROVE  IInv'
<1>. USE DEF IInv
<1>1. /\ rx.busy /\ rx.idx # Nil
      /\ resp' = [resp EXCEPT ![pRespArgs[rx.idx]] = rx.evt]
      /\ SyncObj' = [SyncObj EXCEPT ![rx.idx] = TRUE]
      /\ rx' = NoRx
      /\ UNCHANGED <<NextIndex, ActionID, AdditionalData, FamilyBit, pRespArgs,
                     FreePoolIdx, PendingPoolIdx, ActivePoolIdx, ActiveActionsBitmap,
                     pc, obj, req, calls, nwp>>
  BY DEF HandleAsync, heads
<1>2. PICK t \in Task : Unanswered(t) /\ req[t] = rx.evt /\ obj[t] = rx.idx
  BY <1>1 DEF RxAwaited
<1>3. /\ rx' \in [evt : Event \cup {NoEvent}, idx : Link, wild : BOOLEAN, busy : BOOLEAN]
      /\ RxAwaited' /\ NoWildHandler'
  BY <1>1, IndexFacts DEF NoRx, Nil, RxAwaited, NoWildHandler
<1>4. \A f \in nwp' : f = UnsolicitedEvent \/
        \E u \in Task : u # t /\ Unanswered(u) /\ req[u] = f /\ ~(rx'.busy /\ rx'.idx = obj[u])
  BY <1>1, <1>2 DEF EventsAwaited, NoRx
<1>. QED  BY <1>1, <1>2, <1>3, <1>4, AnswerCopied

\* The event is dropped, or handed to the user.
LEMMA EventDroppedIInv ==
  ASSUME IInv, UserEventHandler \/ HandleServiceIPv6
  PROVE  IInv'
<1>. USE DEF IInv
<1>1. /\ rx' = NoRx
      /\ UNCHANGED <<NextIndex, ActionID, AdditionalData, FamilyBit, pRespArgs, SyncObj,
                     FreePoolIdx, PendingPoolIdx, ActivePoolIdx, ActiveActionsBitmap,
                     pc, obj, req, resp, calls, nwp>>
  BY DEF UserEventHandler, HandleServiceIPv6, fields, heads, locals
<1>2. TypeOK'
  <2>1. rx' \in [evt : Event \cup {NoEvent}, idx : Link, wild : BOOLEAN, busy : BOOLEAN]
    BY <1>1, IndexFacts DEF NoRx, Nil
  <2>. QED  BY <1>1, <2>1 DEF TypeOK, Idle
<1>3. PoolPartition' /\ ListsWellFormed' /\ FreeObjs' = FreeObjs
  <2>1. \A u \in Task : /\ Idle(u)' <=> Idle(u)
                        /\ Queued(u)' <=> Queued(u)
                        /\ Holding(u)' <=> Holding(u)
    BY <1>1 DEF Idle, Queued, Holding
  <2>. QED  BY <1>1, <2>1, ListsKept
<1>4. FieldsMatch' /\ BitsHeld' /\ Exclusive' /\ NoStaleSignal'
  BY <1>1, <1>3 DEF FieldsMatch, BitsHeld, Exclusive, TaskBit, Idle, Holding, NoStaleSignal
<1>5. BuffersSet' /\ NotYetAnswered' /\ AnswerIsForCaller' /\ NoWildHandler'
  BY <1>1 DEF BuffersSet, NotYetAnswered, AnswerIsForCaller, NoWildHandler, NoRx
<1>6. EventsAwaited' /\ RxAwaited'
  BY <1>1 DEF EventsAwaited, RxAwaited, Unanswered, NoRx
<1>. QED  BY <1>2, <1>3, <1>4, <1>5, <1>6

-----------------------------------------------------------------------------
(***************************************************************************)
(* Steps that move objects between the lists.                              *)
(***************************************************************************)

\* No object to be had: only the number of calls changes.
LEMMA PoolIsEmptyIInv ==
  ASSUME IInv, NEW t \in Task, PoolIsEmpty(t)
  PROVE  IInv'
<1>. USE DEF IInv
<1>1. /\ calls[t] < MaxCalls /\ calls' = [calls EXCEPT ![t] = @ + 1]
      /\ UNCHANGED <<NextIndex, ActionID, AdditionalData, FamilyBit, pRespArgs, SyncObj,
                     FreePoolIdx, PendingPoolIdx, ActivePoolIdx, ActiveActionsBitmap,
                     pc, obj, req, resp, nwp, rx>>
  BY DEF PoolIsEmpty, fields, heads
<1>2. TypeOK'
  <2>1. calls' \in [Task -> 0 .. MaxCalls]
    BY <1>1, PoolAssumption DEF TypeOK
  <2>. QED  BY <1>1, <2>1 DEF TypeOK, Idle
<1>3. PoolPartition' /\ ListsWellFormed' /\ FreeObjs' = FreeObjs
  <2>1. \A u \in Task : /\ Idle(u)' <=> Idle(u)
                        /\ Queued(u)' <=> Queued(u)
                        /\ Holding(u)' <=> Holding(u)
    BY <1>1 DEF Idle, Queued, Holding
  <2>. QED  BY <1>1, <2>1, ListsKept
<1>4. FieldsMatch' /\ BitsHeld' /\ Exclusive' /\ NoStaleSignal'
  BY <1>1, <1>3 DEF FieldsMatch, BitsHeld, Exclusive, TaskBit, Idle, Holding, NoStaleSignal
<1>5. BuffersSet' /\ NotYetAnswered' /\ AnswerIsForCaller' /\ NoWildHandler'
  BY <1>1 DEF BuffersSet, NotYetAnswered, AnswerIsForCaller, NoWildHandler
<1>6. EventsAwaited' /\ RxAwaited'
  BY <1>1 DEF EventsAwaited, RxAwaited, Unanswered
<1>. QED  BY <1>2, <1>3, <1>4, <1>5, <1>6

\* The loop test of _SlDrvWaitForPoolObj puts an object that is on no list
\* on the pending or on the active list and leaves the other lists alone.
LEMMA PendOrActivateLists ==
  ASSUME NextIndex \in [ObjIdx -> Link], PendingPoolIdx \in Link, ActivePoolIdx \in Link,
         NEW t, NEW r, NEW o \in ObjIdx, NEW f,
         PendOrActivate(t, o, r),
         WellFormed(NextIndex, f),
         WellFormed(NextIndex, PendingPoolIdx), WellFormed(NextIndex, ActivePoolIdx),
         o \notin Chain(NextIndex, f),
         o \notin Chain(NextIndex, PendingPoolIdx), o \notin Chain(NextIndex, ActivePoolIdx)
  PROVE  /\ NextIndex' \in [ObjIdx -> Link]
         /\ PendingPoolIdx' \in Link /\ ActivePoolIdx' \in Link
         /\ Chain(NextIndex', f) = Chain(NextIndex, f)
         /\ WellFormed(NextIndex', f)
         /\ WellFormed(NextIndex', PendingPoolIdx') /\ WellFormed(NextIndex', ActivePoolIdx')
         /\ Chain(NextIndex', PendingPoolIdx') =
              Chain(NextIndex, PendingPoolIdx) \cup (IF Busy(r) THEN {o} ELSE {})
         /\ Chain(NextIndex', ActivePoolIdx') =
              Chain(NextIndex, ActivePoolIdx) \cup (IF Busy(r) THEN {} ELSE {o})
<1>1. DOMAIN NextIndex = ObjIdx /\ NextIndex = [x \in DOMAIN NextIndex |-> NextIndex[x]]
  OBVIOUS
<1>2. ObjIdx \subseteq Link
  BY IndexFacts
<1>3. CASE Busy(r) /\ MoveToPending(t, o)
  <2>1. NextIndex' = PushNext(NextIndex, PendingPoolIdx, o) /\ PendingPoolIdx' = o
        /\ ActivePoolIdx' = ActivePoolIdx
    BY <1>3 DEF MoveToPending
  <2>2. /\ NextIndex' \in [ObjIdx -> Link] /\ DOMAIN NextIndex' = DOMAIN NextIndex
        /\ \A x \in ObjIdx \ {o} : NextIndex'[x] = NextIndex[x]
    BY <2>1 DEF PushNext
  <2>3. /\ Chain(NextIndex', PendingPoolIdx') = Chain(NextIndex, PendingPoolIdx) \cup {o}
        /\ WellFormed(NextIndex', PendingPoolIdx')
    BY <1>1, <2>1, PushChain
  <2>4. /\ Chain(NextIndex', f) = Chain(NextIndex, f) /\ WellFormed(NextIndex', f)
        /\ Chain(NextIndex', ActivePoolIdx) = Chain(NextIndex, ActivePoolIdx)
        /\ WellFormed(NextIndex', ActivePoolIdx)
    BY <1>1, <2>2, ChainClosed, ChainLocal
  <2>. QED  BY <1>2, <1>3, <2>1, <2>2, <2>3, <2>4
<1>4. CASE ~Busy(r) /\ MoveToActive(t, o, r)
  <2>1. NextIndex' = PushNext(NextIndex, ActivePoolIdx, o) /\ ActivePoolIdx' = o
        /\ PendingPoolIdx' = PendingPoolIdx
    BY <1>4 DEF MoveToActive
  <2>2. /\ NextIndex' \in [ObjIdx -> Link] /\ DOMAIN NextIndex' = DOMAIN NextIndex
        /\ \A x \in ObjIdx \ {o} : NextIndex'[x] = NextIndex[x]
    BY <2>1 DEF PushNext
  <2>3. /\ Chain(NextIndex', ActivePoolIdx') = Chain(NextIndex, ActivePoolIdx) \cup {o}
        /\ WellFormed(NextIndex', ActivePoolIdx')
    BY <1>1, <2>1, PushChain
  <2>4. /\ Chain(NextIndex', f) = Chain(NextIndex, f) /\ WellFormed(NextIndex', f)
        /\ Chain(NextIndex', PendingPoolIdx) = Chain(NextIndex, PendingPoolIdx)
        /\ WellFormed(NextIndex', PendingPoolIdx)
    BY <1>1, <2>2, ChainClosed, ChainLocal
  <2>. QED  BY <1>2, <1>4, <2>1, <2>2, <2>3, <2>4
<1>. QED  BY <1>3, <1>4 DEF PendOrActivate

\* Taking the head of the free list.
LEMMA PopChain ==
  ASSUME NEW nx \in [ObjIdx -> Link], NEW head \in ObjIdx, WellFormed(nx, head)
  PROVE  /\ Chain(nx, nx[head]) = Chain(nx, head) \ {head}
         /\ WellFormed(nx, nx[head])
         /\ head \in Chain(nx, head)
<1>1. DOMAIN nx = ObjIdx /\ nx = [x \in DOMAIN nx |-> nx[x]] /\ head \in Chain(nx, head)
  BY ChainClosed
<1>2. Nil \notin DOMAIN nx /\ \A x \in DOMAIN nx : nx[x] \in DOMAIN nx \cup {Nil}
  BY <1>1, IndexFacts
<1>3. RemoveNext(nx, head, head, Nil) = nx /\ RemoveHead(nx, head, head, Nil) = nx[head]
  BY DEF RemoveNext, RemoveHead
<1>. QED  BY <1>1, <1>2, <1>3, RemoveChain

\* A call gets a free object, and the socket if it is idle.
LEMMA WaitForPoolObjIInv ==
  ASSUME IInv, NEW t \in Task, NEW r \in Request, WaitForPoolObj(t, r)
  PROVE  IInv'
<1>. DEFINE o == FreePoolIdx
            s == IF Busy(r) THEN "pending" ELSE "active"
<1>. USE DEF IInv
<1>1. /\ pc[t] = "idle" /\ calls[t] < MaxCalls /\ o # Nil
      /\ FreePoolIdx' = NextIndex[o]
      /\ ActionID' = [ActionID EXCEPT ![o] = r.ActionID]
      /\ AdditionalData' = IF r.SocketID < SL_MAX_SOCKETS
                           THEN [AdditionalData EXCEPT ![o] = r.SocketID] ELSE AdditionalData
      /\ PendOrActivate(t, o, r)
      /\ obj' = [obj EXCEPT ![t] = o]
      /\ req' = [req EXCEPT ![t] = r]
      /\ resp' = [resp EXCEPT ![t] = NoEvent]
      /\ calls' = [calls EXCEPT ![t] = @ + 1]
      /\ UNCHANGED <<FamilyBit, pRespArgs, SyncObj, nwp, rx>>
  BY DEF WaitForPoolObj
<1>2. /\ pc' = [pc EXCEPT ![t] = s]
      /\ ActiveActionsBitmap' =
           IF Busy(r) THEN ActiveActionsBitmap
           ELSE ActiveActionsBitmap \cup {Bit(r.ActionID, r.SocketID)}
  BY <1>1 DEF PendOrActivate, MoveToPending, MoveToActive
<1>3. o \in ObjIdx /\ r \in AnyRequest
  BY <1>1, IndexFacts, PoolAssumption DEF TypeOK
<1>4. /\ r.ActionID \in ActionIDs /\ r.SocketID \in SocketIDs \cup {SL_MAX_SOCKETS}
      /\ Bit(r.ActionID, r.SocketID) \in SocketIDs \cup ActionIDs
  BY <1>3, RequestFacts
<1>5. /\ o \in FreeObjs /\ Chain(NextIndex, NextIndex[o]) = FreeObjs \ {o}
      /\ WellFormed(NextIndex, NextIndex[o])
  BY <1>3, PopChain DEF PoolPartition, ListsWellFormed, TypeOK
<1>6. \A u \in Task : ~Idle(u) => obj[u] # o
  BY <1>5 DEF FreeObjs
<1>7. /\ NextIndex' \in [ObjIdx -> Link]
      /\ PendingPoolIdx' \in Link /\ ActivePoolIdx' \in Link
      /\ Chain(NextIndex', FreePoolIdx') = FreeObjs \ {o}
      /\ WellFormed(NextIndex', FreePoolIdx')
      /\ WellFormed(NextIndex', PendingPoolIdx') /\ WellFormed(NextIndex', ActivePoolIdx')
      /\ Chain(NextIndex', PendingPoolIdx') = PendingObjs \cup (IF Busy(r) THEN {o} ELSE {})
      /\ Chain(NextIndex', ActivePoolIdx') = ActiveObjs \cup (IF Busy(r) THEN {} ELSE {o})
  <2>1. o \notin Chain(NextIndex, PendingPoolIdx) /\ o \notin Chain(NextIndex, ActivePoolIdx)
    BY <1>6 DEF PoolPartition, PendingObjs, ActiveObjs, Idle, Queued, Holding
  <2>2. o \notin Chain(NextIndex, NextIndex[o])
    BY <1>5
  <2>. QED  BY <1>1, <1>3, <1>5, <2>1, <2>2, PendOrActivateLists DEF TypeOK, ListsWellFormed, PoolPartition
<1>8. /\ pc'[t] = s /\ obj'[t] = o /\ req'[t] = r /\ resp'[t] = NoEvent
      /\ \A u \in Task : u # t => /\ pc'[u] = pc[u] /\ obj'[u] = obj[u]
                                  /\ req'[u] = req[u] /\ resp'[u] = resp[u]
  BY <1>1, <1>2 DEF TypeOK
<1>9. TypeOK'
  <2>1. calls' \in [Task -> 0 .. MaxCalls]
    BY <1>1, PoolAssumption DEF TypeOK
  <2>2. FreePoolIdx' \in Link
    BY <1>1, <1>3 DEF TypeOK
  <2>3. /\ ActionID' \in [ObjIdx -> ActionIDs \cup {0}]
        /\ AdditionalData' \in [ObjIdx -> SocketIDs \cup {SL_MAX_SOCKETS}]
        /\ FamilyBit' \in [ObjIdx -> BOOLEAN]
        /\ pRespArgs' \in [ObjIdx -> Task \cup {NoTask}]
        /\ SyncObj' \in [ObjIdx -> BOOLEAN]
        /\ ActiveActionsBitmap' \subseteq SocketIDs \cup ActionIDs
    BY <1>1, <1>2, <1>4 DEF TypeOK
  <2>4. /\ pc' \in [Task -> {"idle", "pending", "retry", "active", "command", "wait", "release"}]
        /\ obj' \in [Task -> Link]
        /\ req' \in [Task -> AnyRequest \cup {NoRequest}]
        /\ resp' \in [Task -> Event \cup {NoEvent}]
        /\ nwp' \subseteq Event
        /\ rx' \in [evt : Event \cup {NoEvent}, idx : Link, wild : BOOLEAN, busy : BOOLEAN]
    BY <1>1, <1>2, <1>3 DEF TypeOK
  <2>5. \A u \in Task : ~Idle(u)' => obj'[u] \in ObjIdx /\ req'[u] \in AnyRequest
    BY <1>3, <1>8 DEF TypeOK, Idle
  <2>. QED  BY <1>7, <2>1, <2>2, <2>3, <2>4, <2>5 DEF TypeOK, Idle
<1>10. ~SyncObj[o]
  BY <1>5 DEF NoStaleSignal
<1>11. PoolPartition' /\ ListsWellFormed' /\ FreeObjs' = FreeObjs \ {o}
  <2>1. FreeObjs' = FreeObjs \ {o}
    BY <1>1, <1>8, <1>5 DEF FreeObjs, Idle
  <2>2. PendingObjs' = PendingObjs \cup (IF Busy(r) THEN {o} ELSE {})
    BY <1>1, <1>8, <1>10 DEF PendingObjs, Queued
  <2>3. ActiveObjs' = ActiveObjs \cup (IF Busy(r) THEN {} ELSE {o})
    BY <1>1, <1>8 DEF ActiveObjs, Holding
  <2>4. \A u, v \in Task : ~Idle(u)' /\ ~Idle(v)' /\ u # v => obj'[u] # obj'[v]
    BY <1>6, <1>8, OwnObject DEF Idle
  <2>. QED  BY <1>7, <2>1, <2>2, <2>3, <2>4 DEF PoolPartition, ListsWellFormed
<1>12. FieldsMatch'
  <2>1. AdditionalData[o] = SL_MAX_SOCKETS
    BY <1>5 DEF FieldsMatch
  <2>2. ActionID'[o] = r.ActionID /\ AdditionalData'[o] = r.SocketID
    BY <1>1, <1>3, <1>4, <2>1, PoolAssumption DEF TypeOK, SocketIDs
  <2>3. \A x \in ObjIdx \ {o} : ActionID'[x] = ActionID[x] /\ AdditionalData'[x] = AdditionalData[x]
    BY <1>1 DEF TypeOK
  <2>4. \A u \in Task : u # t /\ ~Idle(u) => obj[u] \in ObjIdx \ {o}
    BY <1>6, CallFacts
  <2>. QED  BY <1>8, <1>11, <2>2, <2>3, <2>4 DEF FieldsMatch, Idle, FreeObjs
<1>13. BitsHeld'
  BY <1>2, <1>8 DEF BitsHeld, Holding, TaskBit
<1>14. Exclusive'
  <2>1. \A u \in Task : ~Busy(r) /\ Holding(u) => TaskBit(u) # Bit(r.ActionID, r.SocketID)
    BY DEF Busy, BitsHeld
  <2>. QED  BY <1>8, <2>1 DEF Exclusive, Holding, TaskBit
<1>15. NoStaleSignal'
  BY <1>1, <1>8, <1>10, <1>11 DEF NoStaleSignal
<1>16. BuffersSet' /\ NotYetAnswered' /\ AnswerIsForCaller' /\ NoWildHandler'
  BY <1>1, <1>8 DEF BuffersSet, NotYetAnswered, AnswerIsForCaller, NoWildHandler
<1>17. EventsAwaited' /\ RxAwaited'
  <2>1. \A u \in Task : Unanswered(u) => u # t /\ Unanswered(u)' /\ req'[u] = req[u] /\ obj'[u] = obj[u]
    BY <1>1, <1>8 DEF Unanswered
  <2>. QED  BY <1>1, <2>1 DEF EventsAwaited, RxAwaited
<1>. QED  BY <1>9, <1>11, <1>12, <1>13, <1>14, <1>15, <1>16, <1>17

\* A woken call repeats the loop test.
LEMMA RetryPoolObjIInv ==
  ASSUME IInv, NEW t \in Task, RetryPoolObj(t)
  PROVE  IInv'
<1>. DEFINE o == obj[t]
            r == req[t]
            s == IF Busy(r) THEN "pending" ELSE "active"
<1>. USE DEF IInv
<1>1. /\ pc[t] = "retry" /\ PendOrActivate(t, o, r)
      /\ UNCHANGED <<ActionID, AdditionalData, FamilyBit, pRespArgs, SyncObj,
                     FreePoolIdx, obj, req, resp, calls, nwp, rx>>
  BY DEF RetryPoolObj
<1>2. /\ pc' = [pc EXCEPT ![t] = s]
      /\ ActiveActionsBitmap' =
           IF Busy(r) THEN ActiveActionsBitmap
           ELSE ActiveActionsBitmap \cup {Bit(r.ActionID, r.SocketID)}
  BY <1>1 DEF PendOrActivate, MoveToPending, MoveToActive
<1>3. o \in ObjIdx /\ r \in AnyRequest /\ ~SyncObj[o]
  BY <1>1, CallFacts DEF Idle, NoStaleSignal
<1>4. Bit(r.ActionID, r.SocketID) \in SocketIDs \cup ActionIDs
  BY <1>3, RequestFacts
<1>5. /\ NextIndex' \in [ObjIdx -> Link]
      /\ PendingPoolIdx' \in Link /\ ActivePoolIdx' \in Link
      /\ Chain(NextIndex', FreePoolIdx') = FreeObjs
      /\ WellFormed(NextIndex', FreePoolIdx')
      /\ WellFormed(NextIndex', PendingPoolIdx') /\ WellFormed(NextIndex', ActivePoolIdx')
      /\ Chain(NextIndex', PendingPoolIdx') = PendingObjs \cup (IF Busy(r) THEN {o} ELSE {})
      /\ Chain(NextIndex', ActivePoolIdx') = ActiveObjs \cup (IF Busy(r) THEN {} ELSE {o})
  <2>1. \A u \in Task : Queued(u) \/ Holding(u) => obj[u] # o
    BY <1>1, OwnObject DEF Idle, Queued, Holding
  <2>2. o \notin Chain(NextIndex, PendingPoolIdx) /\ o \notin Chain(NextIndex, ActivePoolIdx)
    BY <2>1 DEF PoolPartition, PendingObjs, ActiveObjs
  <2>3. o \notin Chain(NextIndex, FreePoolIdx)
    BY <1>1 DEF PoolPartition, FreeObjs, Idle
  <2>. QED  BY <1>1, <1>3, <2>2, <2>3, PendOrActivateLists DEF TypeOK, ListsWellFormed, PoolPartition
<1>6. pc'[t] = s /\ \A u \in Task : u # t => pc'[u] = pc[u]
  BY <1>2 DEF TypeOK
<1>7. TypeOK'
  <2>1. /\ pc' \in [Task -> {"idle", "pending", "retry", "active", "command", "wait", "release"}]
        /\ ActiveActionsBitmap' \subseteq SocketIDs \cup ActionIDs
    BY <1>2, <1>4 DEF TypeOK
  <2>2. \A u \in Task : ~Idle(u)' => obj'[u] \in ObjIdx /\ req'[u] \in AnyRequest
    BY <1>1, <1>3, <1>6 DEF TypeOK, Idle
  <2>. QED  BY <1>1, <1>5, <2>1, <2>2 DEF TypeOK, Idle
<1>8. PoolPartition' /\ ListsWellFormed' /\ FreeObjs' = FreeObjs
  <2>1. FreeObjs' = FreeObjs
    BY <1>1, <1>6 DEF FreeObjs, Idle
  <2>2. PendingObjs' = PendingObjs \cup (IF Busy(r) THEN {o} ELSE {})
    BY <1>1, <1>3, <1>6 DEF PendingObjs, Queued
  <2>3. ActiveObjs' = ActiveObjs \cup (IF Busy(r) THEN {} ELSE {o})
    BY <1>1, <1>6 DEF ActiveObjs, Holding
  <2>4. \A u, v \in Task : ~Idle(u)' /\ ~Idle(v)' /\ u # v => obj'[u] # obj'[v]
    BY <1>1, <1>6, OwnObject DEF Idle
  <2>. QED  BY <1>5, <2>1, <2>2, <2>3, <2>4 DEF PoolPartition, ListsWellFormed
<1>9. FieldsMatch'
  BY <1>1, <1>6, <1>8 DEF FieldsMatch, Idle
<1>10. BitsHeld'
  BY <1>1, <1>2, <1>6 DEF BitsHeld, Holding, TaskBit
<1>11. Exclusive'
  <2>1. \A u \in Task : ~Busy(r) /\ Holding(u) => TaskBit(u) # TaskBit(t)
    BY DEF Busy, BitsHeld, TaskBit
  <2>. QED  BY <1>1, <1>6, <2>1 DEF Exclusive, Holding, TaskBit
<1>12. NoStaleSignal'
  BY <1>1, <1>3, <1>6, <1>8 DEF NoStaleSignal
<1>13. BuffersSet' /\ NotYetAnswered' /\ AnswerIsForCaller' /\ NoWildHandler'
  BY <1>1, <1>6 DEF BuffersSet, NotYetAnswered, AnswerIsForCaller, NoWildHandler
<1>14. EventsAwaited' /\ RxAwaited'
  <2>1. \A u \in Task : Unanswered(u) => Unanswered(u)'
    BY <1>1, <1>6 DEF Unanswered
  <2>. QED  BY <1>1, <2>1 DEF EventsAwaited, RxAwaited
<1>. QED  BY <1>7, <1>8, <1>9, <1>10, <1>11, <1>12, <1>13, <1>14

\* _SlDrvReleasePoolObj moves the object from the active to the free list
\* and leaves the pending list alone.
LEMMA ReturnToFreeLists ==
  ASSUME NEW nx \in [ObjIdx -> Link], NEW o, NEW p,
         FreePoolIdx \in Link, ActivePoolIdx \in ObjIdx,
         o \in Chain(nx, ActivePoolIdx),
         WellFormed(nx, FreePoolIdx), WellFormed(nx, p), WellFormed(nx, ActivePoolIdx),
         Chain(nx, FreePoolIdx) \cap Chain(nx, ActivePoolIdx) = {},
         Chain(nx, p) \cap Chain(nx, ActivePoolIdx) = {},
         ReturnToFree(o, nx)
  PROVE  /\ NextIndex' \in [ObjIdx -> Link]
         /\ FreePoolIdx' \in Link /\ ActivePoolIdx' \in Link
         /\ Chain(NextIndex', FreePoolIdx') = Chain(nx, FreePoolIdx) \cup {o}
         /\ Chain(NextIndex', ActivePoolIdx') = Chain(nx, ActivePoolIdx) \ {o}
         /\ Chain(NextIndex', p) = Chain(nx, p)
         /\ WellFormed(NextIndex', FreePoolIdx') /\ WellFormed(NextIndex', ActivePoolIdx')
         /\ WellFormed(NextIndex', p)
<1>. DEFINE ny == RemoveNext(nx, ActivePoolIdx, o, Nil)
            nh == RemoveHead(nx, ActivePoolIdx, o, Nil)
<1>1. ActivePoolIdx' = nh /\ NextIndex' = PushNext(ny, FreePoolIdx, o) /\ FreePoolIdx' = o
  BY DEF ReturnToFree
<1>2. DOMAIN nx = ObjIdx /\ nx = [x \in DOMAIN nx |-> nx[x]]
  OBVIOUS
<1>3. Nil \notin DOMAIN nx /\ \A x \in DOMAIN nx : nx[x] \in DOMAIN nx \cup {Nil}
  BY <1>2, IndexFacts
<1>4. /\ Chain(ny, nh) = Chain(nx, ActivePoolIdx) \ {o}
      /\ WellFormed(ny, nh)
      /\ nh \in DOMAIN nx \cup {Nil}
      /\ DOMAIN ny = DOMAIN nx
      /\ ny = [x \in DOMAIN nx |-> ny[x]]
      /\ \A x \in DOMAIN nx \ Chain(nx, ActivePoolIdx) : ny[x] = nx[x]
      /\ \A x \in DOMAIN nx : ny[x] \in DOMAIN nx \cup {Nil}
  BY <1>2, <1>3, RemoveChain
<1>. HIDE DEF ny, nh
<1>5. /\ Chain(ny, FreePoolIdx) = Chain(nx, FreePoolIdx) /\ WellFormed(ny, FreePoolIdx)
      /\ Chain(ny, p) = Chain(nx, p) /\ WellFormed(ny, p)
  <2>1. Chain(nx, FreePoolIdx) \subseteq DOMAIN nx /\ Chain(nx, p) \subseteq DOMAIN nx
    BY ChainClosed
  <2>2. \A x \in Chain(nx, FreePoolIdx) : ny[x] = nx[x]
    BY <1>4, <2>1
  <2>3. \A x \in Chain(nx, p) : ny[x] = nx[x]
    BY <1>4, <2>1
  <2>. QED  BY <1>4, <2>2, <2>3, ChainLocal
<1>6. o \in ObjIdx /\ o \in DOMAIN ny /\ o \notin Chain(ny, FreePoolIdx)
      /\ o \notin Chain(ny, p) /\ o \notin Chain(ny, nh)
  BY <1>2, <1>4, <1>5, ChainClosed
<1>7. /\ Chain(NextIndex', o) = Chain(ny, FreePoolIdx) \cup {o}
      /\ WellFormed(NextIndex', o)
  BY <1>1, <1>4, <1>5, <1>6, PushChain
<1>8. /\ NextIndex' \in [ObjIdx -> Link] /\ DOMAIN NextIndex' = DOMAIN ny
      /\ \A x \in DOMAIN ny \ {o} : NextIndex'[x] = ny[x]
  <2>1. ny \in [ObjIdx -> Link]
    BY <1>2, <1>4, IndexFacts
  <2>. QED  BY <1>1, <1>6, <2>1 DEF PushNext
<1>9. /\ Chain(NextIndex', nh) = Chain(ny, nh) /\ WellFormed(NextIndex', nh)
      /\ Chain(NextIndex', p) = Chain(ny, p) /\ WellFormed(NextIndex', p)
  <2>1. Chain(ny, nh) \subseteq DOMAIN ny /\ Chain(ny, p) \subseteq DOMAIN ny
    BY ChainClosed
  <2>. QED  BY <1>4, <1>5, <1>6, <1>8, <2>1, ChainLocal
<1>. QED  BY <1>1, <1>2, <1>4, <1>5, <1>6, <1>7, <1>8, <1>9, IndexFacts

\* What _SlDrvReleasePoolObj does to the pending list: it takes at most one
\* object off it, signals that one, and leaves the other lists alone.
LEMMA ReleaseServesPending ==
  ASSUME IInv, NEW o, ReleaseNoWake(o) \/ ReleaseAndWake(o)
  PROVE  \E W \in SUBSET PendingObjs, nx \in [ObjIdx -> Link] :
           /\ ReturnToFree(o, nx)
           /\ PendingPoolIdx' \in Link
           /\ SyncObj' = [x \in ObjIdx |-> x \in W \/ SyncObj[x]]
           /\ Chain(nx, PendingPoolIdx') = PendingObjs \ W
           /\ Chain(nx, FreePoolIdx) = FreeObjs
           /\ Chain(nx, ActivePoolIdx) = ActiveObjs
           /\ WellFormed(nx, PendingPoolIdx')
           /\ WellFormed(nx, FreePoolIdx) /\ WellFormed(nx, ActivePoolIdx)
<1>. USE DEF IInv
<1>1. CASE ReleaseNoWake(o)
  <2>1. ReturnToFree(o, NextIndex) /\ PendingPoolIdx' = PendingPoolIdx /\ SyncObj' = SyncObj
    BY <1>1 DEF ReleaseNoWake
  <2>2. SyncObj' = [x \in ObjIdx |-> x \in {} \/ SyncObj[x]]
    BY <2>1 DEF TypeOK
  <2>3. NextIndex \in [ObjIdx -> Link] /\ {} \in SUBSET PendingObjs
    BY DEF TypeOK
  <2>4. /\ PendingPoolIdx' \in Link
        /\ Chain(NextIndex, PendingPoolIdx') = PendingObjs \ {}
        /\ Chain(NextIndex, FreePoolIdx) = FreeObjs
        /\ Chain(NextIndex, ActivePoolIdx) = ActiveObjs
        /\ WellFormed(NextIndex, PendingPoolIdx')
        /\ WellFormed(NextIndex, FreePoolIdx) /\ WellFormed(NextIndex, ActivePoolIdx)
    BY <2>1 DEF PoolPartition, ListsWellFormed, TypeOK
  <2>. QED  BY <2>1, <2>2, <2>3, <2>4
<1>2. CASE ReleaseAndWake(o)
  <2>1. PICK p \in FirstOf(NextIndex, PendingPoolIdx, Wakeable(o)) :
          /\ ReturnToFree(o, RemoveNext(NextIndex, PendingPoolIdx, p, Nil))
          /\ PendingPoolIdx' = RemoveHead(NextIndex, PendingPoolIdx, p, Nil)
          /\ SyncObj' = [SyncObj EXCEPT ![p] = TRUE]
    BY <1>2 DEF ReleaseAndWake
  <2>. DEFINE nx == RemoveNext(NextIndex, PendingPoolIdx, p, Nil)
              nh == RemoveHead(NextIndex, PendingPoolIdx, p, Nil)
              C == Chain(NextIndex, PendingPoolIdx)
  <2>2. p \in C /\ p \in ObjIdx /\ p \in PendingObjs
    BY <2>1 DEF FirstOf, Wakeable, PoolPartition
  <2>3. DOMAIN NextIndex = ObjIdx /\ NextIndex = [x \in DOMAIN NextIndex |-> NextIndex[x]]
    BY DEF TypeOK
  <2>4. PendingPoolIdx \in ObjIdx
    BY <2>2, <2>3 DEF Chain
  <2>5. Nil \notin DOMAIN NextIndex /\ \A x \in DOMAIN NextIndex : NextIndex[x] \in DOMAIN NextIndex \cup {Nil}
    BY <2>3, IndexFacts DEF TypeOK
  <2>6. /\ Chain(nx, nh) = C \ {p}
        /\ WellFormed(nx, nh)
        /\ nh \in DOMAIN NextIndex \cup {Nil}
        /\ DOMAIN nx = DOMAIN NextIndex
        /\ nx = [x \in DOMAIN NextIndex |-> nx[x]]
        /\ \A x \in DOMAIN NextIndex \ C : nx[x] = NextIndex[x]
        /\ \A x \in DOMAIN NextIndex : nx[x] \in DOMAIN NextIndex \cup {Nil}
    BY <2>2, <2>3, <2>4, <2>5, RemoveChain DEF ListsWellFormed
  <2>. HIDE DEF nx, nh
  <2>7. C = PendingObjs /\ Chain(NextIndex, FreePoolIdx) = FreeObjs
        /\ Chain(NextIndex, ActivePoolIdx) = ActiveObjs
    BY DEF PoolPartition
  <2>8. FreeObjs \cap PendingObjs = {} /\ ActiveObjs \cap PendingObjs = {}
    BY OwnObject DEF FreeObjs, PendingObjs, ActiveObjs, Idle, Queued, Holding
  <2>9. /\ Chain(nx, FreePoolIdx) = FreeObjs /\ WellFormed(nx, FreePoolIdx)
        /\ Chain(nx, ActivePoolIdx) = ActiveObjs /\ WellFormed(nx, ActivePoolIdx)
    <3>1. /\ Chain(NextIndex, FreePoolIdx) \subseteq DOMAIN NextIndex
          /\ Chain(NextIndex, ActivePoolIdx) \subseteq DOMAIN NextIndex
      BY ChainClosed
    <3>. QED  BY <2>6, <2>7, <2>8, <3>1, ChainLocal DEF ListsWellFormed
  <2>10. nx \in [ObjIdx -> Link] /\ nh \in Link
    BY <2>3, <2>6, IndexFacts
  <2>11. SyncObj' = [x \in ObjIdx |-> x \in {p} \/ SyncObj[x]]
    BY <2>1, <2>2 DEF TypeOK
  <2>12. {p} \in SUBSET PendingObjs /\ ReturnToFree(o, nx) /\ PendingPoolIdx' = nh
    BY <2>1, <2>2 DEF nx, nh
  <2>. QED  BY <2>6, <2>7, <2>9, <2>10, <2>11, <2>12
<1>. QED  BY <1>1, <1>2

\* A call releases its object and with it the socket or action.
LEMMA ReleasePoolObjIInv ==
  ASSUME IInv, NEW t \in Task, ReleasePoolObj(t)
  PROVE  IInv'
<1>. DEFINE o == obj[t]
<1>. USE DEF IInv
<1>1. /\ pc[t] = "release" /\ (ReleaseNoWake(o) \/ ReleaseAndWake(o))
      /\ pc' = [pc EXCEPT ![t] = "idle"]
      /\ UNCHANGED <<obj, req, resp, calls, nwp, rx>>
  BY DEF ReleasePoolObj
<1>2. o \in ObjIdx /\ req[t] \in AnyRequest /\ ~SyncObj[o]
  BY <1>1, CallFacts DEF Idle, NoStaleSignal
<1>3. PICK W \in SUBSET PendingObjs, nx \in [ObjIdx -> Link] :
           /\ ReturnToFree(o, nx)
           /\ PendingPoolIdx' \in Link
           /\ SyncObj' = [x \in ObjIdx |-> x \in W \/ SyncObj[x]]
           /\ Chain(nx, PendingPoolIdx') = PendingObjs \ W
           /\ Chain(nx, FreePoolIdx) = FreeObjs
           /\ Chain(nx, ActivePoolIdx) = ActiveObjs
           /\ WellFormed(nx, PendingPoolIdx')
           /\ WellFormed(nx, FreePoolIdx) /\ WellFormed(nx, ActivePoolIdx)
  BY <1>1, ReleaseServesPending
<1>4. /\ ActiveActionsBitmap' = ActiveActionsBitmap \ {Bit(ActionID[o], AdditionalData[o])}
      /\ pRespArgs' = [pRespArgs EXCEPT ![o] = NoTask]
      /\ ActionID' = [ActionID EXCEPT ![o] = 0]
      /\ AdditionalData' = [AdditionalData EXCEPT ![o] = SL_MAX_SOCKETS]
      /\ FamilyBit' = [FamilyBit EXCEPT ![o] = FALSE]
  BY <1>3 DEF ReturnToFree
<1>5. \A u \in Task : ~Idle(u) /\ u # t => obj[u] # o /\ obj[u] \in ObjIdx
  BY <1>1, OwnObject, CallFacts DEF Idle
<1>6. /\ o \in ActiveObjs
      /\ FreeObjs \cap ActiveObjs = {} /\ PendingObjs \cap ActiveObjs = {}
      /\ FreeObjs \cap PendingObjs = {} /\ o \notin PendingObjs
  BY <1>1, OwnObject DEF FreeObjs, PendingObjs, ActiveObjs, Idle, Queued, Holding
<1>7. /\ NextIndex' \in [ObjIdx -> Link]
      /\ FreePoolIdx' \in Link /\ ActivePoolIdx' \in Link
      /\ Chain(NextIndex', FreePoolIdx') = FreeObjs \cup {o}
      /\ Chain(NextIndex', ActivePoolIdx') = ActiveObjs \ {o}
      /\ Chain(NextIndex', PendingPoolIdx') = PendingObjs \ W
      /\ WellFormed(NextIndex', FreePoolIdx') /\ WellFormed(NextIndex', ActivePoolIdx')
      /\ WellFormed(NextIndex', PendingPoolIdx')
  <2>1. ActivePoolIdx \in ObjIdx /\ FreePoolIdx \in Link
    BY <1>3, <1>6 DEF Chain, TypeOK
  <2>. QED  BY <1>3, <1>6, <2>1, ReturnToFreeLists
<1>8. pc'[t] = "idle" /\ \A u \in Task : u # t => pc'[u] = pc[u]
  BY <1>1 DEF TypeOK
<1>9. \A u \in Task : ~Idle(u) /\ u # t => /\ ActionID'[obj[u]] = ActionID[obj[u]]
                                           /\ AdditionalData'[obj[u]] = AdditionalData[obj[u]]
                                           /\ pRespArgs'[obj[u]] = pRespArgs[obj[u]]
                                           /\ SyncObj'[obj[u]] <=> obj[u] \in W \/ SyncObj[obj[u]]
  BY <1>3, <1>4, <1>5 DEF TypeOK
<1>10. \A u \in Task : ~Idle(u) /\ ~Queued(u) => obj[u] \notin W
  BY <1>3, OwnObject DEF PendingObjs, Idle, Queued
<1>11. TypeOK'
  <2>1. /\ ActionID' \in [ObjIdx -> ActionIDs \cup {0}]
        /\ AdditionalData' \in [ObjIdx -> SocketIDs \cup {SL_MAX_SOCKETS}]
        /\ FamilyBit' \in [ObjIdx -> BOOLEAN]
        /\ pRespArgs' \in [ObjIdx -> Task \cup {NoTask}]
        /\ ActiveActionsBitmap' \subseteq SocketIDs \cup ActionIDs
    BY <1>4 DEF TypeOK
  <2>2. SyncObj' \in [ObjIdx -> BOOLEAN]
    BY <1>3
  <2>3. pc' \in [Task -> {"idle", "pending", "retry", "active", "command", "wait", "release"}]
    BY <1>1 DEF TypeOK
  <2>4. \A u \in Task : ~Idle(u)' => obj'[u] \in ObjIdx /\ req'[u] \in AnyRequest
    BY <1>1, <1>8 DEF TypeOK, Idle
  <2>. QED  BY <1>1, <1>3, <1>7, <2>1, <2>2, <2>3, <2>4 DEF TypeOK, Idle
<1>12. PoolPartition' /\ ListsWellFormed' /\ FreeObjs' = FreeObjs \cup {o}
  <2>1. FreeObjs' = FreeObjs \cup {o}
    BY <1>1, <1>2, <1>5, <1>8 DEF FreeObjs, Idle
  <2>2. PendingObjs' = PendingObjs \ W
    <3>1. \A u \in Task : Queued(u)' <=> Queued(u) /\ obj[u] \notin W
      BY <1>1, <1>8, <1>9 DEF Queued, Idle
    <3>. QED  BY <1>1, <3>1, OwnObject DEF PendingObjs, Queued, Idle
  <2>3. ActiveObjs' = ActiveObjs \ {o}
    <3>1. \A u \in Task : Holding(u)' <=> Holding(u) /\ u # t
      BY <1>8 DEF Holding
    <3>. QED  BY <1>1, <1>5, <3>1 DEF ActiveObjs, Holding, Idle
  <2>4. \A u, v \in Task : ~Idle(u)' /\ ~Idle(v)' /\ u # v => obj'[u] # obj'[v]
    BY <1>1, <1>8, OwnObject DEF Idle
  <2>. QED  BY <1>7, <2>1, <2>2, <2>3, <2>4 DEF PoolPartition, ListsWellFormed
<1>13. FieldsMatch'
  <2>1. \A x \in FreeObjs \cup {o} : AdditionalData'[x] = SL_MAX_SOCKETS
    BY <1>2, <1>4 DEF FieldsMatch, TypeOK, FreeObjs
  <2>. QED  BY <1>1, <1>8, <1>9, <1>12, <2>1 DEF FieldsMatch, Idle
<1>14. BitsHeld'
  <2>1. Bit(ActionID[o], AdditionalData[o]) = TaskBit(t)
    BY <1>1 DEF FieldsMatch, TaskBit, Idle
  <2>2. \A u \in Task : Holding(u) /\ u # t => TaskBit(u) # TaskBit(t)
    BY <1>1 DEF Exclusive, Holding
  <2>. QED  BY <1>1, <1>4, <1>8, <2>1, <2>2 DEF BitsHeld, Holding, TaskBit
<1>15. Exclusive'
  BY <1>1, <1>8 DEF Exclusive, Holding, TaskBit
<1>16. NoStaleSignal'
  <2>1. \A x \in FreeObjs \cup {o} : ~SyncObj'[x]
    BY <1>2, <1>3, <1>6 DEF NoStaleSignal, FreeObjs
  <2>2. \A u \in Task : u # t /\ pc[u] \in {"retry", "active", "command", "release"} => ~SyncObj'[obj[u]]
    BY <1>9, <1>10 DEF NoStaleSignal, Idle, Queued
  <2>. QED  BY <1>1, <1>8, <1>12, <2>1, <2>2 DEF NoStaleSignal
<1>17. BuffersSet' /\ NotYetAnswered' /\ NoWildHandler'
  BY <1>1, <1>8, <1>9 DEF BuffersSet, NotYetAnswered, NoWildHandler, Idle
<1>18. AnswerIsForCaller'
  BY <1>1, <1>8, <1>9, <1>10 DEF AnswerIsForCaller, Idle, Queued
<1>19. EventsAwaited' /\ RxAwaited'
  <2>1. \A u \in Task : Unanswered(u) => Unanswered(u)'
    BY <1>1, <1>8, <1>9, <1>10 DEF Unanswered, Idle, Queued
  <2>. QED  BY <1>1, <2>1 DEF EventsAwaited, RxAwaited
<1>. QED  BY <1>11, <1>12, <1>13, <1>14, <1>15, <1>16, <1>17, <1>18, <1>19

-----------------------------------------------------------------------------
\* Every step of the pool preserves the inductive invariant.
LEMMA NextIInv == IInv /\ [Next]_vars => IInv'
<1>. SUFFICES ASSUME IInv, [Next]_vars PROVE IInv'
  OBVIOUS
<1>1. ASSUME NEW t \in Task, Call(t) PROVE IInv'
  BY <1>1, PoolIsEmptyIInv, WaitForPoolObjIInv DEF Call
<1>2. ASSUME NEW t \in Task, TaskStep(t) PROVE IInv'
  BY <1>2, WokenFromPendingIInv, RetryPoolObjIInv, SetRespArgsIInv, CommandAcceptedIInv,
     CommandRefusedIInv, WokenByAnswerIInv, ReleasePoolObjIInv DEF TaskStep
<1>3. CASE Answer
  BY <1>3, ReadAsyncEventIInv, ReadRecvResponseIInv DEF Answer
<1>4. CASE Handler
  BY <1>4, HandleAsyncIInv, EventDroppedIInv DEF Handler
<1>5. CASE UNCHANGED vars
  BY <1>5 DEF vars, IInv, TypeOK, PoolPartition, ListsWellFormed, FieldsMatch, BitsHeld,
     Exclusive, NoStaleSignal, BuffersSet, EventsAwaited, RxAwaited, NotYetAnswered,
     AnswerIsForCaller, NoWildHandler, FreeObjs, PendingObjs, ActiveObjs, Idle, Queued,
     Holding, TaskBit, Unanswered
<1>. QED  BY <1>1, <1>2, <1>3, <1>4, <1>5 DEF Next

\* IInv holds in every reachable state.
THEOREM Invariance == Spec => []IInv
  BY InitIInv, NextIInv, PTL DEF Spec

\* The control block and the tasks keep their types.
THEOREM TypeCorrect == Spec => []TypeOK
<1>1. IInv => TypeOK
  BY DEF IInv
<1>. QED  BY Invariance, <1>1, PTL

\* ActiveActionsBitmap does its job: no two calls are ever active on one
\* socket, nor two of one action that is not about a socket.
THEOREM MutualExclusion == Spec => []Exclusive
<1>1. IInv => Exclusive
  BY DEF IInv
<1>. QED  BY Invariance, <1>1, PTL

\* The three lists always partition the pool.
THEOREM NoObjectLost == Spec => []PoolPartition
<1>1. IInv => PoolPartition
  BY DEF IInv
<1>. QED  BY Invariance, <1>1, PTL

\* No signal of one sleep is left over for another one.
THEOREM SignalsConsumed == Spec => []NoStaleSignal
<1>1. IInv => NoStaleSignal
  BY DEF IInv
<1>. QED  BY Invariance, <1>1, PTL

\* A caller that is woken for its answer has the answer to its own request.
THEOREM AnswersDelivered == Spec => []AnswerIsForCaller
<1>1. IInv => AnswerIsForCaller
  BY DEF IInv
<1>. QED  BY Invariance, <1>1, PTL

\* No handler is taken from behind the end of the lookup table.
THEOREM HandlersFromTable == Spec => []NoWildHandler
<1>1. IInv => NoWildHandler
  BY DEF IInv
<1>. QED  BY Invariance, <1>1, PTL

\* The object of an event that is being handled still belongs to the caller
\* that asked, asleep, with its buffer registered.
THEOREM HandlersHaveCallers == Spec => []HandlerHasCaller
<1>1. IInv => HandlerHasCaller
  BY DEF IInv, HandlerHasCaller, RxAwaited, Unanswered, BuffersSet
<1>. QED  BY Invariance, <1>1, PTL
\* The walk for the answer to a receive always stops at the object of the
\* receive: its owner is active, and no other active object can match.
THEOREM ReceivesFound == Spec => []RecvFindsItsObject
<1>1. IInv => RecvFindsItsObject
  <2>1. SUFFICES ASSUME IInv, NEW e \in nwp, e.ActionID = RECV_ID, NEW wild \in Wild
                 PROVE  \E o \in FindActiveObj(e, wild) :
                          /\ ActionID[o] = RECV_ID
                          /\ AdditionalData[o] = e.SocketID
                          /\ pRespArgs[o] \in Task
    BY DEF RecvFindsItsObject
  <2>. DEFINE M == RecvMatch(e) \cup TableMatch(e, wild)
  <2>2. e # UnsolicitedEvent
    BY <2>1, UnsolicitedFacts
  <2>3. PICK t \in Task : Unanswered(t) /\ req[t] = e
    BY <2>1, <2>2 DEF IInv, EventsAwaited
  <2>4. /\ obj[t] \in ObjIdx /\ ActionID[obj[t]] = RECV_ID
        /\ AdditionalData[obj[t]] = e.SocketID /\ pRespArgs[obj[t]] = t
    BY <2>1, <2>3, CallFacts DEF IInv, FieldsMatch, BuffersSet, Unanswered, Idle
  <2>5. obj[t] \in Chain(NextIndex, ActivePoolIdx) \cap M
    BY <2>1, <2>3, <2>4 DEF IInv, PoolPartition, ActiveObjs, Holding, Unanswered, RecvMatch
  <2>6. \A x \in Chain(NextIndex, ActivePoolIdx) \cap M : x = obj[t]
    <3>1. SUFFICES ASSUME NEW x \in Chain(NextIndex, ActivePoolIdx) \cap M PROVE x = obj[t]
      OBVIOUS
    <3>2. PICK u \in Task : Unanswered(u) /\ req[u] = e /\ obj[u] = x
      BY <2>1, MatchedObject
    <3>3. Holding(t) /\ Holding(u) /\ TaskBit(t) = TaskBit(u)
      BY <2>3, <3>2 DEF Holding, Unanswered, TaskBit
    <3>. QED  BY <2>1, <3>2, <3>3 DEF IInv, Exclusive
  <2>7. obj[t] \in FindActiveObj(e, wild)
    BY <2>5, <2>6 DEF FindActiveObj, FirstOf
  <2>. QED  BY <2>4, <2>7
<1>. QED  BY Invariance, <1>1, PTL

-----------------------------------------------------------------------------
(***************************************************************************)
(* The pool implements the arbiter: every step is a step of the arbiter or *)
(* changes nothing that the arbiter shows.                                 *)
(***************************************************************************)

\* A step that keeps every call's stage, its request and its answer cannot
\* be seen by the arbiter.
LEMMA ArbiterStutter ==
  ASSUME UNCHANGED <<req, resp>>,
         \A t \in Task : ArbiterPhase(t)' = ArbiterPhase(t)
  PROVE  UNCHANGED Arbiter!avars
  BY DEF Arbiter!avars

\* A bit that is not in ActiveActionsBitmap is nobody's.
LEMMA NotBusyIsFree ==
  ASSUME IInv, NEW r, ~Busy(r)
  PROVE  Arbiter!KeyIsFree(r)
<1>1. SUFFICES ASSUME NEW c \in Task, ArbiterPhase(c) \in {"holding", "answered"}
               PROVE  TaskBit(c) # Bit(r.ActionID, r.SocketID)
  BY DEF Arbiter!KeyIsFree, Arbiter!Holders, ArbiterKey, TaskBit
<1>2. Holding(c)
  BY <1>1 DEF ArbiterPhase, Holding, IInv, TypeOK
<1>. QED  BY <1>2 DEF IInv, BitsHeld, Busy

\* A call that gets an object waits, or has its key at once.
LEMMA WaitForPoolObjArbiter ==
  ASSUME IInv, NEW t \in Task, NEW r \in Request, WaitForPoolObj(t, r)
  PROVE  Arbiter!Wait(t, r) \/ Arbiter!Enter(t, r)
<1>1. /\ pc[t] = "idle"
      /\ req' = [req EXCEPT ![t] = r]
      /\ resp' = [resp EXCEPT ![t] = NoEvent]
      /\ \/ pc' = [pc EXCEPT ![t] = "pending"]
         \/ pc' = [pc EXCEPT ![t] = "active"] /\ ~Busy(r)
  BY DEF WaitForPoolObj, PendOrActivate, MoveToPending, MoveToActive
<1>2. ArbiterPhase(t) = "idle"
  BY <1>1 DEF ArbiterPhase
<1>3. \A u \in Task : u # t => ArbiterPhase(u)' = ArbiterPhase(u)
  BY <1>1 DEF ArbiterPhase, IInv, TypeOK
<1>4. CASE pc' = [pc EXCEPT ![t] = "pending"]
  <2>1. ArbiterPhase(t)' = "waiting"
    BY <1>4 DEF ArbiterPhase, IInv, TypeOK
  <2>. QED  BY <1>1, <1>2, <1>3, <2>1 DEF Arbiter!Wait
<1>5. CASE pc' = [pc EXCEPT ![t] = "active"] /\ ~Busy(r)
  <2>1. ArbiterPhase(t)' = "holding"
    BY <1>1, <1>5 DEF ArbiterPhase, IInv, TypeOK
  <2>. QED  BY <1>1, <1>2, <1>3, <1>5, <2>1, NotBusyIsFree DEF Arbiter!Enter
<1>. QED  BY <1>1, <1>4, <1>5

\* A call that was woken finds its key free, or goes on waiting.
LEMMA RetryPoolObjArbiter ==
  ASSUME IInv, NEW t \in Task, RetryPoolObj(t)
  PROVE  Arbiter!Grant(t) \/ UNCHANGED Arbiter!avars
<1>1. /\ pc[t] = "retry" /\ UNCHANGED <<req, resp>> /\ resp[t] = NoEvent
      /\ \/ pc' = [pc EXCEPT ![t] = "pending"]
         \/ pc' = [pc EXCEPT ![t] = "active"] /\ ~Busy(req[t])
  BY DEF RetryPoolObj, PendOrActivate, MoveToPending, MoveToActive, IInv, NotYetAnswered
<1>2. ArbiterPhase(t) = "waiting"
  BY <1>1 DEF ArbiterPhase
<1>3. \A u \in Task : u # t => ArbiterPhase(u)' = ArbiterPhase(u)
  BY <1>1 DEF ArbiterPhase, IInv, TypeOK
<1>4. CASE pc' = [pc EXCEPT ![t] = "pending"]
  <2>1. ArbiterPhase(t)' = "waiting"
    BY <1>4 DEF ArbiterPhase, IInv, TypeOK
  <2>. QED  BY <1>1, <1>2, <1>3, <2>1, ArbiterStutter
<1>5. CASE pc' = [pc EXCEPT ![t] = "active"] /\ ~Busy(req[t])
  <2>1. ArbiterPhase(t)' = "holding"
    BY <1>1, <1>5 DEF ArbiterPhase, IInv, TypeOK
  <2>. QED  BY <1>1, <1>2, <1>3, <1>5, <2>1, NotBusyIsFree DEF Arbiter!Grant
<1>. QED  BY <1>1, <1>4, <1>5

\* A released object ends the call.
LEMMA ReleasePoolObjArbiter ==
  ASSUME IInv, NEW t \in Task, ReleasePoolObj(t)
  PROVE  Arbiter!Return(t)
<1>1. pc[t] = "release" /\ UNCHANGED <<req, resp>> /\ pc' = [pc EXCEPT ![t] = "idle"]
  BY DEF ReleasePoolObj
<1>2. ArbiterPhase(t) \in {"holding", "answered"} /\ ArbiterPhase(t)' = "idle"
  BY <1>1 DEF ArbiterPhase, IInv, TypeOK
<1>3. \A u \in Task : u # t => ArbiterPhase(u)' = ArbiterPhase(u)
  BY <1>1 DEF ArbiterPhase, IInv, TypeOK
<1>. QED  BY <1>1, <1>2, <1>3 DEF Arbiter!Return

\* The other steps of a call are not the arbiter's.
LEMMA TaskStepArbiter ==
  ASSUME IInv, NEW t \in Task,
         WokenFromPending(t) \/ SetRespArgs(t) \/ CommandAccepted(t) \/ CommandRefused(t)
           \/ WokenByAnswer(t)
  PROVE  UNCHANGED Arbiter!avars
<1>1. /\ UNCHANGED <<req, resp>>
      /\ \/ pc[t] = "pending" /\ pc' = [pc EXCEPT ![t] = "retry"]
         \/ pc[t] = "active" /\ pc' = [pc EXCEPT ![t] = "command"]
         \/ pc[t] = "command" /\ pc' = [pc EXCEPT ![t] = "wait"]
         \/ pc[t] \in {"command", "wait"} /\ pc' = [pc EXCEPT ![t] = "release"]
  BY DEF WokenFromPending, SetRespArgs, CommandAccepted, CommandRefused, WokenByAnswer
<1>2. \A u \in Task : u # t => ArbiterPhase(u)' = ArbiterPhase(u)
  BY <1>1 DEF ArbiterPhase, IInv, TypeOK
<1>3. ArbiterPhase(t)' = ArbiterPhase(t)
  BY <1>1 DEF ArbiterPhase, IInv, TypeOK
<1>. QED  BY <1>1, <1>2, <1>3, ArbiterStutter

\* An answer that is copied is the answer to the caller's own request.
LEMMA AnswerArbiter ==
  ASSUME IInv, NEW t \in Task, Unanswered(t), NEW o, obj[t] = o,
         resp' = [resp EXCEPT ![pRespArgs[o]] = req[t]], UNCHANGED <<pc, req>>
  PROVE  Arbiter!Reply(t)
<1>1. pRespArgs[o] = t /\ pc[t] = "wait" /\ resp[t] = NoEvent
  BY DEF IInv, BuffersSet, Unanswered
<1>2. req[t] # NoEvent
  BY <1>1, CallFacts, RequestFacts DEF IInv, Idle
<1>3. ArbiterPhase(t) = "holding" /\ ArbiterPhase(t)' = "answered"
  BY <1>1, <1>2 DEF ArbiterPhase, IInv, TypeOK
<1>4. \A u \in Task : u # t => ArbiterPhase(u)' = ArbiterPhase(u)
  BY <1>1 DEF ArbiterPhase, IInv, TypeOK
<1>. QED  BY <1>1, <1>3, <1>4 DEF Arbiter!Reply

\* Every step of the pool is a step of the arbiter or stutters.
LEMMA StepSimulation == IInv /\ [Next]_vars => [Arbiter!ANext]_Arbiter!avars
<1>. SUFFICES ASSUME IInv, [Next]_vars PROVE Arbiter!ANext \/ UNCHANGED Arbiter!avars
  OBVIOUS
<1>1. ASSUME NEW t \in Task, Call(t) PROVE Arbiter!ANext \/ UNCHANGED Arbiter!avars
  <2>1. CASE PoolIsEmpty(t)
    <3>1. UNCHANGED <<pc, req, resp>>
      BY <2>1 DEF PoolIsEmpty
    <3>. QED  BY <3>1, ArbiterStutter DEF ArbiterPhase
  <2>. QED  BY <1>1, <2>1, WaitForPoolObjArbiter DEF Call, Arbiter!ANext
<1>2. ASSUME NEW t \in Task, TaskStep(t) PROVE Arbiter!ANext \/ UNCHANGED Arbiter!avars
  BY <1>2, RetryPoolObjArbiter, ReleasePoolObjArbiter, TaskStepArbiter DEF TaskStep, Arbiter!ANext
<1>3. ASSUME NEW e \in nwp, NEW wild \in Wild, ReadRecvResponse(e, wild) PROVE Arbiter!ANext
  <2>1. PICK o \in FindActiveObj(e, wild) : resp' = [resp EXCEPT ![pRespArgs[o]] = e]
    BY <1>3 DEF ReadRecvResponse
  <2>2. PICK t \in Task : Unanswered(t) /\ req[t] = e /\ obj[t] = o
    BY FoundObject
  <2>3. UNCHANGED <<pc, req>>
    BY <1>3 DEF ReadRecvResponse
  <2>. QED  BY <2>1, <2>2, <2>3, AnswerArbiter DEF Arbiter!ANext
<1>4. CASE HandleAsync
  <2>1. PICK t \in Task : Unanswered(t) /\ req[t] = rx.evt /\ obj[t] = rx.idx
    BY <1>4 DEF HandleAsync, IInv, RxAwaited
  <2>. QED  BY <1>4, <2>1, AnswerArbiter DEF HandleAsync, Arbiter!ANext
<1>5. ASSUME UNCHANGED <<pc, req, resp>> PROVE UNCHANGED Arbiter!avars
  BY <1>5, ArbiterStutter DEF ArbiterPhase
<1>6. CASE UserEventHandler \/ HandleServiceIPv6 \/ UNCHANGED vars
  BY <1>5, <1>6 DEF UserEventHandler, HandleServiceIPv6, locals, vars
<1>7. ASSUME NEW e \in nwp, NEW wild \in Wild, ReadAsyncEvent(e, wild)
      PROVE  UNCHANGED Arbiter!avars
  BY <1>5, <1>7 DEF ReadAsyncEvent
<1>. QED  BY <1>1, <1>2, <1>3, <1>4, <1>6, <1>7 DEF Next, Answer, Handler

\* The pool is an implementation of the arbiter: a call has its socket or
\* its action alone from the grant to its return, and is given the answer to
\* its own request and to no other, whatever the order in which objects are
\* queued, woken and found.
THEOREM PoolRefinesArbiter == Spec => ImplementsArbiter
<1>1. Init => Arbiter!AInit
  BY DEF Init, Arbiter!AInit, ArbiterPhase, NoRequest
<1>. QED  BY <1>1, Invariance, StepSimulation, PTL DEF Spec, ImplementsArbiter, Arbiter!ASpec
=============================================================================
