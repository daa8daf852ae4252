------------------------------ MODULE SlDrvPool ------------------------------
(***************************************************************************)
(* The pool of action objects of the SimpleLink host driver                *)
(* (simplelink/source/driver.c) and the blocking APIs that use it.         *)
(*                                                                         *)
(* A blocking call (sl_Connect, sl_Accept, sl_Recv, sl_Select, the DNS     *)
(* queries, ping, stop) takes an object from the free list, waits until    *)
(* no other call is active on the same socket (or, for calls that are not  *)
(* about a socket, until the same action is idle), puts the object on the  *)
(* active list, sends its command to the network processor (NWP), sleeps   *)
(* on the object's SyncObj until the asynchronous answer has been copied   *)
(* to pRespArgs, and releases the object.  The SyncObj of an object is     *)
(* used for both sleeps: behind a busy socket and for the answer.          *)
(*                                                                         *)
(* Every critical section of ProtectionLockObj is one action.              *)
(***************************************************************************)
EXTENDS SlList, FiniteSets

CONSTANTS
  Task,                    \* application tasks calling the blocking APIs
  MAX_CONCURRENT_ACTIONS,  \* user.h: number of objects in the pool
  SL_MAX_SOCKETS,          \* socket.h: number of sockets
  Request,                 \* the calls the tasks may make, see AnyRequest
  MaxCalls,                \* bound: calls per task
  NoTask                   \* the NULL of pRespArgs

(***************************************************************************)
(* _SlActionID_e: sockets are numbered 0 .. SL_MAX_SOCKETS-1 and the       *)
(* actions continue the enumeration, so that both index the same bitmap.   *)
(***************************************************************************)
SocketIDs           == 0 .. (SL_MAX_SOCKETS - 1)
ACCEPT_ID           == SL_MAX_SOCKETS
CONNECT_ID          == SL_MAX_SOCKETS + 1
SELECT_ID           == SL_MAX_SOCKETS + 2
GETHOSYBYNAME_ID    == SL_MAX_SOCKETS + 3
GETHOSYBYSERVICE_ID == SL_MAX_SOCKETS + 4
PING_ID             == SL_MAX_SOCKETS + 5
START_STOP_ID       == SL_MAX_SOCKETS + 6
RECV_ID             == SL_MAX_SOCKETS + 7
ActionIDs           == ACCEPT_ID .. RECV_ID

\* Actions with an entry in _SlActionLookupTable; RECV_ID has none.
TableActions == ACCEPT_ID .. START_STOP_ID

\* An event the driver did not ask for (WLAN, IP acquired, ...).
UNSOLICITED == SL_MAX_SOCKETS + 8

(***************************************************************************)
(* A call: its action, its socket (SL_MAX_SOCKETS when the action is not   *)
(* about one) and whether its answer is the one with an IPv6 address.  All *)
(* blocking APIs go through the same steps and differ in these three; what *)
(* they marshal into the command and unmarshal from the answer is left     *)
(* out.                                                                    *)
(***************************************************************************)
SocketCall(action) == [ActionID : {action}, SocketID : SocketIDs, v6 : {FALSE}]
ServerCall(action) == [ActionID : {action}, SocketID : SocketIDs, v6 : BOOLEAN]
DeviceCall(action) == [ActionID : {action}, SocketID : {SL_MAX_SOCKETS}, v6 : {FALSE}]
QueryCall(action)  == [ActionID : {action}, SocketID : {SL_MAX_SOCKETS}, v6 : BOOLEAN]

sl_Accept  == ServerCall(ACCEPT_ID)
sl_Connect == SocketCall(CONNECT_ID)
sl_Recv    == SocketCall(RECV_ID)              \* _SlDrvDataReadOp
sl_Select  == DeviceCall(SELECT_ID)
sl_Stop    == DeviceCall(START_STOP_ID)
sl_NetAppPingStart == DeviceCall(PING_ID)      \* without a callback
sl_NetAppDnsGetHostByName    == QueryCall(GETHOSYBYNAME_ID)
sl_NetAppDnsGetHostByService == QueryCall(GETHOSYBYSERVICE_ID)

AnyRequest ==
  sl_Accept \cup sl_Connect \cup sl_Recv \cup sl_Select \cup sl_Stop
  \cup sl_NetAppPingStart \cup sl_NetAppDnsGetHostByName \cup sl_NetAppDnsGetHostByService

UnsolicitedEvent == [ActionID |-> UNSOLICITED, SocketID |-> SL_MAX_SOCKETS, v6 |-> FALSE]

Event == AnyRequest \cup {UnsolicitedEvent}

ASSUME PoolAssumption ==
  /\ MAX_CONCURRENT_ACTIONS \in Nat \ {0}
  /\ SL_MAX_SOCKETS \in Nat \ {0}
  /\ MaxCalls \in Nat
  /\ Request \subseteq AnyRequest
  /\ NoTask \notin Task

ObjIdx == 0 .. (MAX_CONCURRENT_ACTIONS - 1)
Nil    == MAX_CONCURRENT_ACTIONS
Link   == 0 .. MAX_CONCURRENT_ACTIONS

VARIABLES
  \* fields of ObjPool[]
  NextIndex, ActionID, AdditionalData, FamilyBit, pRespArgs, SyncObj,
  \* list heads and bitmap of the control block
  FreePoolIdx, PendingPoolIdx, ActivePoolIdx, ActiveActionsBitmap,
  \* per task: where it is in its call, its object, its request, the answer
  \* its buffer holds, and the calls it has made
  pc, obj, req, resp, calls,
  \* commands the NWP has accepted and not answered yet
  nwp,
  \* the event between _SlDrvMsgRead and its handler, see NoRx
  rx

fields  == <<NextIndex, ActionID, AdditionalData, FamilyBit, pRespArgs, SyncObj>>
heads   == <<FreePoolIdx, PendingPoolIdx, ActivePoolIdx, ActiveActionsBitmap>>
locals  == <<pc, obj, req, resp, calls>>
vars    == <<NextIndex, ActionID, AdditionalData, FamilyBit, pRespArgs, SyncObj,
             FreePoolIdx, PendingPoolIdx, ActivePoolIdx, ActiveActionsBitmap,
             pc, obj, req, resp, calls, nwp, rx>>

NoEvent == [ActionID |-> 0, SocketID |-> 0, v6 |-> FALSE]

(***************************************************************************)
(* FunctionParams.AsyncExt while an asynchronous event is being handled:   *)
(* the event, ActionIndex (Nil when no active object was found for it) and *)
(* whether the handler was read behind the end of _SlActionLookupTable.    *)
(***************************************************************************)
NoRx == [evt |-> NoEvent, idx |-> MAX_CONCURRENT_ACTIONS, wild |-> FALSE, busy |-> FALSE]

NoRequest == NoEvent

(***************************************************************************)
(* The bit of ActiveActionsBitmap a call needs.                            *)
(***************************************************************************)
Bit(action, socket) == IF socket < SL_MAX_SOCKETS THEN socket ELSE action

(***************************************************************************)
(* _SlDrvDriverCBInit, the pool part: every object is on the free list.    *)
(***************************************************************************)
Init ==
  /\ NextIndex = [o \in ObjIdx |-> o + 1]
  /\ ActionID = [o \in ObjIdx |-> 0]
  /\ AdditionalData = [o \in ObjIdx |-> SL_MAX_SOCKETS]
  /\ FamilyBit = [o \in ObjIdx |-> FALSE]
  /\ pRespArgs = [o \in ObjIdx |-> NoTask]
  /\ SyncObj = [o \in ObjIdx |-> FALSE]
  /\ FreePoolIdx = 0
  /\ PendingPoolIdx = Nil
  /\ ActivePoolIdx = Nil
  /\ ActiveActionsBitmap = {}
  /\ pc = [t \in Task |-> "idle"]
  /\ obj = [t \in Task |-> Nil]
  /\ req = [t \in Task |-> NoRequest]
  /\ resp = [t \in Task |-> NoEvent]
  /\ calls = [t \in Task |-> 0]
  /\ nwp = {UnsolicitedEvent}
  /\ rx = NoRx
-----------------------------------------------------------------------------
(***************************************************************************)
(* _SlDrvWaitForPoolObj.                                                   *)
(***************************************************************************)
\* Mutated Busy: the socket bits are not tested.
Busy_ActionOnly(r) == r.ActionID \in ActiveActionsBitmap

Busy(r) == Bit(r.ActionID, r.SocketID) \in ActiveActionsBitmap

\* "action in progress - move to pending list"
MoveToPending(t, o) ==
  /\ NextIndex' = PushNext(NextIndex, PendingPoolIdx, o)
  /\ PendingPoolIdx' = o
  /\ pc' = [pc EXCEPT ![t] = "pending"]
  /\ UNCHANGED <<ActivePoolIdx, ActiveActionsBitmap>>

\* "mark as active" and "move to active list"
MoveToActive(t, o, r) ==
  /\ ActiveActionsBitmap' = ActiveActionsBitmap \cup {Bit(r.ActionID, r.SocketID)}
  /\ NextIndex' = PushNext(NextIndex, ActivePoolIdx, o)
  /\ ActivePoolIdx' = o
  /\ pc' = [pc EXCEPT ![t] = "active"]
  /\ UNCHANGED PendingPoolIdx

\* The loop test: the object is queued behind a busy socket or action.
PendOrActivate(t, o, r) ==
  \/ Busy(r) /\ MoveToPending(t, o)
  \/ ~Busy(r) /\ MoveToActive(t, o, r)

\* No free object: the API returns SL_POOL_IS_EMPTY.
PoolIsEmpty(t) ==
  /\ pc[t] = "idle"
  /\ calls[t] < MaxCalls
  /\ FreePoolIdx = Nil
  /\ calls' = [calls EXCEPT ![t] = @ + 1]
  /\ UNCHANGED <<fields, heads, pc, obj, req, resp, nwp, rx>>

\* The first critical section: get a free object, then the loop test.
WaitForPoolObj(t, r) ==
  /\ pc[t] = "idle"
  /\ calls[t] < MaxCalls
  /\ FreePoolIdx # Nil
  /\ LET o == FreePoolIdx IN
       /\ FreePoolIdx' = NextIndex[o]
       /\ ActionID' = [ActionID EXCEPT ![o] = r.ActionID]
       /\ AdditionalData' = IF r.SocketID < SL_MAX_SOCKETS
                            THEN [AdditionalData EXCEPT ![o] = r.SocketID]
                            ELSE AdditionalData
       /\ PendOrActivate(t, o, r)
       /\ obj' = [obj EXCEPT ![t] = o]
  /\ req' = [req EXCEPT ![t] = r]
  /\ resp' = [resp EXCEPT ![t] = NoEvent]
  /\ calls' = [calls EXCEPT ![t] = @ + 1]
  /\ UNCHANGED <<FamilyBit, pRespArgs, SyncObj, nwp, rx>>

\* "wait for action to be free": the sleep of a pending call ends.
WokenFromPending(t) ==
  /\ pc[t] = "pending"
  /\ SyncObj[obj[t]]
  /\ SyncObj' = [SyncObj EXCEPT ![obj[t]] = FALSE]
  /\ pc' = [pc EXCEPT ![t] = "retry"]
  /\ UNCHANGED <<NextIndex, ActionID, AdditionalData, FamilyBit, pRespArgs,
                 heads, obj, req, resp, calls, nwp, rx>>

\* Mutated RetryPoolObj: "if" instead of "while", the test is not repeated.
RetryPoolObj_IfNotWhile(t) ==
  /\ pc[t] = "retry"
  /\ MoveToActive(t, obj[t], req[t])
  /\ UNCHANGED <<ActionID, AdditionalData, FamilyBit, pRespArgs, SyncObj,
                 FreePoolIdx, obj, req, resp, calls, nwp, rx>>

\* The lock is taken again and the loop test repeated: another call may
\* have taken the socket in between.
RetryPoolObj(t) ==
  /\ pc[t] = "retry"
  /\ PendOrActivate(t, obj[t], req[t])
  /\ UNCHANGED <<ActionID, AdditionalData, FamilyBit, pRespArgs, SyncObj,
                 FreePoolIdx, obj, req, resp, calls, nwp, rx>>
-----------------------------------------------------------------------------
(***************************************************************************)
(* The blocking APIs around the pool.                                      *)
(***************************************************************************)

\* _SlDrvProtectAsyncRespSetting, and the same in the DNS and receive calls.
\* SL_NETAPP_FAMILY_MASK is set by the DNS queries, never by sl_Accept.
SetRespArgs(t) ==
  /\ pc[t] = "active"
  /\ pRespArgs' = [pRespArgs EXCEPT ![obj[t]] = t]
  /\ FamilyBit' = [FamilyBit EXCEPT ![obj[t]] = @ \/ (req[t].v6 /\ req[t].ActionID # ACCEPT_ID)]
  /\ pc' = [pc EXCEPT ![t] = "command"]
  /\ UNCHANGED <<NextIndex, ActionID, AdditionalData, SyncObj,
                 heads, obj, req, resp, calls, nwp, rx>>

\* Mutated CommandAccepted: the caller does not sleep for the answer.
CommandAccepted_NoSleep(t) ==
  /\ pc[t] = "command"
  /\ nwp' = nwp \cup {req[t]}
  /\ pc' = [pc EXCEPT ![t] = "release"]
  /\ UNCHANGED <<fields, heads, obj, req, resp, calls, rx>>

\* The command response says that the answer will follow.
CommandAccepted(t) ==
  /\ pc[t] = "command"
  /\ nwp' = nwp \cup {req[t]}
  /\ pc' = [pc EXCEPT ![t] = "wait"]
  /\ UNCHANGED <<fields, heads, obj, req, resp, calls, rx>>

\* The command response is an error: there is no answer to wait for.
\* A receive has no command response (_SlDrvDataReadOp).
CommandRefused(t) ==
  /\ pc[t] = "command"
  /\ req[t].ActionID # RECV_ID
  /\ pc' = [pc EXCEPT ![t] = "release"]
  /\ UNCHANGED <<fields, heads, obj, req, resp, calls, nwp, rx>>

\* The sleep for the answer ends.
WokenByAnswer(t) ==
  /\ pc[t] = "wait"
  /\ SyncObj[obj[t]]
  /\ SyncObj' = [SyncObj EXCEPT ![obj[t]] = FALSE]
  /\ pc' = [pc EXCEPT ![t] = "release"]
  /\ UNCHANGED <<NextIndex, ActionID, AdditionalData, FamilyBit, pRespArgs,
                 heads, obj, req, resp, calls, nwp, rx>>
-----------------------------------------------------------------------------
\* Mutated Wakeable: calls that are not about a socket are not woken.
Wakeable_SocketsOnly(o) ==
  {p \in ObjIdx : /\ ActionID[p] = ActionID[o]
                  /\ AdditionalData[o] < SL_MAX_SOCKETS
                  /\ AdditionalData[p] = AdditionalData[o]}

(***************************************************************************)
(* _SlDrvReleasePoolObj.  Of the pending calls only one with the released  *)
(* action, and with the released socket if it has a socket, is woken.      *)
(***************************************************************************)
Wakeable(o) ==
  {p \in ObjIdx :
     /\ ActionID[p] = ActionID[o]
     /\ \/ AdditionalData[p] = SL_MAX_SOCKETS
        \/ /\ AdditionalData[o] < SL_MAX_SOCKETS
           /\ AdditionalData[p] = AdditionalData[o]}

\* The rest of the function, once the pending list has been served.
ReturnToFree(o, nx) ==
  /\ ActiveActionsBitmap' = ActiveActionsBitmap \ {Bit(ActionID[o], AdditionalData[o])}
  /\ pRespArgs' = [pRespArgs EXCEPT ![o] = NoTask]
  /\ ActionID' = [ActionID EXCEPT ![o] = 0]
  /\ AdditionalData' = [AdditionalData EXCEPT ![o] = SL_MAX_SOCKETS]
  /\ FamilyBit' = [FamilyBit EXCEPT ![o] = FALSE]
  /\ ActivePoolIdx' = RemoveHead(nx, ActivePoolIdx, o, Nil)
  /\ NextIndex' = PushNext(RemoveNext(nx, ActivePoolIdx, o, Nil), FreePoolIdx, o)
  /\ FreePoolIdx' = o

ReleaseNoWake(o) ==
  /\ FirstOf(NextIndex, PendingPoolIdx, Wakeable(o)) = {}
  /\ ReturnToFree(o, NextIndex)
  /\ UNCHANGED <<PendingPoolIdx, SyncObj>>

\* Mutated ReleaseAndWake: the released object is signalled, not the pending one.
ReleaseAndWake_SignalsSelf(o) ==
  \E p \in FirstOf(NextIndex, PendingPoolIdx, Wakeable(o)) :
    /\ ReturnToFree(o, RemoveNext(NextIndex, PendingPoolIdx, p, Nil))
    /\ PendingPoolIdx' = RemoveHead(NextIndex, PendingPoolIdx, p, Nil)
    /\ SyncObj' = [SyncObj EXCEPT ![o] = TRUE]

ReleaseAndWake(o) ==
  \E p \in FirstOf(NextIndex, PendingPoolIdx, Wakeable(o)) :
    /\ ReturnToFree(o, RemoveNext(NextIndex, PendingPoolIdx, p, Nil))
    /\ PendingPoolIdx' = RemoveHead(NextIndex, PendingPoolIdx, p, Nil)
    /\ SyncObj' = [SyncObj EXCEPT ![p] = TRUE]

ReleasePoolObj(t) ==
  /\ pc[t] = "release"
  /\ ReleaseNoWake(obj[t]) \/ ReleaseAndWake(obj[t])
  /\ pc' = [pc EXCEPT ![t] = "idle"]
  /\ UNCHANGED <<obj, req, resp, calls, nwp, rx>>
-----------------------------------------------------------------------------
\* Mutated RecvMatch: receives are looked up in the table like other actions.
RecvMatch_NoSpecialCase(e) == {}

\* Mutated TableMatch: the socket of the event is not compared.
TableMatch_AnySocket(e, wild) ==
  {o \in ObjIdx : e.ActionID = (IF ActionID[o] = RECV_ID THEN wild ELSE ActionID[o])}

(***************************************************************************)
(* _SlFindAndSetActiveObj(opcode, sd): the objects on the active list at   *)
(* which the walk can stop.  The lookup table is indexed by ActionID of    *)
(* every object that is walked past; for a receive the entry lies behind   *)
(* the end of the table, so its opcode is whatever is stored there (wild). *)
(* Once the walk has passed an object with the IPv6 bit the IPv6 bit of    *)
(* the opcode stays cleared: no other walk finds the object of an accept   *)
(* whose answer has an IPv6 address.                                       *)
(***************************************************************************)
RecvMatch(e) ==
  {o \in ObjIdx : /\ ActionID[o] = RECV_ID
                  /\ e.ActionID = RECV_ID
                  /\ AdditionalData[o] = e.SocketID}

IPv6BitCleared(o) ==
  \E x \in Chain(NextIndex, ActivePoolIdx) :
    FamilyBit[x] /\ o \in Chain(NextIndex, x)

TableMatch(e, wild) ==
  {o \in ObjIdx :
     /\ e.ActionID = (IF ActionID[o] = RECV_ID THEN wild ELSE ActionID[o])
     /\ ~e.v6 \/ IPv6BitCleared(o)
     /\ \/ e.SocketID = AdditionalData[o] /\ e.SocketID < SL_MAX_SOCKETS
        \/ AdditionalData[o] = SL_MAX_SOCKETS}

FindActiveObj(e, wild) ==
  FirstOf(NextIndex, ActivePoolIdx, RecvMatch(e) \cup TableMatch(e, wild))

\* _SlDrvMsgRead, ASYNC_EVT_CLASS: the handler will run later, outside of
\* this critical section.
ReadAsyncEvent(e, wild) ==
  /\ ~rx.busy
  /\ e \in nwp
  /\ e.ActionID # RECV_ID
  /\ nwp' = nwp \ {e}
  /\ LET F == FindActiveObj(e, wild) IN
       \/ /\ F = {}
          /\ rx' = [evt |-> e, idx |-> Nil, wild |-> FALSE, busy |-> TRUE]
       \/ \E o \in F :
            rx' = [evt |-> e, idx |-> o, wild |-> ActionID[o] = RECV_ID, busy |-> TRUE]
  /\ UNCHANGED <<fields, heads, pc, obj, req, resp, calls>>

\* _SlDrvMsgRead, RECV_RESP_CLASS: the answer is copied and signalled in the
\* critical section that found the object; its owner must exist (the code
\* asserts that the walk succeeds).
ReadRecvResponse(e, wild) ==
  /\ ~rx.busy
  /\ e \in nwp
  /\ e.ActionID = RECV_ID
  /\ nwp' = nwp \ {e}
  /\ \E o \in FindActiveObj(e, wild) :
       /\ resp' = [resp EXCEPT ![pRespArgs[o]] = e]
       /\ SyncObj' = [SyncObj EXCEPT ![o] = TRUE]
  /\ UNCHANGED <<NextIndex, ActionID, AdditionalData, FamilyBit, pRespArgs,
                 heads, pc, obj, req, calls, rx>>

\* An event without an active object goes to the user's event handler.
UserEventHandler ==
  /\ rx.busy
  /\ rx.idx = Nil
  /\ rx' = NoRx
  /\ UNCHANGED <<fields, heads, locals, nwp>>

\* _sl_HandleAsync_Connect, _Accept, _Select, _Stop, _PingResponse and
\* _DnsGetHostByName: copy the answer and wake the caller.
HandleAsync ==
  /\ rx.busy
  /\ rx.idx # Nil
  /\ ~(rx.evt.ActionID = GETHOSYBYSERVICE_ID /\ FamilyBit[rx.idx])
  /\ resp' = [resp EXCEPT ![pRespArgs[rx.idx]] = rx.evt]
  /\ SyncObj' = [SyncObj EXCEPT ![rx.idx] = TRUE]
  /\ rx' = NoRx
  /\ UNCHANGED <<NextIndex, ActionID, AdditionalData, FamilyBit, pRespArgs,
                 heads, pc, obj, req, calls, nwp>>

\* _sl_HandleAsync_DnsGetHostByService returns at once for an IPv6 query.
HandleServiceIPv6 ==
  /\ rx.busy
  /\ rx.idx # Nil
  /\ rx.evt.ActionID = GETHOSYBYSERVICE_ID
  /\ FamilyBit[rx.idx]
  /\ rx' = NoRx
  /\ UNCHANGED <<fields, heads, locals, nwp>>
-----------------------------------------------------------------------------
TaskStep(t) ==
  \/ WokenFromPending(t)
  \/ RetryPoolObj(t)
  \/ SetRespArgs(t)
  \/ CommandAccepted(t)
  \/ CommandRefused(t)
  \/ WokenByAnswer(t)
  \/ ReleasePoolObj(t)

Call(t) ==
  \/ PoolIsEmpty(t)
  \/ \E r \in Request : WaitForPoolObj(t, r)

\* The opcode stored behind the end of the lookup table.
Wild == TableActions \cup {UNSOLICITED, 0}

Answer ==
  \E e \in nwp, wild \in Wild : ReadAsyncEvent(e, wild) \/ ReadRecvResponse(e, wild)

Handler == UserEventHandler \/ HandleAsync \/ HandleServiceIPv6

Next ==
  \/ \E t \in Task : Call(t) \/ TaskStep(t)
  \/ Answer
  \/ Handler

Spec == Init /\ [][Next]_vars

(***************************************************************************)
(* A task runs on once it has been called or woken, the spawn task handles *)
(* an event that has been read, and the NWP answers every command that it  *)
(* has accepted.  Tasks need not make calls.                               *)
(***************************************************************************)
Fairness ==
  /\ \A t \in Task : WF_vars(TaskStep(t))
  /\ WF_vars(Handler)
  /\ WF_vars(Answer)

FairSpec == Spec /\ Fairness
-----------------------------------------------------------------------------
(***************************************************************************)
(* Properties.                                                             *)
(***************************************************************************)
Idle(t)    == pc[t] = "idle"
Queued(t)  == pc[t] = "pending" /\ ~SyncObj[obj[t]]
Holding(t) == pc[t] \in {"active", "command", "wait", "release"}

\* The objects that ought to be on the three lists; an object whose task
\* has been signalled but has not taken the lock again is on none of them.
FreeObjs    == ObjIdx \ {obj[t] : t \in {u \in Task : ~Idle(u)}}
PendingObjs == {obj[t] : t \in {u \in Task : Queued(u)}}
ActiveObjs  == {obj[t] : t \in {u \in Task : Holding(u)}}

TaskBit(t) == Bit(req[t].ActionID, req[t].SocketID)

\* Type correctness of the control block and of the tasks.
TypeOK ==
  /\ NextIndex \in [ObjIdx -> Link]
  /\ ActionID \in [ObjIdx -> ActionIDs \cup {0}]
  /\ AdditionalData \in [ObjIdx -> SocketIDs \cup {SL_MAX_SOCKETS}]
  /\ FamilyBit \in [ObjIdx -> BOOLEAN]
  /\ pRespArgs \in [ObjIdx -> Task \cup {NoTask}]
  /\ SyncObj \in [ObjIdx -> BOOLEAN]
  /\ FreePoolIdx \in Link
  /\ PendingPoolIdx \in Link
  /\ ActivePoolIdx \in Link
  /\ ActiveActionsBitmap \subseteq SocketIDs \cup ActionIDs
  /\ pc \in [Task -> {"idle", "pending", "retry", "active", "command", "wait", "release"}]
  /\ obj \in [Task -> Link]
  /\ \A t \in Task : ~Idle(t) => obj[t] \in ObjIdx
  /\ req \in [Task -> AnyRequest \cup {NoRequest}]
  /\ \A t \in Task : ~Idle(t) => req[t] \in AnyRequest
  /\ resp \in [Task -> Event \cup {NoEvent}]
  /\ calls \in [Task -> 0 .. MaxCalls]
  /\ nwp \subseteq Event
  /\ rx \in [evt : Event \cup {NoEvent}, idx : Link, wild : BOOLEAN, busy : BOOLEAN]

\* No two calls are active on one socket, and no two calls of one action
\* that is not about a socket (driver.c: ActiveActionsBitmap).
Exclusive ==
  \A t, u \in Task : Holding(t) /\ Holding(u) /\ t # u => TaskBit(t) # TaskBit(u)

\* The three index-linked lists partition the pool: no object is lost, on
\* two lists, or shared by two calls (_SlRemoveFromList and its callers).
PoolPartition ==
  /\ \A t, u \in Task : ~Idle(t) /\ ~Idle(u) /\ t # u => obj[t] # obj[u]
  /\ Chain(NextIndex, FreePoolIdx) = FreeObjs
  /\ Chain(NextIndex, PendingPoolIdx) = PendingObjs
  /\ Chain(NextIndex, ActivePoolIdx) = ActiveObjs

\* The SyncObj serves two sleeps: no signal of the first one is left over
\* that would end the sleep for the answer early, or that a later owner of
\* the object would inherit (WokenByAnswer without an answer).
NoStaleSignal ==
  /\ \A o \in FreeObjs : ~SyncObj[o]
  /\ \A t \in Task : pc[t] \in {"retry", "active", "command", "release"} => ~SyncObj[obj[t]]

\* When the sleep for the answer ends, the buffer of the caller holds the
\* answer to the caller's own request (_SlFindAndSetActiveObj found the
\* right object among all active ones).
AnswerIsForCaller ==
  \A t \in Task : pc[t] = "wait" /\ SyncObj[obj[t]] => resp[t] = req[t]

\* The handler of an event is never taken from behind the end of
\* _SlActionLookupTable, although the walk reads that entry whenever it
\* passes an active receive (driver.c:1777).
NoWildHandler == ~rx.wild

\* A handler that was selected for an active object finds the caller still
\* asleep on that object and its buffer in place: the object is not
\* released between _SlDrvMsgRead and the handler.
HandlerHasCaller ==
  rx.busy /\ rx.idx # Nil =>
    \E t \in Task : /\ pRespArgs[rx.idx] = t
                    /\ obj[t] = rx.idx
                    /\ pc[t] = "wait"
                    /\ req[t] = rx.evt

\* VERIFY_RET_OK(_SlFindAndSetActiveObj()) of the receive path never fails:
\* every receive the NWP may answer has its object on the active list,
\* whatever lies behind the lookup table.
RecvFindsItsObject ==
  \A e \in nwp : e.ActionID = RECV_ID =>
    \A wild \in Wild : \E o \in FindActiveObj(e, wild) :
      /\ ActionID[o] = RECV_ID
      /\ AdditionalData[o] = e.SocketID
      /\ pRespArgs[o] \in Task

\* The pool implements the arbiter.  A caller is answered once its answer
\* has been copied into its buffer.
ArbiterPhase(t) ==
  CASE pc[t] = "idle" -> "idle"
    [] pc[t] \in {"pending", "retry"} -> "waiting"
    [] OTHER -> IF resp[t] = NoEvent THEN "holding" ELSE "answered"

ArbiterKey(r) == Bit(r.ActionID, r.SocketID)

Arbiter == INSTANCE SlActionArbiter WITH
  Caller <- Task, Question <- Request, Key <- ArbiterKey, None <- NoEvent,
  phase <- [t \in Task |-> ArbiterPhase(t)], asked <- req, got <- resp

\* Every step of the pool is a step of the arbiter or changes nothing it
\* can see.
ImplementsArbiter == Arbiter!ASpec

\* The inductive invariant.  The lists are free of sharing; an object
\* carries the request of its owner, so that a release clears the right
\* bit; the bit of every active call is set; a call that may be answered
\* has its buffer registered; and every command the NWP has accepted is
\* awaited by a caller that has not been answered.
ListsWellFormed ==
  /\ WellFormed(NextIndex, FreePoolIdx)
  /\ WellFormed(NextIndex, PendingPoolIdx)
  /\ WellFormed(NextIndex, ActivePoolIdx)

FieldsMatch ==
  /\ \A t \in Task : ~Idle(t) => /\ ActionID[obj[t]] = req[t].ActionID
                                 /\ AdditionalData[obj[t]] = req[t].SocketID
  /\ \A o \in FreeObjs : AdditionalData[o] = SL_MAX_SOCKETS

BitsHeld == \A t \in Task : Holding(t) => TaskBit(t) \in ActiveActionsBitmap

BuffersSet ==
  \A t \in Task : pc[t] \in {"command", "wait", "release"} => pRespArgs[obj[t]] = t

Unanswered(t) == pc[t] = "wait" /\ ~SyncObj[obj[t]] /\ resp[t] = NoEvent

EventsAwaited ==
  \A e \in nwp : e = UnsolicitedEvent \/
    \E t \in Task : Unanswered(t) /\ req[t] = e /\ ~(rx.busy /\ rx.idx = obj[t])

RxAwaited ==
  rx.busy /\ rx.idx # Nil =>
    \E t \in Task : Unanswered(t) /\ req[t] = rx.evt /\ obj[t] = rx.idx

NotYetAnswered ==
  \A t \in Task : pc[t] \in {"pending", "retry", "active", "command"} => resp[t] = NoEvent

IInv ==
  /\ TypeOK
  /\ PoolPartition
  /\ ListsWellFormed
  /\ FieldsMatch
  /\ BitsHeld
  /\ Exclusive
  /\ NoStaleSignal
  /\ BuffersSet
  /\ EventsAwaited
  /\ RxAwaited
  /\ NotYetAnswered
  /\ AnswerIsForCaller
  /\ NoWildHandler

\* A call that has to wait "internally" is executed in the end.
Served == \A t \in Task : pc[t] \in {"pending", "retry"} ~> pc[t] = "active"

\* Every call returns, provided that the NWP answers the commands it accepted.
CallReturns == \A t \in Task : pc[t] # "idle" ~> pc[t] = "idle"
=============================================================================
