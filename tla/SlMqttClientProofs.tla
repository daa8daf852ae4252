------------------------- MODULE SlMqttClientProofs -------------------------
(***************************************************************************)
(* Proofs about the MQTT client: for every number of packets, messages,    *)
(* connections and breaks, every mixture of requests and every capacity of *)
(* the queues.                                                             *)
(***************************************************************************)
EXTENDS SlMqttClient, MqttClientProofs
LOCAL INSTANCE SequencesExt

Calls == Requests \cup {ConnectCall, DisconnCall}

OutMsgs == [msg : [type : {"PUBLISH"}, id : Nat, qos : 0..2, body : Nat], released : BOOLEAN]

AppType ==
  [pc : {"idle", "checked", "composed", "sending", "wait", "exit", "failed"},
   call : Calls, mqp : Packets \cup {NULL}, msg : AnyMsg, clean : BOOLEAN]

TypeOK ==
  /\ IsCtx(ctx) /\ ctx.qos2_rx_cq \in CqType /\ ctx.qos2_tx_cq \in CqType
  /\ app \in AppType
  /\ rx \in {"signal", "prep", "ping", "alloc", "recv", "done", "failed", "closing"}
  /\ link \in {"none", "open", "session"}
  /\ down \in Seq(AnyMsg)
  /\ server \in [clean : BOOLEAN, rcvd : SUBSET Nat, out : Seq(OutMsgs)]
  /\ count \in [requests : Nat, connects : Nat, msgs : Nat, pings : Nat, drops : Nat]

\* The packet of the call; while it is sent, tx_part has a reference of its own.
CallPacket ==
  IF app.pc = "composed" \/ (app.pc = "sending" /\ app.call.qos > 0)
  THEN {app.mqp} \ {NULL} ELSE {}

PoolInv == PoolOK(ctx, CallPacket)

\* What the tasks hold
CallOK ==
  /\ app.pc \in {"composed", "sending"} =>
       IF app.call = DisconnCall THEN app.mqp = NULL
       ELSE app.mqp \in Packets /\ app.msg.type = app.call.type /\ app.msg.qos = app.call.qos
  /\ \A p \in CallPacket : ctx.mqp[p] = app.msg
  /\ app.pc \in {"checked", "composed"} /\ app.call = ConnectCall => ~ctx.net

RxOK ==
  /\ rx \in {"recv", "done", "failed"} => ctx.rx_mqp \in Packets
  /\ rx = "ping" => "NOW_CONNECTED" \in ctx.flags

Acks == Sift(down, AckMsgs)
Reqs == IF link = "none" THEN <<>> ELSE Sift(ctx.tx, ReqMsgs)

ListOK == \A p \in Items(ctx.qos_ack1_wl) : ctx.mqp[p] \in ReqMsgs

OrderOK == InOrder(Acks, Reqs, ctx.qos_ack1_wl, ctx.mqp)

\* While packets can be sent all of the list is under way.
AllUnderWay ==
  /\ link # "none"
  /\ \/ MaySend(ctx, FALSE)
     \/ app.pc = "sending" /\ app.call # ConnectCall
     \/ rx = "ping" /\ is_connected(ctx)
  => Len(Acks) + Len(Reqs) = Len(ctx.qos_ack1_wl)

\* A connection is used once its CONNECT was accepted.
Handshake ==
  /\ "CONNACK_AWAIT" \in ctx.flags => "NOW_CONNECTED" \notin ctx.flags
  /\ "NOW_CONNECTED" \notin ctx.flags => Acks = <<>> /\ Reqs = <<>>
  /\ "NOW_CONNECTED" \in ctx.flags => ctx.net /\ link # "open"
  /\ link # "none" \/ down # <<>> => ctx.net
  /\ link = "open" => \A m \in Items(down) : m.type = "CONNACK" => m.id # 0
  /\ app.pc = "sending" =>
       IF app.call = ConnectCall THEN "NOW_CONNECTED" \notin ctx.flags
       ELSE link # "none" => "NOW_CONNECTED" \in ctx.flags

IInv ==
  /\ TypeOK
  /\ PoolInv /\ CallOK /\ RxOK
  /\ ListOK /\ OrderOK /\ AllUnderWay /\ Handshake

-----------------------------------------------------------------------------
(***************************************************************************)
(* What the routines of the library do to a context.                       *)
(***************************************************************************)

-----------------------------------------------------------------------------
(***************************************************************************)
(* The steps of the tasks and of the server.                               *)
(***************************************************************************)
LEMMA CtxOk ==
  ASSUME TypeOK, PoolInv
  PROVE  Ok(ctx, CallPacket)
<1>1. CallPacket \subseteq Packets
  BY DEF CallPacket, TypeOK, AppType
<1>. QED  BY <1>1 DEF Ok, PoolInv, TypeOK

\* What is under way is made of messages.
LEMMA ListsTyped ==
  ASSUME TypeOK
  PROVE  Acks \in Seq(AnyMsg) /\ Reqs \in Seq(AnyMsg) /\ ctx.qos_ack1_wl \in Seq(Packets)
<1>1. down \in Seq(AnyMsg) /\ ctx.tx \in Seq(AnyMsg) /\ ctx.qos_ack1_wl \in Seq(Packets)
  BY DEF TypeOK, IsCtx
<1>2. Sift(down, AckMsgs) \in Seq(AnyMsg) /\ Sift(ctx.tx, ReqMsgs) \in Seq(AnyMsg)
  BY <1>1, SiftMembers
<1>. QED  BY <1>1, <1>2 DEF Acks, Reqs

\* A request may be sent next.
Sending ==
  /\ link # "none"
  /\ \/ MaySend(ctx, FALSE)
     \/ app.pc = "sending" /\ app.call # ConnectCall
     \/ rx = "ping" /\ is_connected(ctx)

\* Steps that change neither the list nor what is under way for it
LEMMA SameLists ==
  ASSUME IInv, TypeOK', PoolInv', CallOK', RxOK', Handshake',
         ctx'.qos_ack1_wl = ctx.qos_ack1_wl,
         \A p \in Items(ctx.qos_ack1_wl) : ctx'.mqp[p] = ctx.mqp[p],
         Acks' = Acks, Reqs' = Reqs, Sending' => Sending
  PROVE  IInv'
<1>1. Acks \in Seq(AnyMsg) /\ Reqs \in Seq(AnyMsg) /\ ctx.qos_ack1_wl \in Seq(Packets)
  BY ListsTyped DEF IInv
<1>2. ListOK'
  BY DEF ListOK, IInv
<1>3. OrderOK'
  <2>1. InOrder(Acks, Reqs, ctx.qos_ack1_wl, ctx.mqp)
    BY DEF IInv, OrderOK
  <2>2. InOrder(Acks, Reqs, ctx.qos_ack1_wl, ctx'.mqp)
    BY <1>1, <2>1, OrderSame
  <2>. QED  BY <2>2 DEF OrderOK
<1>4. AllUnderWay'
  <2>1. AllUnderWay
    BY DEF IInv
  <2>. QED  BY <2>1 DEF AllUnderWay, Sending
<1>. QED  BY <1>2, <1>3, <1>4 DEF IInv

\* Steps that leave the context and the connection alone
LEMMA SameCtx ==
  ASSUME IInv, TypeOK', CallOK', RxOK', ctx' = ctx, link' = link, down' = down,
         CallPacket' \subseteq CallPacket,
         app' = app \/ app'.pc # "sending", rx' = rx \/ rx' # "ping"
  PROVE  IInv'
<1>1. PoolInv'
  <2>1. Ok(ctx, CallPacket)
    BY CtxOk DEF IInv
  <2>2. Ok(ctx, CallPacket')
    BY ONLY <2>1, CallPacket' \subseteq CallPacket, OwnShrinks
  <2>. QED  BY <2>2 DEF PoolInv, Ok
<1>2. Acks' = Acks /\ Reqs' = Reqs
  BY DEF Acks, Reqs
<1>3. Handshake'
  BY <1>2 DEF Handshake, IInv
<1>4. Sending' => Sending
  BY DEF Sending
<1>. QED  BY <1>1, <1>2, <1>3, <1>4, SameLists

\* Steps of the application's task that only change where it is
LEMMA AppMoves ==
  ASSUME IInv, UNCHANGED <<ctx, rx, link, down, server>>,
         app' \in AppType,
         count' \in [requests : Nat, connects : Nat, msgs : Nat, pings : Nat, drops : Nat],
         app'.pc \notin {"composed", "sending"},
         app'.pc = "checked" /\ app'.call = ConnectCall => ~ctx.net
  PROVE  IInv'
<1>1. TypeOK'
  BY DEF TypeOK, IInv
<1>2. CallPacket' = {}
  BY DEF CallPacket
<1>3. CallOK'
  BY <1>2 DEF CallOK
<1>4. RxOK'
  BY DEF RxOK, IInv
<1>. QED  BY <1>1, <1>2, <1>3, <1>4, SameCtx

\* The calls of the application by their type and QoS.
LEMMA CallTypes ==
  /\ ConnectCall \in Calls /\ DisconnCall \in Calls /\ Requests \subseteq Calls
  /\ NoMsg \in AnyMsg
BY MsgTypes DEF Calls

-----------------------------------------------------------------------------
(***************************************************************************)
(* Every step keeps the invariant.                                         *)
(***************************************************************************)

\* The call ends its use of the packet.
LEMMA AfterType ==
  ASSUME TypeOK, NEW pc \in {"wait", "exit", "failed"}
  PROVE  After(pc) \in AppType /\ After(pc).pc = pc /\ After(pc).call = app.call
<1>1. app.call \in Calls
  BY DEF TypeOK, AppType
<1>. QED  BY <1>1, CallTypes DEF After, Idle, AppType

\* A call begins.
LEMMA StartCallOk ==
  ASSUME IInv, NEW call \in Requests \cup {DisconnCall}, StartCall(call)
  PROVE  IInv'
<1>0. count \in [requests : Nat, connects : Nat, msgs : Nat, pings : Nat, drops : Nat]
  BY DEF IInv, TypeOK
<1>1. call \in Calls
  BY CallTypes
<1>3. app' \in AppType /\ app'.pc = "checked" /\ app'.call = call
  BY <1>1, CallTypes DEF StartCall, Idle, AppType
<1>4. call # ConnectCall
  BY SlMqttAssumption DEF ConnectCall, DisconnCall, Publish, Subscribe, Unsubscribe
<1>5. count' \in [requests : Nat, connects : Nat, msgs : Nat, pings : Nat, drops : Nat]
  BY <1>0 DEF StartCall
<1>6. UNCHANGED <<ctx, rx, link, down, server>>
  BY DEF StartCall, serverVars
<1>. QED  BY <1>3, <1>4, <1>5, <1>6, AppMoves

\* A connect begins.
LEMMA StartConnectOk ==
  ASSUME IInv, NEW clean \in CleanChoices, StartConnect(clean)
  PROVE  IInv'
<1>0. count \in [requests : Nat, connects : Nat, msgs : Nat, pings : Nat, drops : Nat]
  BY DEF IInv, TypeOK
<1>1. clean \in BOOLEAN
  BY SlMqttAssumption
<1>3. app' \in AppType /\ app'.pc = "checked"
  BY <1>1, CallTypes DEF StartConnect, Idle, AppType
<1>4. ~ctx.net
  BY DEF StartConnect
<1>5. count' \in [requests : Nat, connects : Nat, msgs : Nat, pings : Nat, drops : Nat]
  BY <1>0 DEF StartConnect
<1>6. UNCHANGED <<ctx, rx, link, down, server>>
  BY DEF StartConnect, serverVars
<1>. QED  BY <1>3, <1>4, <1>5, <1>6, AppMoves

\* A call is woken, or it returns.
LEMMA WaitEndsOk ==
  ASSUME IInv, AckSignalWait \/ Return
  PROVE  IInv'
<1>1. UNCHANGED <<ctx, rx, link, down, server, count>>
  BY DEF AckSignalWait, Return, serverVars
<1>2. count' \in [requests : Nat, connects : Nat, msgs : Nat, pings : Nat, drops : Nat]
  BY <1>1 DEF IInv, TypeOK
<1>3. CASE AckSignalWait
  <2>1. PICK pc \in {"wait", "exit", "failed"} : app' = After(pc) /\ pc # "wait"
    BY <1>3 DEF AckSignalWait
  <2>2. TypeOK
    BY DEF IInv
  <2>3. app' \in AppType /\ app'.pc = pc
    BY <2>1, <2>2, AfterType
  <2>. QED  BY <1>1, <1>2, <2>1, <2>3, AppMoves
<1>4. CASE Return
  <2>2. app' \in AppType /\ app'.pc = "idle"
    BY <1>4, CallTypes DEF Return, Idle, AppType
  <2>. QED  BY <1>1, <1>2, <2>2, AppMoves
<1>. QED  BY <1>3, <1>4

\* Steps of the receive task that leave the context alone.
LEMMA RxMovesOk ==
  ASSUME IInv, RxSignalWait \/ RxNotConn \/ RxClosed \/ RxOnTime
  PROVE  IInv'
<1>1. UNCHANGED <<ctx, app, link, down, server, count>> /\ rx' \in {"signal", "prep", "alloc"}
  BY DEF RxSignalWait, RxNotConn, RxClosed, RxOnTime, serverVars
<1>2. TypeOK'
  BY <1>1 DEF IInv, TypeOK
<1>3. CallPacket' = CallPacket
  BY <1>1 DEF CallPacket
<1>4. CallOK'
  BY <1>1, <1>3 DEF IInv, CallOK
<1>5. RxOK'
  BY <1>1 DEF RxOK
<1>. QED  BY <1>1, <1>2, <1>3, <1>4, <1>5, SameCtx

\* A call fills in a packet of the pool.
LEMMA ComposeOk ==
  ASSUME IInv, Compose
  PROVE  IInv'
<1>0. TypeOK /\ PoolInv /\ CallOK /\ RxOK /\ Handshake /\ app.pc = "checked" /\ app \in AppType
  BY DEF IInv, Compose, TypeOK
<1> DEFINE call == app.call
           id   == CASE call = ConnectCall -> IF app.clean THEN 1 ELSE 0
                     [] call = Publish(0)  -> 0
                     [] OTHER              -> assign_new_msg_id(ctx)
           msg  == Msg(call.type, id, call.qos, count.requests)
           p    == Head(ctx.free_list)
           new  == mqp_client_alloc(ctx, msg)
<1>1. UNCHANGED <<rx, link, down, server, count>>
  BY DEF Compose, serverVars
<1>2. call \in Calls /\ call.type \in PacketTypes /\ call.qos \in 0..2
  <2>1. call \in Calls
    BY <1>0 DEF AppType
  <2>. QED  BY <2>1, SlMqttAssumption DEF Calls, PacketTypes, ConnectCall, DisconnCall, Publish, Subscribe, Unsubscribe
<1>3. id \in Nat
  <2>1. ctx.msg_id \in Nat
    BY <1>0 DEF TypeOK, IsCtx
  <2>2. assign_new_msg_id(ctx) \in Nat
    BY <2>1 DEF assign_new_msg_id
  <2>. QED  BY <2>2
<1>4. msg \in AnyMsg /\ msg.type = call.type /\ msg.qos = call.qos
  <2>1. count.requests \in Nat /\ call.qos \in Nat
    BY <1>0, <1>2 DEF TypeOK
  <2>. QED  BY <1>2, <1>3, <2>1 DEF AnyMsg, Msg
<1>5. Ok(ctx, CallPacket) /\ CallPacket = {}
  BY <1>0, CtxOk DEF CallPacket
<1>6. call.type = "DISCONNECT" <=> call = DisconnCall
  BY <1>2, SlMqttAssumption DEF Calls, ConnectCall, DisconnCall, Publish, Subscribe, Unsubscribe
<1> HIDE DEF id, msg
<1>7. CASE call.type # "DISCONNECT" /\ ctx.free_list = <<>>
  <2>1. app' = After("failed") /\ ctx' = ctx
    BY <1>7 DEF Compose
  <2>2. app' \in AppType /\ app'.pc = "failed"
    BY <1>0, <2>1, AfterType
  <2>3. count' \in [requests : Nat, connects : Nat, msgs : Nat, pings : Nat, drops : Nat]
    BY <1>0, <1>1 DEF TypeOK
  <2>. QED  BY <1>1, <2>1, <2>2, <2>3, AppMoves
<1>8. CASE call.type # "DISCONNECT" /\ ctx.free_list # <<>>
  <2>1. /\ app' = [app EXCEPT !.pc = "composed", !.msg = msg, !.mqp = p]
        /\ ctx' = [new EXCEPT !.msg_id = IF call.qos = 0 THEN @ ELSE id]
    BY <1>8 DEF Compose, id, msg
  <2>2. /\ p \in Packets /\ p \notin Items(ctx.qos_ack1_wl) \cup CallPacket \cup {ctx.tx_mqp, ctx.rx_mqp}
        /\ IsCtx(new) /\ SameBut(ctx, new, {"n_refs", "free_list", "mqp"})
        /\ new.n_refs = [ctx.n_refs EXCEPT ![p] = 1] /\ new.free_list = Tail(ctx.free_list)
        /\ \A q \in Packets : new.mqp[q] = IF q = p THEN msg ELSE ctx.mqp[q]
    BY <1>4, <1>5, <1>8, AllocCtx
  <2> HIDE DEF new, p
  <2>3. app' \in AppType /\ app'.pc = "composed" /\ app'.msg = msg /\ app'.mqp = p /\ app'.call = call
    BY <1>0, <1>4, <2>1, <2>2 DEF AppType
  <2>4. /\ DOMAIN ctx' = CtxFields /\ ctx'.msg_id \in Nat
        /\ \A f \in CtxFields \ {"msg_id"} : ctx'[f] = new[f]
    BY <1>3, <2>1, <2>2 DEF IsCtx, CtxFields
  <2>5. /\ ctx'.n_refs = new.n_refs /\ ctx'.free_list = new.free_list /\ ctx'.mqp = new.mqp
        /\ \A f \in CtxFields \ {"msg_id", "n_refs", "free_list", "mqp"} : ctx'[f] = ctx[f]
    BY <2>2, <2>4 DEF SameBut, CtxFields
  <2>6. /\ ctx'.net = ctx.net /\ ctx'.flags = ctx.flags /\ ctx'.qos_ack1_wl = ctx.qos_ack1_wl
        /\ ctx'.qos2_rx_cq = ctx.qos2_rx_cq /\ ctx'.qos2_tx_cq = ctx.qos2_tx_cq
        /\ ctx'.tx_part = ctx.tx_part /\ ctx'.tx_mqp = ctx.tx_mqp /\ ctx'.rx_mqp = ctx.rx_mqp
        /\ ctx'.tx = ctx.tx
    BY <2>5 DEF CtxFields
  <2>7. IsCtx(ctx)'
    BY <1>0, <2>2, <2>4, <2>5, <2>6 DEF IsCtx, TypeOK
  <2>8. TypeOK'
    BY <1>0, <1>1, <2>3, <2>6, <2>7 DEF TypeOK
  <2>9. CallPacket' = {p} /\ p # NULL
    BY <2>2, <2>3, PacketFacts DEF CallPacket
  <2>10. PoolInv'
    <3>1. \A q \in Packets : Uses(ctx', {p}, q) <= Uses(ctx, CallPacket, q) + One(q = p)
      BY <1>5, <2>6 DEF Uses, One
    <3>2. NoRepeats(ctx'.qos_ack1_wl) /\ ctx'.rx_mqp \notin Items(ctx'.qos_ack1_wl) \cup {p}
          /\ {p} \cap Items(ctx'.qos_ack1_wl) = {}
      BY <1>0, <2>2, <2>6 DEF PoolInv, PoolOK
    <3>3. /\ ctx'.n_refs = [ctx.n_refs EXCEPT ![p] = 1] /\ ctx'.free_list = Tail(ctx.free_list)
          /\ p = Head(ctx.free_list)
      BY <2>2, <2>5 DEF p
    <3>4. PoolOK(ctx', {p})
      BY <1>5, <1>8, <3>1, <3>2, <3>3, AllocAdds
    <3>. QED  BY <2>9, <3>4 DEF PoolInv
  <2>11. CallOK'
    <3>1. ctx'.mqp[p] = msg
      BY <2>2, <2>5
    <3>. QED  BY <1>0, <1>4, <1>6, <1>8, <2>2, <2>3, <2>6, <2>9, <3>1 DEF CallOK
  <2>12. RxOK'
    BY <1>0, <1>1, <2>6 DEF RxOK
  <2>13. Acks' = Acks /\ Reqs' = Reqs
    BY <1>1, <2>6 DEF Acks, Reqs
  <2>14. Handshake'
    BY <1>0, <1>1, <2>3, <2>6, <2>13 DEF Handshake
  <2>15. \A q \in Items(ctx.qos_ack1_wl) : ctx'.mqp[q] = ctx.mqp[q]
    <3>1. Items(ctx.qos_ack1_wl) \subseteq Packets
      BY <1>0 DEF TypeOK, IsCtx, Items
    <3>. QED  BY <2>2, <2>5, <3>1
  <2>16. Sending' => Sending
    BY <1>1, <2>3, <2>6 DEF Sending, MaySend, is_connected
  <2>. QED  BY <2>6, <2>8, <2>10, <2>11, <2>12, <2>13, <2>14, <2>15, <2>16, SameLists
<1>9. CASE call.type = "DISCONNECT"
  <2>1. app' = [app EXCEPT !.pc = "composed", !.msg = msg, !.mqp = NULL] /\ ctx' = ctx
    BY <1>9 DEF Compose, id, msg
  <2>2. app' \in AppType /\ app'.pc = "composed" /\ app'.mqp = NULL /\ app'.call = call
    BY <1>0, <1>4, <2>1 DEF AppType
  <2>3. TypeOK'
    BY <1>0, <1>1, <2>1, <2>2 DEF TypeOK
  <2>4. CallPacket' = {}
    BY <2>2 DEF CallPacket
  <2>5. call = DisconnCall /\ call # ConnectCall
    BY <1>6, <1>9 DEF ConnectCall
  <2>6. CallOK'
    BY <2>2, <2>4, <2>5 DEF CallOK
  <2>7. RxOK'
    BY <1>0, <1>1, <2>1 DEF RxOK
  <2>. QED  BY <1>1, <2>1, <2>2, <2>3, <2>4, <2>6, <2>7, SameCtx
<1>. QED  BY <1>7, <1>8, <1>9

\* A connection is opened, or cannot be.
LEMMA NetConnectOk ==
  ASSUME IInv, NetConnect
  PROVE  IInv'
<1>0. /\ TypeOK /\ PoolInv /\ CallOK /\ RxOK /\ Handshake /\ app.pc = "composed" /\ app \in AppType
      /\ app.call = ConnectCall /\ IsCtx(ctx) /\ DOMAIN ctx = CtxFields
  BY DEF IInv, NetConnect, TypeOK, IsCtx
<1>1. UNCHANGED <<rx, server, count>>
  BY DEF NetConnect
<1>2. app.mqp \in Packets /\ ~ctx.net /\ CallPacket = {app.mqp} /\ app.call.qos = 0
  BY <1>0, PacketFacts DEF CallOK, ConnectCall, DisconnCall, CallPacket
<1>3. "NOW_CONNECTED" \notin ctx.flags /\ Acks = <<>> /\ Reqs = <<>>
  BY <1>0, <1>2 DEF Handshake
<1>4. Ok(ctx, CallPacket)
  BY <1>0, CtxOk
<1>5. CASE app' = After("failed") /\ UNCHANGED <<ctx, link, down>>
  <2>1. app' \in AppType /\ app'.pc = "failed"
    BY <1>0, <1>5, AfterType
  <2>2. count' \in [requests : Nat, connects : Nat, msgs : Nat, pings : Nat, drops : Nat]
    BY <1>0, <1>1 DEF TypeOK
  <2>. QED  BY <1>1, <1>5, <2>1, <2>2, AppMoves
<1> DEFINE opened == [ctx EXCEPT !.net = TRUE, !.tx = <<>>]
           may    == "CONNACK_AWAIT" \notin ctx.flags /\ MaySend(ctx, TRUE)
<1>6. CASE /\ ctx' = IF may THEN tx_part_setup(opened, app.mqp) ELSE opened
           /\ app' = IF may THEN [app EXCEPT !.pc = "sending"] ELSE After("failed")
           /\ link' = "open" /\ down' = <<>>
  <2>1. /\ SameBut(ctx, ctx', {"net", "tx", "tx_part", "tx_mqp"}) /\ ctx'.net /\ ctx'.tx = <<>>
        /\ ctx'.tx_mqp = IF may THEN app.mqp ELSE ctx.tx_mqp
    <3>1. CASE may
      BY <1>0, <1>6, <3>1 DEF tx_part_setup, SameBut, CtxFields
    <3>2. CASE ~may
      BY <1>0, <1>6, <3>2 DEF SameBut, CtxFields
    <3>. QED  BY <3>1, <3>2
  <2>2. /\ app' \in AppType /\ app'.pc = IF may THEN "sending" ELSE "failed"
        /\ app'.call = ConnectCall
        /\ may => app'.mqp = app.mqp /\ app'.msg = app.msg
    <3>1. CASE may
      BY <1>0, <1>6, <3>1 DEF AppType
    <3>2. CASE ~may
      BY <1>0, <1>6, <3>2, AfterType
    <3>. QED  BY <3>1, <3>2
  <2> HIDE DEF opened, may
  <2>3. /\ ctx'.flags = ctx.flags /\ ctx'.qos_ack1_wl = ctx.qos_ack1_wl
        /\ ctx'.qos2_rx_cq = ctx.qos2_rx_cq /\ ctx'.qos2_tx_cq = ctx.qos2_tx_cq
        /\ ctx'.rx_mqp = ctx.rx_mqp /\ ctx'.msg_id = ctx.msg_id /\ ctx'.free_list = ctx.free_list
        /\ ctx'.n_refs = ctx.n_refs /\ ctx'.mqp = ctx.mqp /\ DOMAIN ctx' = CtxFields
    BY <2>1 DEF SameBut, CtxFields
  <2>4. IsCtx(ctx)'
    BY <1>0, <1>2, <2>1, <2>3 DEF IsCtx
  <2>5. TypeOK'
    BY <1>0, <1>1, <1>6, <2>2, <2>3, <2>4 DEF TypeOK
  <2>6. CallPacket' = {}
    BY <1>2, <1>0, <2>2 DEF CallPacket
  <2>7. PoolInv'
    <3>1. \A q \in Packets : Uses(ctx', {}, q) <= Uses(ctx, CallPacket, q)
      BY <1>2, <2>1, <2>3 DEF Uses, One
    <3>2. NoRepeats(ctx'.qos_ack1_wl) /\ ctx'.rx_mqp \notin Items(ctx'.qos_ack1_wl) \cup {}
          /\ {} \cap Items(ctx'.qos_ack1_wl) = {}
      BY <1>0, <2>3 DEF PoolInv, PoolOK
    <3>3. PoolOK(ctx', {})
      BY <1>4, <2>3, <3>1, <3>2, UsesDropped DEF Ok
    <3>. QED  BY <2>6, <3>3 DEF PoolInv
  <2>8. CallOK'
    BY <1>0, <2>2, <2>6 DEF CallOK
  <2>9. RxOK'
    BY <1>0, <1>1, <2>3 DEF RxOK
  <2>10. Acks' = <<>> /\ Reqs' = <<>>
    BY <1>6, <2>1, SiftEmpty DEF Acks, Reqs
  <2>11. Handshake'
    <3>1. Items(down') = {}
      BY <1>6 DEF Items
    <3>. QED  BY <1>0, <1>3, <1>6, <2>1, <2>2, <2>3, <2>10, <3>1 DEF Handshake
  <2>12. ~Sending'
    BY <1>3, <1>6, <2>2, <2>3 DEF Sending, MaySend, is_connected
  <2>. QED  BY <1>3, <2>3, <2>5, <2>7, <2>8, <2>9, <2>10, <2>11, <2>12, SameLists
<1>. QED  BY <1>5, <1>6 DEF NetConnect

\* Where a call goes on after a send that failed.
LEMMA NotSentPc == NotSent \in {"wait", "exit", "failed"}
BY DEF NotSent

\* A call hands its packet to the connection.
LEMMA DispatchOk ==
  ASSUME IInv, Dispatch
  PROVE  IInv'
<1>0. /\ TypeOK /\ PoolInv /\ CallOK /\ RxOK /\ Handshake /\ app.pc = "composed" /\ app \in AppType
      /\ app.call # ConnectCall /\ IsCtx(ctx) /\ DOMAIN ctx = CtxFields
  BY DEF IInv, Dispatch, TypeOK, IsCtx
<1>1. UNCHANGED <<rx, link, down, server, count>>
  BY DEF Dispatch, serverVars
<1>2. app.call = DisconnCall \/ app.call \in Requests
  BY <1>0 DEF AppType, Calls
<1>3. app.call.qos \in 0..2 /\ (app.call = DisconnCall => app.call.qos = 0)
  BY <1>2, SlMqttAssumption DEF DisconnCall, Publish, Subscribe, Unsubscribe
<1>4. IF app.call = DisconnCall THEN app.mqp = NULL /\ CallPacket = {}
      ELSE app.mqp \in Packets /\ CallPacket = {app.mqp}
  BY <1>0, PacketFacts DEF CallOK, CallPacket
<1>5. app.call.qos # 0 => app.mqp \in Packets
  BY <1>3, <1>4
<1>6. Ok(ctx, CallPacket)
  BY <1>0, CtxOk
<1>7. \A q \in Packets : Uses(ctx, CallPacket, q) \in Nat
  BY UsesNat
<1>8. CASE MaySend(ctx, FALSE)
  <2> DEFINE held == IF app.call.qos = 0 THEN ctx ELSE Hold(ctx, app.mqp)
  <2>1. /\ SameBut(ctx, ctx', {"tx_part", "tx_mqp", "n_refs"}) /\ ctx'.tx_mqp = app.mqp
        /\ ctx'.n_refs = IF app.call.qos = 0 THEN ctx.n_refs ELSE [ctx.n_refs EXCEPT ![app.mqp] = @ + 1]
    <3>1. ctx' = tx_part_setup(held, app.mqp)
      BY <1>8 DEF Dispatch
    <3>2. CASE app.call.qos = 0
      BY <1>0, <3>1, <3>2 DEF tx_part_setup, SameBut, CtxFields
    <3>3. CASE app.call.qos # 0
      BY <1>0, <3>1, <3>3 DEF tx_part_setup, SameBut, CtxFields, Hold
    <3>. QED  BY <3>2, <3>3
  <2>2. /\ app' = [app EXCEPT !.pc = "sending"]
        /\ app' \in AppType /\ app'.pc = "sending" /\ app'.call = app.call /\ app'.mqp = app.mqp /\ app'.msg = app.msg
    BY <1>0, <1>8 DEF Dispatch, AppType
  <2> HIDE DEF held
  <2>3. /\ ctx'.net = ctx.net /\ ctx'.flags = ctx.flags /\ ctx'.qos_ack1_wl = ctx.qos_ack1_wl
        /\ ctx'.qos2_rx_cq = ctx.qos2_rx_cq /\ ctx'.qos2_tx_cq = ctx.qos2_tx_cq
        /\ ctx'.rx_mqp = ctx.rx_mqp /\ ctx'.msg_id = ctx.msg_id /\ ctx'.free_list = ctx.free_list
        /\ ctx'.mqp = ctx.mqp /\ DOMAIN ctx' = CtxFields /\ ctx'.tx = ctx.tx
    BY <2>1 DEF SameBut, CtxFields
  <2>4. IsCtx(ctx)'
    <3>0. ctx.n_refs \in [Packets -> Nat]
      BY <1>0 DEF IsCtx
    <3>1. ctx'.n_refs \in [Packets -> Nat]
      BY <1>5, <2>1, <3>0
    <3>2. ctx'.tx_mqp \in Packets \cup {NULL}
      BY <1>4, <2>1
    <3>. QED  BY <1>0, <2>3, <3>1, <3>2 DEF IsCtx
  <2>5. TypeOK'
    BY <1>0, <1>1, <2>2, <2>3, <2>4 DEF TypeOK
  <2>6. CallPacket' = IF app.call.qos = 0 THEN {} ELSE CallPacket
    BY <1>0, <1>3, <2>2 DEF CallPacket
  <2>7. PoolInv'
    <3>1. NoRepeats(ctx'.qos_ack1_wl) /\ ctx'.rx_mqp \notin Items(ctx'.qos_ack1_wl) \cup CallPacket
          /\ CallPacket \cap Items(ctx'.qos_ack1_wl) = {}
      BY <1>0, <2>3 DEF PoolInv, PoolOK
    <3>2. CASE app.call.qos = 0
      <4>1. \A q \in Packets : Uses(ctx', {}, q) <= Uses(ctx, CallPacket, q)
        BY <1>4, <2>1, <2>3, PacketFacts DEF Uses, One
      <4>2. ctx'.rx_mqp \notin Items(ctx'.qos_ack1_wl) \cup {} /\ {} \cap Items(ctx'.qos_ack1_wl) = {}
        BY <3>1
      <4>3. ctx'.n_refs = ctx.n_refs
        BY <2>1, <3>2
      <4>4. PoolOK(ctx', {})
        BY <1>6, <2>3, <3>1, <4>1, <4>2, <4>3, UsesDropped DEF Ok
      <4>. QED  BY <2>6, <3>2, <4>4 DEF PoolInv
    <3>3. CASE app.call.qos # 0
      <4>1. \A q \in Packets : Uses(ctx', CallPacket, q) <= Uses(ctx, CallPacket, q) + One(q = app.mqp)
        BY <1>5, <2>1, <2>3 DEF Uses, One
      <4>2. Uses(ctx, CallPacket, app.mqp) > 0
        BY <1>3, <1>4, <3>3 DEF Uses, One
      <4>3. ctx'.n_refs = [ctx.n_refs EXCEPT ![app.mqp] = @ + 1] /\ app.mqp \in Packets
        BY <1>5, <2>1, <3>3
      <4>4. PoolOK(ctx', CallPacket)
        BY <1>6, <2>3, <3>1, <4>1, <4>2, <4>3, HoldAdds DEF Ok
      <4>. QED  BY <2>6, <3>3, <4>4 DEF PoolInv
    <3>. QED  BY <3>2, <3>3
  <2>8. CallOK'
    BY <1>0, <2>2, <2>3, <2>6 DEF CallOK
  <2>9. RxOK'
    BY <1>0, <1>1, <2>3 DEF RxOK
  <2>10. Acks' = Acks /\ Reqs' = Reqs
    BY <1>1, <2>3 DEF Acks, Reqs
  <2>11. Handshake'
    BY <1>0, <1>1, <1>8, <2>2, <2>3, <2>10 DEF Handshake, MaySend, is_connected
  <2>12. Sending' => Sending
    BY <1>1, <1>8 DEF Sending
  <2>. QED  BY <2>3, <2>5, <2>7, <2>8, <2>9, <2>10, <2>11, <2>12, SameLists
<1>9. CASE ~MaySend(ctx, FALSE)
  <2>1. app' = After(NotSent)
    BY <1>9 DEF Dispatch
  <2>2. app' \in AppType /\ app'.pc \in {"wait", "exit", "failed"}
    BY <1>0, <2>1, AfterType, NotSentPc
  <2>3. count' \in [requests : Nat, connects : Nat, msgs : Nat, pings : Nat, drops : Nat]
    BY <1>0, <1>1 DEF TypeOK
  <2>4. CASE app.call.qos = 0
    <3>1. ctx' = ctx
      BY <1>9, <2>4 DEF Dispatch
    <3>. QED  BY <1>1, <2>2, <2>3, <3>1, AppMoves
  <2>5. CASE app.call.qos # 0
    <3> DEFINE held == Hold(ctx, app.mqp)
    <3>1. Uses(ctx, CallPacket, app.mqp) > 0 /\ app.mqp \in Packets
      BY <1>3, <1>4, <2>5 DEF Uses, One
    <3>2. ctx.n_refs[app.mqp] > 0 /\ ctx.n_refs \in [Packets -> Nat]
      BY <1>0, <1>6, <3>1, UsedIsNotFree DEF Ok, IsCtx
    <3>3. /\ SameBut(ctx, held, {"n_refs"}) /\ held.n_refs = [ctx.n_refs EXCEPT ![app.mqp] = @ + 1]
      BY <1>0 DEF Hold, SameBut, CtxFields
    <3>4. ctx' = mqp_free(held, app.mqp)
      BY <1>9, <2>5 DEF Dispatch
    <3> HIDE DEF held
    <3>5. held.n_refs[app.mqp] = ctx.n_refs[app.mqp] + 1 /\ held.n_refs \in [Packets -> Nat]
      BY <3>1, <3>2, <3>3
    <3>6. IsCtx(held)
      BY <1>0, <3>3, <3>5 DEF SameBut, CtxFields, IsCtx
    <3>7. held.n_refs[app.mqp] > 0 /\ held.n_refs[app.mqp] # 1
      BY <3>1, <3>2, <3>5
    <3>8. /\ IsCtx(ctx') /\ SameBut(held, ctx', {"n_refs", "free_list", "mqp"})
          /\ ctx'.n_refs = [held.n_refs EXCEPT ![app.mqp] = @ - 1]
          /\ ctx'.free_list = held.free_list
          /\ \A q \in Packets : ctx'.mqp[q] = held.mqp[q]
      <4>0. /\ app.mqp \in Packets /\ ctx' = mqp_free(held, app.mqp)
            /\ IsCtx(held) /\ held.n_refs[app.mqp] > 0
        BY <3>1, <3>4, <3>6, <3>7
      <4>1. /\ IsCtx(ctx') /\ SameBut(held, ctx', {"n_refs", "free_list", "mqp"})
            /\ ctx'.n_refs = [held.n_refs EXCEPT ![app.mqp] = @ - 1]
            /\ ctx'.free_list = IF held.n_refs[app.mqp] = 1 THEN <<app.mqp>> \o held.free_list ELSE held.free_list
            /\ \A q \in Packets : ctx'.mqp[q] = IF q = app.mqp /\ held.n_refs[app.mqp] = 1 THEN NoMsg ELSE held.mqp[q]
        BY ONLY <4>0, FreeCtx
      <4>. QED  BY <3>7, <4>1
    <3>9. ctx'.n_refs = ctx.n_refs
      BY <3>1, <3>2, <3>3, <3>5, <3>8
    <3>10. /\ ctx'.net = ctx.net /\ ctx'.flags = ctx.flags /\ ctx'.qos_ack1_wl = ctx.qos_ack1_wl
           /\ ctx'.qos2_rx_cq = ctx.qos2_rx_cq /\ ctx'.qos2_tx_cq = ctx.qos2_tx_cq
           /\ ctx'.rx_mqp = ctx.rx_mqp /\ ctx'.free_list = ctx.free_list /\ ctx'.tx = ctx.tx
           /\ ctx'.tx_mqp = ctx.tx_mqp /\ ctx'.tx_part = ctx.tx_part
           /\ \A q \in Packets : ctx'.mqp[q] = ctx.mqp[q]
      BY <3>3, <3>8 DEF SameBut, CtxFields
    <3>11. TypeOK'
      BY <1>0, <1>1, <2>2, <3>8, <3>10 DEF TypeOK
    <3>12. CallPacket' = {}
      BY <2>2 DEF CallPacket
    <3>13. PoolInv'
      <4>1. \A q \in Packets : Uses(ctx', {}, q) <= Uses(ctx, CallPacket, q)
        BY <3>10 DEF Uses, One
      <4>2. NoRepeats(ctx'.qos_ack1_wl) /\ ctx'.rx_mqp \notin Items(ctx'.qos_ack1_wl) \cup {}
            /\ {} \cap Items(ctx'.qos_ack1_wl) = {}
        BY <1>0, <3>10 DEF PoolInv, PoolOK
      <4>3. PoolOK(ctx', {})
        BY <1>6, <3>9, <3>10, <4>1, <4>2, UsesDropped DEF Ok
      <4>. QED  BY <3>12, <4>3 DEF PoolInv
    <3>14. CallOK'
      BY <2>2, <3>12 DEF CallOK
    <3>15. RxOK'
      BY <1>0, <1>1, <3>10 DEF RxOK
    <3>16. Acks' = Acks /\ Reqs' = Reqs
      BY <1>1, <3>10 DEF Acks, Reqs
    <3>17. Handshake'
      BY <1>0, <1>1, <2>2, <3>10, <3>16 DEF Handshake
    <3>18. Sending' => Sending
      BY <1>1, <2>2, <3>10 DEF Sending, MaySend, is_connected
    <3>19. \A q \in Items(ctx.qos_ack1_wl) : ctx'.mqp[q] = ctx.mqp[q]
      BY <1>0, <3>10 DEF IsCtx, Items
    <3>. QED  BY <3>10, <3>11, <3>13, <3>14, <3>15, <3>16, <3>17, <3>18, <3>19, SameLists
  <2>. QED  BY <2>4, <2>5
<1>. QED  BY <1>8, <1>9

\* The call has done with its packet, and the context is in order without it.
LEMMA CallDone ==
  ASSUME IInv, NEW pc \in {"wait", "exit", "failed"}, app' = After(pc),
         UNCHANGED <<rx, link, down, server, count>>, Ok(ctx', {}),
         ctx'.qos2_rx_cq = ctx.qos2_rx_cq, ctx'.qos2_tx_cq = ctx.qos2_tx_cq, ctx'.rx_mqp = ctx.rx_mqp,
         "NOW_CONNECTED" \in ctx.flags => "NOW_CONNECTED" \in ctx'.flags
  PROVE  TypeOK' /\ PoolInv' /\ CallOK' /\ RxOK' /\ app'.pc = pc /\ Acks' = Acks
<1>1. app' \in AppType /\ app'.pc = pc
  BY AfterType DEF IInv
<1>2. TypeOK'
  BY <1>1 DEF IInv, TypeOK, Ok
<1>3. CallPacket' = {}
  BY <1>1 DEF CallPacket
<1>4. PoolInv'
  BY <1>3 DEF PoolInv, Ok
<1>5. CallOK' /\ RxOK'
  BY <1>1, <1>3 DEF CallOK, RxOK, IInv
<1>6. Acks' = Acks
  BY DEF Acks
<1>. QED  BY <1>1, <1>2, <1>4, <1>5, <1>6

\* A packet that is no request is sent.
LEMMA NoReqSent ==
  ASSUME TypeOK, NEW m \in AnyMsg, m \notin ReqMsgs, link' = link, ctx'.tx = Append(ctx.tx, m)
  PROVE  Reqs' = Reqs
<1>1. ctx.tx \in Seq(AnyMsg)
  BY DEF TypeOK, IsCtx
<1>2. Sift(Append(ctx.tx, m), ReqMsgs) = Sift(ctx.tx, ReqMsgs)
  BY <1>1, SiftAppend
<1>. QED  BY <1>2 DEF Reqs

\* CONNECT is under way.
LEMMA ConnectSentOk ==
  ASSUME IInv, ConnectSent
  PROVE  IInv'
<1> DEFINE sent == cl_ctx_part_send(ctx, app.msg, TRUE)
<1>0. /\ TypeOK /\ PoolInv /\ CallOK /\ RxOK /\ Handshake /\ app.pc = "sending" /\ app \in AppType
      /\ app.call = ConnectCall /\ app.msg \in AnyMsg
  BY DEF IInv, ConnectSent, TypeOK, AppType
<1>1. UNCHANGED <<rx, link, down, server, count>> /\ app' = After("wait")
  BY DEF ConnectSent, serverVars
<1>2. CallPacket = {} /\ app.msg.type = "CONNECT"
  BY <1>0 DEF CallOK, CallPacket, ConnectCall, DisconnCall
<1>3. Ok(ctx, {})
  BY <1>0, <1>2, CtxOk
<1>4. /\ Ok(sent, {}) /\ SameBut(ctx, sent, {"n_refs", "free_list", "mqp", "tx_mqp", "tx_part", "tx"})
      /\ Kept(ctx, sent, {}) /\ sent.tx = Append(ctx.tx, app.msg)
  BY <1>0, <1>3, PartSent
<1>5. /\ SameBut(sent, ctx', {"flags"})
      /\ ctx'.flags = sent.flags \cup {"CONNACK_AWAIT"} \cup (IF app.clean THEN {"CLEAN_SESSION"} ELSE {})
  <2>1. DOMAIN sent = CtxFields
    BY <1>4 DEF Ok, IsCtx
  <2>2. ctx' = [sent EXCEPT !.flags = @ \cup {"CONNACK_AWAIT"} \cup (IF app.clean THEN {"CLEAN_SESSION"} ELSE {})]
    BY DEF ConnectSent
  <2> HIDE DEF sent
  <2>. QED  BY <2>1, <2>2 DEF SameBut, CtxFields
<1> HIDE DEF sent
<1>6. /\ ctx'.net = ctx.net /\ ctx'.qos_ack1_wl = ctx.qos_ack1_wl
      /\ ctx'.qos2_rx_cq = ctx.qos2_rx_cq /\ ctx'.qos2_tx_cq = ctx.qos2_tx_cq
      /\ ctx'.rx_mqp = ctx.rx_mqp /\ ctx'.mqp = sent.mqp /\ ctx'.tx = sent.tx
      /\ ctx'.qos_ack1_wl = sent.qos_ack1_wl /\ sent.flags = ctx.flags
  BY <1>4, <1>5 DEF SameBut, CtxFields
<1>7. Ok(ctx', {})
  <2>1. SameBut(sent, ctx', {"tx", "flags", "net", "qos2_rx_cq", "qos2_tx_cq", "msg_id", "tx_part"})
    BY <1>5 DEF SameBut
  <2>2. ctx'.tx \in Seq(AnyMsg) /\ ctx'.msg_id \in Nat
    BY <1>4, <1>5 DEF SameBut, CtxFields, Ok, IsCtx
  <2>. QED  BY <1>4, <2>1, <2>2, PlainChange
<1>8. TypeOK' /\ PoolInv' /\ CallOK' /\ RxOK' /\ app'.pc = "wait" /\ Acks' = Acks
  BY <1>1, <1>5, <1>6, <1>7, CallDone
<1>9. Reqs' = Reqs
  <2>1. app.msg \notin ReqMsgs
    BY <1>2 DEF ReqMsgs
  <2>. QED  BY <1>0, <1>1, <1>4, <1>6, <2>1, NoReqSent
<1>10. "NOW_CONNECTED" \notin ctx'.flags /\ "NOW_CONNECTED" \notin ctx.flags
  BY <1>0, <1>5, <1>6 DEF Handshake
<1>11. Handshake'
  BY <1>0, <1>1, <1>6, <1>8, <1>9, <1>10 DEF Handshake
<1>12. ~Sending'
  BY <1>8, <1>10 DEF Sending, MaySend, is_connected
<1>13. \A q \in Items(ctx.qos_ack1_wl) : ctx'.mqp[q] = ctx.mqp[q]
  BY <1>4, <1>6 DEF Kept
<1>. QED  BY <1>6, <1>8, <1>9, <1>11, <1>12, <1>13, SameLists

\* DISCONNECT is under way and the connection is closed.
LEMMA DisconnSentOk ==
  ASSUME IInv, DisconnSent
  PROVE  IInv'
<1> DEFINE m    == VhMsg("DISCONNECT", 0)
           sent == cl_ctx_part_send(ctx, m, TRUE)
<1>0. /\ TypeOK /\ PoolInv /\ CallOK /\ RxOK /\ Handshake /\ app.pc = "sending" /\ app \in AppType
      /\ app.call = DisconnCall
  BY DEF IInv, DisconnSent, TypeOK
<1>1. UNCHANGED <<rx, link, down, server, count>> /\ app' = After("wait")
  BY DEF DisconnSent, serverVars
<1>2. CallPacket = {} /\ m \in AnyMsg /\ m.type = "DISCONNECT"
  <2>1. CallPacket = {}
    BY <1>0 DEF CallPacket, DisconnCall
  <2>2. "DISCONNECT" \in PacketTypes /\ 0 \in Nat
    BY DEF PacketTypes
  <2>. QED  BY <2>1, <2>2, MsgTypes
<1> HIDE DEF m
<1>3. Ok(ctx, {})
  BY <1>0, <1>2, CtxOk
<1>4. /\ Ok(sent, {}) /\ SameBut(ctx, sent, {"n_refs", "free_list", "mqp", "tx_mqp", "tx_part", "tx"})
      /\ Kept(ctx, sent, {}) /\ sent.tx = Append(ctx.tx, m)
  BY <1>2, <1>3, PartSent
<1>5. SameBut(sent, ctx', {"flags"}) /\ ctx'.flags = sent.flags \cup {"NETWORK_CLOSE"}
  <2>1. DOMAIN sent = CtxFields
    BY <1>4 DEF Ok, IsCtx
  <2>2. ctx' = do_net_close_tx(sent)
    BY DEF DisconnSent, m
  <2> HIDE DEF sent
  <2>. QED  BY <2>1, <2>2 DEF SameBut, CtxFields, do_net_close_tx
<1> HIDE DEF sent
<1>6. /\ ctx'.net = ctx.net /\ ctx'.qos_ack1_wl = ctx.qos_ack1_wl
      /\ ctx'.qos2_rx_cq = ctx.qos2_rx_cq /\ ctx'.qos2_tx_cq = ctx.qos2_tx_cq
      /\ ctx'.rx_mqp = ctx.rx_mqp /\ ctx'.mqp = sent.mqp /\ ctx'.tx = sent.tx
      /\ ctx'.qos_ack1_wl = sent.qos_ack1_wl /\ sent.flags = ctx.flags
  BY <1>4, <1>5 DEF SameBut, CtxFields
<1>7. Ok(ctx', {})
  <2>1. SameBut(sent, ctx', {"tx", "flags", "net", "qos2_rx_cq", "qos2_tx_cq", "msg_id", "tx_part"})
    BY <1>5 DEF SameBut
  <2>2. ctx'.tx \in Seq(AnyMsg) /\ ctx'.msg_id \in Nat
    BY <1>4, <1>5 DEF SameBut, CtxFields, Ok, IsCtx
  <2>. QED  BY <1>4, <2>1, <2>2, PlainChange
<1>8. TypeOK' /\ PoolInv' /\ CallOK' /\ RxOK' /\ app'.pc = "wait" /\ Acks' = Acks
  BY <1>1, <1>5, <1>6, <1>7, CallDone
<1>9. Reqs' = Reqs
  <2>1. m \notin ReqMsgs
    BY <1>2 DEF ReqMsgs
  <2>. QED  BY <1>0, <1>1, <1>2, <1>4, <1>6, <2>1, NoReqSent
<1>10. Handshake'
  BY <1>0, <1>1, <1>5, <1>6, <1>8, <1>9 DEF Handshake
<1>11. ~Sending'
  BY <1>5, <1>8 DEF Sending, MaySend, is_connected
<1>12. \A q \in Items(ctx.qos_ack1_wl) : ctx'.mqp[q] = ctx.mqp[q]
  BY <1>4, <1>6 DEF Kept
<1>. QED  BY <1>6, <1>8, <1>9, <1>10, <1>11, <1>12, SameLists

\* A send fails and closes the connection.
LEMMA SendFailsOk ==
  ASSUME IInv, SendFails
  PROVE  IInv'
<1> DEFINE failed == do_net_close_tx(ctx)
<1>0. /\ TypeOK /\ PoolInv /\ CallOK /\ RxOK /\ Handshake /\ app.pc = "sending" /\ app \in AppType
      /\ DOMAIN ctx = CtxFields /\ link = "none"
  BY DEF IInv, SendFails, TypeOK, IsCtx, SendOk
<1>1. UNCHANGED <<rx, link, down, server, count>> /\ app' = After(NotSent) /\ NotSent \in {"wait", "exit", "failed"}
  BY NotSentPc DEF SendFails, serverVars
<1>2. Ok(ctx, CallPacket)
  BY <1>0, CtxOk
<1>3. SameBut(ctx, failed, {"flags"}) /\ failed.flags = ctx.flags \cup {"NETWORK_CLOSE"}
  BY <1>0 DEF SameBut, CtxFields, do_net_close_tx
<1>4. ctx' = IF app.call.qos = 0 THEN failed ELSE mqp_free(failed, app.mqp)
  BY DEF SendFails
<1> HIDE DEF failed
<1>5. Ok(failed, CallPacket)
  <2>1. SameBut(ctx, failed, {"tx", "flags", "net", "qos2_rx_cq", "qos2_tx_cq", "msg_id", "tx_part"})
    BY <1>3 DEF SameBut
  <2>2. failed.tx \in Seq(AnyMsg) /\ failed.msg_id \in Nat
    BY <1>2, <1>3 DEF SameBut, CtxFields, Ok, IsCtx
  <2>. QED  BY <1>2, <2>1, <2>2, PlainChange
<1>6. /\ Ok(ctx', {}) /\ SameBut(ctx, ctx', {"flags", "n_refs", "free_list", "mqp"})
      /\ ctx'.flags = ctx.flags \cup {"NETWORK_CLOSE"}
      /\ \A q \in Items(ctx.qos_ack1_wl) : ctx'.mqp[q] = ctx.mqp[q]
  <2>1. CASE app.call.qos = 0
    <3>1. ctx' = failed /\ {} \subseteq CallPacket
      BY <1>4, <2>1
    <3>2. Ok(failed, {})
      BY <1>5, OwnShrinks
    <3>. QED  BY <1>3, <3>1, <3>2 DEF SameBut, CtxFields
  <2>2. CASE app.call.qos # 0
    <3>1. app.call # DisconnCall /\ app.call.qos > 0
      <4>1. app.call \in Calls
        BY <1>0 DEF AppType
      <4>. QED  BY <2>2, <4>1, SlMqttAssumption DEF Calls, ConnectCall, DisconnCall, Publish, Subscribe, Unsubscribe
    <3>2. app.mqp \in Packets /\ CallPacket = {app.mqp}
      BY <1>0, <3>1, PacketFacts DEF CallOK, CallPacket
    <3>3. /\ IsCtx(failed) /\ PoolOK(failed, CallPacket)
          /\ failed.qos_ack1_wl = ctx.qos_ack1_wl /\ failed.mqp = ctx.mqp
      BY <1>3, <1>5 DEF Ok, SameBut, CtxFields
    <3>4. failed.n_refs[app.mqp] > 0
      <4>1. Uses(failed, CallPacket, app.mqp) > 0
        BY <3>2 DEF Uses, One
      <4>. QED  BY <3>2, <3>3, <4>1, UsedIsNotFree
    <3>5. ctx' = mqp_free(failed, app.mqp) /\ app.mqp \in Packets
      BY <1>4, <2>2, <3>2
    <3>6. /\ IsCtx(ctx') /\ SameBut(failed, ctx', {"n_refs", "free_list", "mqp"})
          /\ ctx'.n_refs = [failed.n_refs EXCEPT ![app.mqp] = @ - 1]
          /\ ctx'.free_list = IF failed.n_refs[app.mqp] = 1 THEN <<app.mqp>> \o failed.free_list ELSE failed.free_list
          /\ \A q \in Packets : ctx'.mqp[q] = IF q = app.mqp /\ failed.n_refs[app.mqp] = 1 THEN NoMsg ELSE failed.mqp[q]
      BY ONLY <3>3, <3>4, <3>5, FreeCtx
    <3>7. /\ ctx'.qos_ack1_wl = failed.qos_ack1_wl /\ ctx'.tx_mqp = failed.tx_mqp /\ ctx'.rx_mqp = failed.rx_mqp
          /\ ctx'.flags = failed.flags
      BY <3>6 DEF SameBut, CtxFields
    <3>8. \A q \in Packets : Uses(ctx', {}, q) + One(q = app.mqp) <= Uses(failed, CallPacket, q)
      BY <3>2, <3>7 DEF Uses, One
    <3>9. NoRepeats(ctx'.qos_ack1_wl) /\ ctx'.rx_mqp \notin Items(ctx'.qos_ack1_wl) \cup {}
          /\ {} \cap Items(ctx'.qos_ack1_wl) = {}
      BY <3>3, <3>7 DEF PoolOK
    <3>10. PoolOK(ctx', {})
      BY ONLY <3>3, <3>5, <3>6, <3>8, <3>9, FreeDrops
    <3>11. \A q \in Items(ctx.qos_ack1_wl) : q \in Packets /\ q # app.mqp
      BY <1>2, <3>2 DEF Ok, IsCtx, Items, PoolOK
    <3>12. SameBut(ctx, ctx', {"flags", "n_refs", "free_list", "mqp"})
      BY <1>3, <3>6 DEF SameBut, CtxFields
    <3>. QED  BY <1>3, <3>3, <3>6, <3>7, <3>10, <3>11, <3>12 DEF Ok
  <2>. QED  BY <2>1, <2>2
<1>7. /\ ctx'.net = ctx.net /\ ctx'.qos_ack1_wl = ctx.qos_ack1_wl
      /\ ctx'.qos2_rx_cq = ctx.qos2_rx_cq /\ ctx'.qos2_tx_cq = ctx.qos2_tx_cq
      /\ ctx'.rx_mqp = ctx.rx_mqp /\ ctx'.tx = ctx.tx
  BY <1>6 DEF SameBut, CtxFields
<1>8. TypeOK' /\ PoolInv' /\ CallOK' /\ RxOK' /\ app'.pc = NotSent /\ Acks' = Acks
  BY <1>1, <1>6, <1>7, CallDone
<1>9. Reqs' = Reqs
  BY <1>1, <1>7 DEF Reqs
<1>10. Handshake'
  BY <1>0, <1>1, <1>6, <1>7, <1>8, <1>9 DEF Handshake
<1>11. ~Sending'
  BY <1>0, <1>1 DEF Sending
<1>. QED  BY <1>6, <1>7, <1>8, <1>9, <1>10, <1>11, SameLists

\* A message is under way and, with QoS above 0, on the wait list.
LEMMA MsgSentOk ==
  ASSUME IInv, MsgSent
  PROVE  IInv'
<1> DEFINE sent == cl_ctx_part_send(ctx, app.msg, TRUE)
           pc   == IF Blocks(app.call) THEN "wait" ELSE "exit"
<1>0. /\ TypeOK /\ PoolInv /\ CallOK /\ RxOK /\ Handshake /\ ListOK /\ OrderOK /\ AllUnderWay
      /\ app.pc = "sending" /\ app \in AppType /\ app.msg \in AnyMsg
      /\ app.call.type \notin {"CONNECT", "DISCONNECT"}
  BY DEF IInv, MsgSent, TypeOK, AppType
<1>1. UNCHANGED <<rx, link, down, server, count>> /\ app' = After(pc) /\ pc \in {"wait", "exit", "failed"}
  BY DEF MsgSent, serverVars
<1>2. /\ app.call \in Requests /\ app.call # ConnectCall /\ app.call # DisconnCall
  BY <1>0 DEF AppType, Calls, ConnectCall, DisconnCall
<1>3. app.mqp \in Packets /\ app.msg.type = app.call.type /\ app.msg.qos = app.call.qos
  BY <1>0, <1>2 DEF CallOK
<1>4. Ok(ctx, CallPacket) /\ CallPacket \subseteq Packets
  BY <1>0, CtxOk DEF Ok
<1>5. /\ Ok(sent, CallPacket) /\ SameBut(ctx, sent, {"n_refs", "free_list", "mqp", "tx_mqp", "tx_part", "tx"})
      /\ Kept(ctx, sent, CallPacket) /\ sent.tx = Append(ctx.tx, app.msg)
  BY <1>0, <1>4, PartSent
<1>6. ctx' = IF app.call.qos = 0 THEN sent ELSE [sent EXCEPT !.qos_ack1_wl = Append(@, app.mqp)]
  BY DEF MsgSent
<1> HIDE DEF sent, pc
<1>7. /\ sent.net = ctx.net /\ sent.qos_ack1_wl = ctx.qos_ack1_wl
      /\ sent.qos2_rx_cq = ctx.qos2_rx_cq /\ sent.qos2_tx_cq = ctx.qos2_tx_cq
      /\ sent.rx_mqp = ctx.rx_mqp /\ sent.flags = ctx.flags
  BY <1>5 DEF SameBut, CtxFields
<1>8. CASE app.call.qos = 0
  <2>1. ctx' = sent /\ {} \subseteq CallPacket
    BY <1>6, <1>8
  <2>2. Ok(ctx', {})
    BY <1>5, <2>1, OwnShrinks
  <2>3. TypeOK' /\ PoolInv' /\ CallOK' /\ RxOK' /\ app'.pc = pc /\ Acks' = Acks
    BY <1>1, <1>7, <2>1, <2>2, CallDone
  <2>4. Reqs' = Reqs
    <3>1. app.msg \notin ReqMsgs
      <4>1. app.call = Publish(0)
        BY <1>2, <1>8, SlMqttAssumption DEF Publish, Subscribe, Unsubscribe
      <4>2. app.msg.type = "PUBLISH" /\ app.msg.qos = 0
        BY <1>3, <4>1 DEF Publish
      <4>. QED  BY <4>2 DEF ReqMsgs
    <3>. QED  BY <1>0, <1>1, <1>5, <2>1, <3>1, NoReqSent
  <2>5. Handshake'
    BY <1>0, <1>1, <1>7, <2>1, <2>3, <2>4 DEF Handshake
  <2>6. Sending' => Sending
    BY <1>0, <1>1, <1>2 DEF Sending
  <2>7. \A q \in Items(ctx.qos_ack1_wl) : ctx'.mqp[q] = ctx.mqp[q]
    BY <1>5, <1>7, <2>1 DEF Kept
  <2>. QED  BY <1>7, <2>1, <2>3, <2>4, <2>5, <2>6, <2>7, SameLists
<1>9. CASE app.call.qos # 0
  <2>0. app.call.qos \in {1, 2} /\ app.msg \in ReqMsgs
    <3>1. app.call \in {Publish(1), Publish(2), Subscribe, Unsubscribe}
      BY <1>2, <1>9, SlMqttAssumption DEF Publish
    <3>2. /\ app.msg.id \in Nat /\ app.msg.body \in Nat /\ app.msg \in AnyMsg
      BY <1>0 DEF AnyMsg
    <3>3. \/ app.call.type = "PUBLISH" /\ app.call.qos \in {1, 2}
          \/ app.call.type \in {"SUBSCRIBE", "UNSUBSCRIBE"} /\ app.call.qos = 1
      BY <3>1 DEF Publish, Subscribe, Unsubscribe
    <3>4. app.msg \in ReqMsgs
      BY <1>3, <3>2, <3>3 DEF AnyMsg, ReqMsgs
    <3>. QED  BY <3>3, <3>4
  <2> DEFINE wl == ctx.qos_ack1_wl
  <2>1. CallPacket = {app.mqp}
    BY <1>0, <1>3, <2>0, PacketFacts DEF CallPacket
  <2>2. /\ SameBut(sent, ctx', {"qos_ack1_wl"}) /\ ctx'.qos_ack1_wl = Append(wl, app.mqp)
    <3>1. DOMAIN sent = CtxFields
      BY <1>5 DEF Ok, IsCtx
    <3>2. ctx' = [sent EXCEPT !.qos_ack1_wl = Append(@, app.mqp)]
      BY <1>6, <1>9
    <3>. QED  BY <1>7, <3>1, <3>2 DEF SameBut, CtxFields
  <2>3. /\ ctx'.net = sent.net /\ ctx'.qos2_rx_cq = sent.qos2_rx_cq /\ ctx'.qos2_tx_cq = sent.qos2_tx_cq
        /\ ctx'.rx_mqp = sent.rx_mqp /\ ctx'.flags = sent.flags /\ ctx'.tx = sent.tx /\ ctx'.mqp = sent.mqp
        /\ ctx'.n_refs = sent.n_refs /\ ctx'.free_list = sent.free_list /\ ctx'.tx_mqp = sent.tx_mqp
        /\ ctx'.msg_id = sent.msg_id /\ DOMAIN ctx' = CtxFields
    BY <2>2 DEF SameBut, CtxFields
  <2>4. /\ IsCtx(sent) /\ PoolOK(sent, CallPacket) /\ wl \in Seq(Packets) /\ NoRepeats(wl)
        /\ app.mqp \notin Items(wl) /\ sent.rx_mqp \notin Items(wl) \cup {app.mqp}
    BY <1>0, <1>5, <1>7, <2>1 DEF Ok, PoolOK, IsCtx, TypeOK
  <2>5. /\ Append(wl, app.mqp) \in Seq(Packets) /\ NoRepeats(Append(wl, app.mqp))
        /\ Items(Append(wl, app.mqp)) = Items(wl) \cup {app.mqp}
    BY <1>3, <2>4, AppendItems
  <2> HIDE DEF wl
  <2>6. Ok(ctx', {})
    <3>1. \A q \in Packets : Uses(ctx', {}, q) <= Uses(sent, CallPacket, q)
      BY <1>7, <2>1, <2>2, <2>3, <2>5 DEF Uses, One, wl
    <3>2. NoRepeats(ctx'.qos_ack1_wl) /\ ctx'.rx_mqp \notin Items(ctx'.qos_ack1_wl) \cup {}
          /\ {} \cap Items(ctx'.qos_ack1_wl) = {}
      BY <2>2, <2>3, <2>4, <2>5
    <3>3. PoolOK(ctx', {})
      BY ONLY <2>3, <2>4, <3>1, <3>2, UsesDropped
    <3>4. IsCtx(ctx')
      BY <2>2, <2>3, <2>4, <2>5 DEF IsCtx
    <3>. QED  BY <3>3, <3>4 DEF Ok
  <2>7. TypeOK' /\ PoolInv' /\ CallOK' /\ RxOK' /\ app'.pc = pc /\ Acks' = Acks
    BY <1>1, <1>7, <2>3, <2>6, CallDone
  <2>8. \A q \in Items(wl) : ctx'.mqp[q] = ctx.mqp[q]
    BY <1>5, <1>7, <2>3 DEF Kept, wl
  <2>9. ctx'.mqp[app.mqp] = app.msg
    BY <1>0, <1>5, <2>1, <2>3 DEF Kept, CallOK
  <2>10. ListOK'
    BY <1>0, <2>0, <2>2, <2>5, <2>8, <2>9 DEF ListOK, wl
  <2>11. Acks \in Seq(AnyMsg) /\ Reqs \in Seq(AnyMsg)
    BY <1>0, ListsTyped
  <2>12. InOrder(Acks, Reqs, wl, ctx'.mqp)
    BY <1>0, <2>4, <2>8, <2>11, OrderSame DEF OrderOK, wl
  <2>13. /\ InOrder(Acks, Reqs, Append(wl, app.mqp), ctx'.mqp)
         /\ Len(Acks) + Len(Reqs) = Len(wl) =>
              InOrder(Acks, Append(Reqs, app.msg), Append(wl, app.mqp), ctx'.mqp)
    BY <1>0, <1>3, <2>4, <2>9, <2>11, <2>12, OrderAppend
  <2>14. CASE link = "none"
    <3>1. Reqs = <<>> /\ Reqs' = <<>>
      BY <1>1, <2>14 DEF Reqs
    <3>2. OrderOK'
      BY <2>2, <2>7, <2>13, <3>1 DEF OrderOK
    <3>3. AllUnderWay'
      BY <1>1, <2>14 DEF AllUnderWay
    <3>4. Handshake'
      BY <1>0, <1>1, <1>7, <2>3, <2>7, <3>1 DEF Handshake
    <3>. QED  BY <2>7, <2>10, <3>2, <3>3, <3>4 DEF IInv
  <2>15. CASE link # "none"
    <3>1. Len(Acks) + Len(Reqs) = Len(wl)
      BY <1>0, <1>2, <2>15 DEF AllUnderWay, wl
    <3>2. Reqs' = Append(Reqs, app.msg)
      <4>1. ctx.tx \in Seq(AnyMsg)
        BY <1>0 DEF TypeOK, IsCtx
      <4>2. Sift(Append(ctx.tx, app.msg), ReqMsgs) = Append(Sift(ctx.tx, ReqMsgs), app.msg)
        BY <1>0, <2>0, <4>1, SiftAppend
      <4>. QED  BY <1>1, <1>5, <2>3, <2>15, <4>2 DEF Reqs
    <3>3. OrderOK'
      BY <2>2, <2>7, <2>13, <3>1, <3>2 DEF OrderOK
    <3>4. AllUnderWay'
      <4>1. Len(Reqs') = Len(Reqs) + 1 /\ Len(Append(wl, app.mqp)) = Len(wl) + 1
        BY <2>4, <2>11, <3>2
      <4>2. Len(Acks) \in Nat /\ Len(Reqs) \in Nat /\ Len(wl) \in Nat
        BY <2>4, <2>11
      <4>3. Len(Acks') + Len(Reqs') = Len(ctx'.qos_ack1_wl)
        BY SMTT(30), <2>2, <2>7, <3>1, <4>1, <4>2
      <4>. QED  BY <4>3 DEF AllUnderWay
    <3>5. "NOW_CONNECTED" \in ctx.flags
      BY <1>0, <1>2, <2>15 DEF Handshake
    <3>6. Handshake'
      BY <1>0, <1>1, <1>7, <2>3, <2>7, <3>5 DEF Handshake
    <3>. QED  BY <2>7, <2>10, <3>3, <3>4, <3>6 DEF IInv
  <2>. QED  BY <2>14, <2>15
<1>. QED  BY <1>8, <1>9

\* A context the receive task may go on with
Sound(c) ==
  /\ Ok(c, CallPacket) /\ c.qos2_rx_cq \in CqType /\ c.qos2_tx_cq \in CqType
  /\ c.rx_mqp = ctx.rx_mqp /\ c.net = ctx.net
  /\ \A p \in Items(c.qos_ack1_wl) : c.mqp[p] \in ReqMsgs
  /\ \A p \in CallPacket : c.mqp[p] = app.msg
  /\ "NOW_CONNECTED" \in c.flags => c.net

\* The receive task may go on with the context as it is.
LEMMA CtxSound ==
  ASSUME IInv
  PROVE  Sound(ctx)
<1>1. Ok(ctx, CallPacket)
  BY CtxOk DEF IInv
<1>. QED  BY <1>1 DEF Sound, IInv, TypeOK, ListOK, CallOK, Handshake

\* The receive task closes the connection.
LEMMA ClosedOk ==
  ASSUME IInv, NEW c, Sound(c), ctx' = do_net_close(c), link' = "none", down' = <<>>,
         UNCHANGED <<app, server, count>>,
         rx' = "closing" \/ (rx' \in {"done", "failed"} /\ rx = "recv")
  PROVE  IInv'
<1>0. /\ Ok(c, CallPacket) /\ c.qos2_rx_cq \in CqType /\ c.qos2_tx_cq \in CqType
      /\ TypeOK /\ CallOK /\ RxOK /\ Handshake
  BY DEF Sound, IInv
<1>1. /\ Ok(ctx', CallPacket) /\ Kept(c, ctx', CallPacket) /\ ctx'.rx_mqp = c.rx_mqp
      /\ Items(ctx'.qos_ack1_wl) \subseteq Items(c.qos_ack1_wl)
      /\ c.net => ~ctx'.net /\ ctx'.tx = <<>> /\ ctx'.flags = c.flags \ ClosedFlags
      /\ ~c.net => ctx' = c
  BY <1>0, NetClosed
<1>2. ctx'.qos2_rx_cq \in CqType /\ ctx'.qos2_tx_cq \in CqType
  BY <1>0, ClosedQueues
<1>3. ~ctx'.net /\ "NOW_CONNECTED" \notin ctx'.flags
  <2>1. CASE c.net
    BY <1>1, <2>1 DEF ClosedFlags
  <2>2. CASE ~c.net
    BY <1>1, <2>2 DEF Sound
  <2>. QED  BY <2>1, <2>2
<1>4. TypeOK'
  BY <1>0, <1>1, <1>2 DEF TypeOK, Ok
<1>5. CallPacket' = CallPacket
  BY DEF CallPacket
<1>6. PoolInv'
  BY <1>1, <1>5 DEF PoolInv, Ok
<1>7. CallOK'
  <2>1. \A p \in CallPacket : ctx'.mqp[p] = app.msg
    BY <1>1 DEF Kept, Sound
  <2>. QED  BY <1>0, <1>3, <1>5, <2>1 DEF CallOK
<1>8. RxOK'
  BY <1>0, <1>1 DEF RxOK, Sound
<1>9. Acks' = <<>> /\ Reqs' = <<>>
  BY SiftEmpty DEF Acks, Reqs
<1>10. ListOK'
  BY <1>1 DEF ListOK, Kept, Sound
<1>11. OrderOK'
  <2>1. ctx'.qos_ack1_wl \in Seq(Packets)
    BY <1>1 DEF Ok, IsCtx
  <2>. QED  BY <1>9, <2>1, OrderEmpty DEF OrderOK
<1>12. AllUnderWay'
  BY DEF AllUnderWay
<1>13. Handshake'
  BY <1>3, <1>9 DEF Handshake
<1>. QED  BY <1>4, <1>6, <1>7, <1>8, <1>10, <1>11, <1>12, <1>13 DEF IInv

\* A context with the same packets and list is sound too.
LEMMA SoundSame ==
  ASSUME IInv, NEW d, Ok(d, CallPacket), d.qos2_rx_cq \in CqType, d.qos2_tx_cq \in CqType,
         d.rx_mqp = ctx.rx_mqp, d.net = ctx.net, d.qos_ack1_wl = ctx.qos_ack1_wl, d.mqp = ctx.mqp,
         "NOW_CONNECTED" \in d.flags => "NOW_CONNECTED" \in ctx.flags
  PROVE  Sound(d)
BY CtxSound DEF Sound

\* A context that is going to be closed is sound.
LEMMA ClosingSound ==
  ASSUME IInv, NEW c, c = ctx \/ c = do_net_close_tx(ctx)
  PROVE  /\ Sound(c) /\ SameBut(ctx, c, {"flags"})
         /\ c.flags = ctx.flags \/ c.flags = ctx.flags \cup {"NETWORK_CLOSE"}
<1>1. Ok(ctx, CallPacket) /\ TypeOK /\ DOMAIN ctx = CtxFields
  BY CtxOk DEF IInv, Ok, IsCtx
<1>2. CASE c = ctx
  BY <1>1, <1>2, CtxSound DEF SameBut
<1>3. CASE c = do_net_close_tx(ctx)
  <2>1. SameBut(ctx, c, {"flags"}) /\ c.flags = ctx.flags \cup {"NETWORK_CLOSE"}
    BY <1>1, <1>3 DEF do_net_close_tx, SameBut, CtxFields
  <2>2. SameBut(ctx, c, {"tx", "flags", "net", "qos2_rx_cq", "qos2_tx_cq", "msg_id", "tx_part"})
    BY <2>1 DEF SameBut
  <2>3. /\ c.tx = ctx.tx /\ c.msg_id = ctx.msg_id /\ c.mqp = ctx.mqp /\ c.rx_mqp = ctx.rx_mqp
        /\ c.qos2_rx_cq = ctx.qos2_rx_cq /\ c.qos2_tx_cq = ctx.qos2_tx_cq
        /\ c.net = ctx.net /\ c.qos_ack1_wl = ctx.qos_ack1_wl
    BY <2>1 DEF SameBut, CtxFields
  <2>4. Ok(c, CallPacket)
    BY <1>1, <2>2, <2>3, PlainChange DEF Ok, IsCtx
  <2>. QED  BY <1>1, <2>1, <2>3, <2>4, SoundSame DEF TypeOK
<1>. QED  BY <1>2, <1>3

\* The receive task closes the connection.
LEMMA RxClosesOk ==
  ASSUME IInv, RxClose \/ RxError \/ RxMisread \/ RxPingFails
  PROVE  IInv'
<1>1. PICK c : /\ c = ctx \/ c = do_net_close_tx(ctx)
               /\ ctx' = do_net_close(c) /\ link' = "none" /\ down' = <<>> /\ UNCHANGED <<app, server, count>>
               /\ rx' = "closing" \/ (rx' \in {"done", "failed"} /\ rx = "recv")
  BY DEF RxClose, RxError, RxMisread, RxPingFails, NetCloseRx, NetClose
<1>2. Sound(c)
  BY <1>1, ClosingSound
<1>. QED  BY <1>1, <1>2, ClosedOk

\* The receive task goes on with the connection.
LEMMA SoundOk ==
  ASSUME IInv, Sound(ctx'), UNCHANGED <<app, link, server>>,
         count' \in [requests : Nat, connects : Nat, msgs : Nat, pings : Nat, drops : Nat],
         rx' \in {"signal", "prep", "ping", "alloc"} \/ (rx' \in {"done", "failed"} /\ rx = "recv"),
         rx' = "ping" => "NOW_CONNECTED" \in ctx'.flags,
         down' \in Seq(AnyMsg), OrderOK', AllUnderWay', Handshake'
  PROVE  IInv'
<1>1. TypeOK'
  BY DEF IInv, TypeOK, Sound, Ok
<1>2. CallPacket' = CallPacket
  BY DEF CallPacket
<1>3. PoolInv'
  BY <1>2 DEF PoolInv, Sound, Ok
<1>4. CallOK'
  <2>1. CallOK
    BY DEF IInv
  <2>2. ctx'.net = ctx.net /\ \A p \in CallPacket : ctx'.mqp[p] = app.msg
    BY DEF Sound
  <2>. QED  BY <1>2, <2>1, <2>2 DEF CallOK
<1>5. RxOK'
  BY DEF IInv, RxOK, Sound
<1>6. ListOK'
  BY DEF ListOK, Sound
<1>. QED  BY <1>1, <1>3, <1>4, <1>5, <1>6 DEF IInv

\* The receive task sets up a PINGREQ.
LEMMA RxPingOk ==
  ASSUME IInv, RxPing
  PROVE  IInv'
<1>0. TypeOK /\ Handshake /\ OrderOK /\ AllUnderWay /\ Ok(ctx, CallPacket)
  BY CtxOk DEF IInv
<1>1. /\ ctx' = tx_part_setup(ctx, NULL) /\ UNCHANGED <<app, link, down, server>> /\ rx' = "ping"
      /\ count' = [count EXCEPT !.pings = @ + 1] /\ MaySend(ctx, FALSE)
  BY DEF RxPing, serverVars
<1>2. count' \in [requests : Nat, connects : Nat, msgs : Nat, pings : Nat, drops : Nat]
  <2>1. count \in [requests : Nat, connects : Nat, msgs : Nat, pings : Nat, drops : Nat]
    BY <1>0 DEF TypeOK
  <2>. QED  BY <1>1, <2>1
<1>3. Ok(ctx', CallPacket) /\ SameBut(ctx, ctx', {"tx_mqp", "tx_part"}) /\ ctx'.tx_part = TRUE
  BY <1>0, <1>1, TxSetup
<1>4. /\ ctx'.net = ctx.net /\ ctx'.qos_ack1_wl = ctx.qos_ack1_wl /\ ctx'.mqp = ctx.mqp
      /\ ctx'.qos2_rx_cq = ctx.qos2_rx_cq /\ ctx'.qos2_tx_cq = ctx.qos2_tx_cq
      /\ ctx'.rx_mqp = ctx.rx_mqp /\ ctx'.tx = ctx.tx /\ ctx'.flags = ctx.flags
  BY <1>3 DEF SameBut, CtxFields
<1>5. Sound(ctx')
  BY <1>0, <1>3, <1>4, SoundSame DEF TypeOK
<1>6. Acks' = Acks /\ Reqs' = Reqs
  BY <1>1, <1>4 DEF Acks, Reqs
<1>7. OrderOK'
  BY <1>0, <1>4, <1>6 DEF OrderOK
<1>8. AllUnderWay'
  BY <1>0, <1>1, <1>4, <1>6 DEF AllUnderWay
<1>9. Handshake'
  BY <1>0, <1>1, <1>4, <1>6 DEF Handshake
<1>10. down' \in Seq(AnyMsg) /\ "NOW_CONNECTED" \in ctx'.flags
  BY <1>0, <1>1, <1>4 DEF TypeOK, MaySend, is_connected
<1>. QED  BY <1>1, <1>2, <1>5, <1>7, <1>8, <1>9, <1>10, SoundOk

\* What sending the PINGREQ does to the context
LEMMA PingSent ==
  ASSUME TypeOK, Ok(ctx, CallPacket), RxPingSent
  PROVE  /\ Ok(ctx', CallPacket) /\ Kept(ctx, ctx', CallPacket)
         /\ SameBut(ctx, ctx', {"n_refs", "free_list", "mqp", "tx_mqp", "tx_part", "tx", "flags"})
         /\ ctx'.tx = Append(ctx.tx, VhMsg("PINGREQ", 0)) /\ ctx'.flags = ctx.flags \cup {"KA_PINGER_RSP"}
         /\ VhMsg("PINGREQ", 0) \in AnyMsg /\ VhMsg("PINGREQ", 0).type = "PINGREQ"
<1> DEFINE m == VhMsg("PINGREQ", 0)
           d == cl_ctx_part_send(ctx, m, TRUE)
<1>1. m \in AnyMsg /\ m.type = "PINGREQ"
  BY MsgTypes DEF PacketTypes
<1>2. ctx' = [d EXCEPT !.flags = @ \cup {"KA_PINGER_RSP"}]
  BY DEF RxPingSent
<1> HIDE DEF m
<1>3. /\ Ok(d, CallPacket) /\ SameBut(ctx, d, {"n_refs", "free_list", "mqp", "tx_mqp", "tx_part", "tx"})
      /\ Kept(ctx, d, CallPacket) /\ d.tx = Append(ctx.tx, m)
  BY <1>1, PartSent
<1> HIDE DEF d
<1>4. SameBut(d, ctx', {"flags"}) /\ ctx'.flags = d.flags \cup {"KA_PINGER_RSP"}
  BY <1>2, <1>3 DEF SameBut, CtxFields
<1>5. /\ ctx'.tx = d.tx /\ d.flags = ctx.flags /\ ctx'.msg_id = d.msg_id
      /\ ctx'.qos_ack1_wl = d.qos_ack1_wl /\ ctx'.mqp = d.mqp
  BY <1>3, <1>4 DEF SameBut, CtxFields
<1>6. Ok(ctx', CallPacket) /\ Kept(d, ctx', CallPacket)
  <2>1. SameBut(d, ctx', {"tx", "flags", "net", "qos2_rx_cq", "qos2_tx_cq", "msg_id", "tx_part"})
    BY <1>4 DEF SameBut
  <2>2. ctx'.tx \in Seq(AnyMsg) /\ ctx'.msg_id \in Nat
    BY <1>3, <1>5 DEF Ok, IsCtx
  <2>. QED  BY <1>3, <2>1, <2>2, PlainChange
<1>7. Kept(ctx, ctx', CallPacket)
  BY <1>3, <1>5 DEF Kept
<1>8. SameBut(ctx, ctx', {"n_refs", "free_list", "mqp", "tx_mqp", "tx_part", "tx", "flags"})
  BY <1>3, <1>4 DEF SameBut, CtxFields
<1>. QED  BY <1>1, <1>3, <1>4, <1>5, <1>6, <1>7, <1>8 DEF m

\* The PINGREQ goes out.
LEMMA RxPingSentOk ==
  ASSUME IInv, RxPingSent
  PROVE  IInv'
<1>0. TypeOK /\ Handshake /\ OrderOK /\ AllUnderWay /\ Ok(ctx, CallPacket) /\ rx = "ping" /\ Sound(ctx)
  BY CtxOk, CtxSound DEF IInv, RxPingSent
<1>1. UNCHANGED <<app, link, down, server, count>> /\ rx' = "alloc"
  BY DEF RxPingSent, serverVars
<1>2. /\ Ok(ctx', CallPacket) /\ Kept(ctx, ctx', CallPacket)
      /\ SameBut(ctx, ctx', {"n_refs", "free_list", "mqp", "tx_mqp", "tx_part", "tx", "flags"})
      /\ ctx'.tx = Append(ctx.tx, VhMsg("PINGREQ", 0)) /\ ctx'.flags = ctx.flags \cup {"KA_PINGER_RSP"}
      /\ VhMsg("PINGREQ", 0) \in AnyMsg /\ VhMsg("PINGREQ", 0).type = "PINGREQ"
  BY <1>0, PingSent
<1>3. /\ ctx'.net = ctx.net /\ ctx'.qos_ack1_wl = ctx.qos_ack1_wl
      /\ ctx'.qos2_rx_cq = ctx.qos2_rx_cq /\ ctx'.qos2_tx_cq = ctx.qos2_tx_cq /\ ctx'.rx_mqp = ctx.rx_mqp
  BY <1>2 DEF SameBut, CtxFields
<1>4. Sound(ctx')
  BY <1>0, <1>2, <1>3 DEF Sound, Kept, TypeOK
<1>5. Acks' = Acks
  BY <1>1 DEF Acks
<1>6. Reqs' = Reqs
  <2>1. VhMsg("PINGREQ", 0) \notin ReqMsgs
    BY <1>2 DEF ReqMsgs
  <2>. QED  BY <1>0, <1>1, <1>2, <2>1, NoReqSent
<1>7. OrderOK'
  <2>1. Acks \in Seq(AnyMsg) /\ Reqs \in Seq(AnyMsg) /\ ctx.qos_ack1_wl \in Seq(Packets)
    BY <1>0, ListsTyped
  <2>2. \A p \in Items(ctx.qos_ack1_wl) : ctx'.mqp[p] = ctx.mqp[p]
    BY <1>2, <1>3 DEF Kept
  <2>3. InOrder(Acks, Reqs, ctx.qos_ack1_wl, ctx.mqp)
    BY <1>0 DEF OrderOK
  <2>4. InOrder(Acks, Reqs, ctx.qos_ack1_wl, ctx'.mqp)
    BY <2>1, <2>2, <2>3, OrderSame
  <2>. QED  BY <1>3, <1>5, <1>6, <2>4 DEF OrderOK
<1>8. AllUnderWay'
  BY <1>0, <1>1, <1>2, <1>3, <1>5, <1>6 DEF AllUnderWay, MaySend, is_connected
<1>9. Handshake'
  BY <1>0, <1>1, <1>2, <1>3, <1>5, <1>6 DEF Handshake
<1>10. down' \in Seq(AnyMsg)
  BY <1>0, <1>1 DEF TypeOK
<1>11. count' \in [requests : Nat, connects : Nat, msgs : Nat, pings : Nat, drops : Nat]
  BY <1>0, <1>1 DEF TypeOK
<1>. QED  BY <1>1, <1>4, <1>7, <1>8, <1>9, <1>10, <1>11, SoundOk

\* What a time-out does to the context
LEMMA TimedOut ==
  ASSUME TypeOK, RxOK, Ok(ctx, CallPacket), RxTimeout
  PROVE  Ok(ctx', CallPacket) /\ Kept(ctx, ctx', CallPacket) /\ SameBut(ctx, ctx', {"mqp"})
<1>1. CASE ctx' = ctx
  BY <1>1 DEF Kept, SameBut, Ok, IsCtx
<1>2. CASE down # <<>> /\ ctx' = [ctx EXCEPT !.mqp[ctx.rx_mqp] = Head(down)]
  <2>1. Head(down) \in AnyMsg
    BY <1>2 DEF TypeOK
  <2>2. ctx.rx_mqp \in Packets
    BY DEF RxOK, RxTimeout
  <2>. QED  BY <1>2, <2>1, <2>2, PartRead
<1>. QED  BY <1>1, <1>2 DEF RxTimeout

\* The receive times out.
LEMMA RxTimeoutOk ==
  ASSUME IInv, RxTimeout
  PROVE  IInv'
<1>0. TypeOK /\ PoolInv /\ CallOK /\ RxOK /\ Handshake /\ Ok(ctx, CallPacket)
  BY CtxOk DEF IInv
<1>1. UNCHANGED <<app, link, down, server, count>> /\ rx' = "prep"
  BY DEF RxTimeout, serverVars
<1>2. Ok(ctx', CallPacket) /\ Kept(ctx, ctx', CallPacket) /\ SameBut(ctx, ctx', {"mqp"})
  BY <1>0, TimedOut
<1>3. /\ ctx'.net = ctx.net /\ ctx'.flags = ctx.flags /\ ctx'.qos_ack1_wl = ctx.qos_ack1_wl
      /\ ctx'.qos2_rx_cq = ctx.qos2_rx_cq /\ ctx'.qos2_tx_cq = ctx.qos2_tx_cq
      /\ ctx'.tx_part = ctx.tx_part /\ ctx'.rx_mqp = ctx.rx_mqp /\ ctx'.tx = ctx.tx
  BY <1>2 DEF SameBut, CtxFields
<1>4. TypeOK'
  BY <1>0, <1>1, <1>2, <1>3 DEF TypeOK, Ok
<1>5. CallPacket' = CallPacket
  BY <1>1 DEF CallPacket
<1>6. PoolInv'
  BY <1>2, <1>5 DEF PoolInv, Ok
<1>7. CallOK'
  BY <1>0, <1>1, <1>2, <1>3, <1>5 DEF CallOK, Kept
<1>8. RxOK'
  BY <1>1 DEF RxOK
<1>9. Acks' = Acks /\ Reqs' = Reqs
  BY <1>1, <1>3 DEF Acks, Reqs
<1>10. Handshake'
  BY <1>0, <1>1, <1>3, <1>9 DEF Handshake
<1>11. Sending' => Sending
  BY <1>1, <1>3 DEF Sending, MaySend, is_connected
<1>12. \A p \in Items(ctx.qos_ack1_wl) : ctx'.mqp[p] = ctx.mqp[p]
  BY <1>2, <1>3 DEF Kept
<1>. QED  BY <1>3, <1>4, <1>6, <1>7, <1>8, <1>9, <1>10, <1>11, <1>12, SameLists

\* The receive task takes a packet from the pool.
LEMMA RxAllocOk ==
  ASSUME IInv, RxAlloc
  PROVE  IInv'
<1> DEFINE p   == Head(ctx.free_list)
           new == mqp_client_alloc(ctx, NoMsg)
<1>0. TypeOK /\ PoolInv /\ CallOK /\ RxOK /\ Handshake /\ rx = "alloc"
  BY DEF IInv, RxAlloc
<1>1. UNCHANGED <<app, link, down, server, count>>
  BY DEF RxAlloc, serverVars
<1>2. CallPacket' = CallPacket /\ CallPacket \subseteq Packets /\ Ok(ctx, CallPacket)
  BY <1>0, <1>1, CtxOk DEF CallPacket, Ok
<1>3. CASE ctx' = ctx /\ (rx' = "signal" \/ (rx' = "recv" /\ ctx.rx_mqp # NULL))
  <2>1. TypeOK'
    BY <1>0, <1>1, <1>3 DEF TypeOK
  <2>2. CallOK'
    BY <1>0, <1>1, <1>2, <1>3 DEF CallOK
  <2>3. RxOK'
    BY <1>0, <1>3 DEF RxOK, TypeOK, IsCtx
  <2>. QED  BY <1>1, <1>2, <1>3, <2>1, <2>2, <2>3, SameCtx
<1>4. CASE /\ ctx.rx_mqp = NULL /\ ctx.free_list # <<>> /\ rx' = "recv"
           /\ ctx' = [new EXCEPT !.rx_mqp = p]
  <2>1. NoMsg \in AnyMsg
    BY MsgTypes
  <2>2. /\ p \in Packets /\ p \notin Items(ctx.qos_ack1_wl) \cup CallPacket \cup {ctx.tx_mqp, ctx.rx_mqp}
        /\ IsCtx(new) /\ SameBut(ctx, new, {"n_refs", "free_list", "mqp"})
        /\ new.n_refs = [ctx.n_refs EXCEPT ![p] = 1] /\ new.free_list = Tail(ctx.free_list)
        /\ \A q \in Packets : new.mqp[q] = IF q = p THEN NoMsg ELSE ctx.mqp[q]
    BY <1>2, <1>4, <2>1, AllocCtx
  <2> HIDE DEF new
  <2>3. SameBut(new, ctx', {"rx_mqp"}) /\ ctx'.rx_mqp = p
    BY <1>4, <2>2 DEF SameBut, CtxFields, IsCtx
  <2>4. /\ ctx'.net = ctx.net /\ ctx'.flags = ctx.flags /\ ctx'.qos_ack1_wl = ctx.qos_ack1_wl
        /\ ctx'.qos2_rx_cq = ctx.qos2_rx_cq /\ ctx'.qos2_tx_cq = ctx.qos2_tx_cq
        /\ ctx'.tx_part = ctx.tx_part /\ ctx'.tx_mqp = ctx.tx_mqp /\ ctx'.tx = ctx.tx
        /\ ctx'.msg_id = ctx.msg_id /\ DOMAIN ctx' = CtxFields
        /\ ctx'.n_refs = new.n_refs /\ ctx'.free_list = new.free_list /\ ctx'.mqp = new.mqp
    BY <2>2, <2>3 DEF SameBut, CtxFields
  <2>5. IsCtx(ctx)'
    BY <1>0, <2>2, <2>3, <2>4 DEF IsCtx, TypeOK
  <2>6. TypeOK'
    BY <1>0, <1>1, <1>4, <2>4, <2>5 DEF TypeOK
  <2>7. PoolInv'
    <3>1. \A q \in Packets : Uses(ctx', CallPacket, q) <= Uses(ctx, CallPacket, q) + One(q = p)
      BY <1>4, <2>2, <2>3, <2>4, PacketFacts DEF Uses, One
    <3>2. NoRepeats(ctx'.qos_ack1_wl) /\ ctx'.rx_mqp \notin Items(ctx'.qos_ack1_wl) \cup CallPacket
          /\ CallPacket \cap Items(ctx'.qos_ack1_wl) = {}
      BY <1>0, <2>2, <2>3, <2>4 DEF PoolInv, PoolOK
    <3>3. /\ ctx'.n_refs = [ctx.n_refs EXCEPT ![p] = 1] /\ ctx'.free_list = Tail(ctx.free_list)
      BY <2>2, <2>4
    <3>4. PoolOK(ctx', CallPacket)
      BY <1>2, <1>4, <3>1, <3>2, <3>3, AllocAdds
    <3>. QED  BY <1>2, <3>4 DEF PoolInv
  <2>8. \A q \in Items(ctx.qos_ack1_wl) \cup CallPacket : ctx'.mqp[q] = ctx.mqp[q]
    <3>1. Items(ctx.qos_ack1_wl) \subseteq Packets
      BY <1>0 DEF TypeOK, IsCtx, Items
    <3>. QED  BY <1>2, <2>2, <2>4, <3>1
  <2>9. CallOK'
    BY <1>0, <1>1, <1>2, <2>4, <2>8 DEF CallOK
  <2>10. RxOK'
    BY <1>4, <2>2, <2>3 DEF RxOK
  <2>11. Acks' = Acks /\ Reqs' = Reqs
    BY <1>1, <2>4 DEF Acks, Reqs
  <2>12. Handshake'
    BY <1>0, <1>1, <2>4, <2>11 DEF Handshake
  <2>13. Sending' => Sending
    BY <1>1, <1>4, <2>4 DEF Sending, MaySend, is_connected
  <2>. QED  BY <2>4, <2>6, <2>7, <2>8, <2>9, <2>10, <2>11, <2>12, <2>13, SameLists
<1>. QED  BY <1>3, <1>4 DEF RxAlloc

\* The receive task gives its packet back.
LEMMA RxFreeOk ==
  ASSUME IInv, RxFree
  PROVE  IInv'
<1> DEFINE p     == ctx.rx_mqp
           freed == mqp_free(ctx, p)
<1>0. TypeOK /\ PoolInv /\ CallOK /\ RxOK /\ Handshake /\ rx \in {"done", "failed"}
  BY DEF IInv, RxFree
<1>1. UNCHANGED <<app, link, down, server, count>> /\ rx' \in {"prep", "signal"}
  BY DEF RxFree, serverVars
<1>2. /\ CallPacket' = CallPacket /\ CallPacket \subseteq Packets
      /\ IsCtx(ctx) /\ PoolOK(ctx, CallPacket)
  BY <1>0, <1>1, CtxOk DEF CallPacket, Ok
<1>3. p \in Packets /\ p \notin Items(ctx.qos_ack1_wl) \cup CallPacket
  BY <1>0, <1>2 DEF RxOK, PoolOK
<1>4. ctx.n_refs[p] > 0
  <2>1. Uses(ctx, CallPacket, p) > 0
    BY DEF Uses, One
  <2>. QED  BY <1>2, <1>3, <2>1, UsedIsNotFree
<1>5. /\ IsCtx(freed) /\ SameBut(ctx, freed, {"n_refs", "free_list", "mqp"})
      /\ freed.n_refs = [ctx.n_refs EXCEPT ![p] = @ - 1]
      /\ freed.free_list = IF ctx.n_refs[p] = 1 THEN <<p>> \o ctx.free_list ELSE ctx.free_list
      /\ \A q \in Packets : freed.mqp[q] = IF q = p /\ ctx.n_refs[p] = 1 THEN NoMsg ELSE ctx.mqp[q]
  <2>1. freed = mqp_free(ctx, p)
    OBVIOUS
  <2> HIDE DEF freed, p
  <2>. QED  BY ONLY <1>2, <1>3, <1>4, <2>1, FreeCtx
<1>6. SameBut(freed, ctx', {"rx_mqp"}) /\ ctx'.rx_mqp = NULL
  <2>1. ctx' = [freed EXCEPT !.rx_mqp = NULL]
    BY DEF RxFree
  <2> HIDE DEF freed
  <2>. QED  BY <1>5, <2>1 DEF SameBut, CtxFields, IsCtx
<1> HIDE DEF freed
<1>7. /\ ctx'.net = ctx.net /\ ctx'.flags = ctx.flags /\ ctx'.qos_ack1_wl = ctx.qos_ack1_wl
      /\ ctx'.qos2_rx_cq = ctx.qos2_rx_cq /\ ctx'.qos2_tx_cq = ctx.qos2_tx_cq
      /\ ctx'.tx_part = ctx.tx_part /\ ctx'.tx_mqp = ctx.tx_mqp /\ ctx'.tx = ctx.tx
      /\ ctx'.msg_id = ctx.msg_id /\ DOMAIN ctx' = CtxFields
      /\ ctx'.n_refs = freed.n_refs /\ ctx'.free_list = freed.free_list /\ ctx'.mqp = freed.mqp
  BY <1>5, <1>6 DEF SameBut, CtxFields
<1>8. IsCtx(ctx)'
  BY <1>2, <1>5, <1>6, <1>7 DEF IsCtx
<1>9. TypeOK'
  BY <1>0, <1>1, <1>7, <1>8 DEF TypeOK
<1>10. PoolInv'
  <2>1. \A q \in Packets : Uses(ctx', CallPacket, q) + One(q = p) <= Uses(ctx, CallPacket, q)
    BY <1>3, <1>6, <1>7, PacketFacts DEF Uses, One
  <2>2. NoRepeats(ctx'.qos_ack1_wl) /\ ctx'.rx_mqp \notin Items(ctx'.qos_ack1_wl) \cup CallPacket
        /\ CallPacket \cap Items(ctx'.qos_ack1_wl) = {}
    <3>1. Items(ctx.qos_ack1_wl) \subseteq Packets
      BY <1>2 DEF IsCtx, Items
    <3>. QED  BY <1>2, <1>6, <1>7, <3>1, PacketFacts DEF PoolOK
  <2>3. /\ ctx'.n_refs = [ctx.n_refs EXCEPT ![p] = @ - 1]
        /\ ctx'.free_list = IF ctx.n_refs[p] = 1 THEN <<p>> \o ctx.free_list ELSE ctx.free_list
    BY <1>5, <1>7
  <2> HIDE DEF p
  <2>4. PoolOK(ctx', CallPacket)
    BY ONLY <1>2, <1>3, <2>1, <2>2, <2>3, FreeDrops
  <2>. QED  BY <1>2, <2>4 DEF PoolInv
<1>11. \A q \in Items(ctx.qos_ack1_wl) \cup CallPacket : ctx'.mqp[q] = ctx.mqp[q]
  <2>1. Items(ctx.qos_ack1_wl) \subseteq Packets
    BY <1>2 DEF IsCtx, Items
  <2>. QED  BY <1>2, <1>3, <1>5, <1>7, <2>1
<1>12. CallOK'
  BY <1>0, <1>1, <1>2, <1>7, <1>11 DEF CallOK
<1>13. RxOK'
  BY <1>1 DEF RxOK
<1>14. Acks' = Acks /\ Reqs' = Reqs
  BY <1>1, <1>7 DEF Acks, Reqs
<1>15. Handshake'
  BY <1>0, <1>1, <1>7, <1>14 DEF Handshake
<1>16. Sending' => Sending
  BY <1>1, <1>7 DEF Sending, MaySend, is_connected
<1>. QED  BY <1>7, <1>9, <1>10, <1>11, <1>12, <1>13, <1>14, <1>15, <1>16, SameLists

\* The processing of the first packet of down leaves d.
Moves(d) ==
  LET acks == Sift(Tail(down), AckMsgs)
      reqs == IF link = "none" THEN <<>> ELSE Sift(d.tx, ReqMsgs)
  IN  /\ InOrder(acks, reqs, d.qos_ack1_wl, d.mqp)
      /\ link # "none" /\ MaySend(d, FALSE) => Len(acks) + Len(reqs) = Len(d.qos_ack1_wl)
      /\ "CONNACK_AWAIT" \in d.flags => "NOW_CONNECTED" \notin d.flags
      /\ "NOW_CONNECTED" \notin d.flags => acks = <<>> /\ reqs = <<>>
      /\ "NOW_CONNECTED" \in d.flags => link # "open"

\* Processing a message so that what is under way stays in order keeps the
\* invariant.
LEMMA MovesOk ==
  ASSUME IInv, rx = "recv", app.pc # "sending", down # <<>>, Sound(ctx'), Moves(ctx'),
         UNCHANGED <<app, link, server, count>>, down' = Tail(down), rx' \in {"done", "failed"}
  PROVE  IInv'
<1>0. TypeOK /\ Handshake /\ down \in Seq(AnyMsg)
  BY DEF IInv, TypeOK
<1>1. Tail(down) \in Seq(AnyMsg) /\ Items(down) = {down[1]} \cup Items(Tail(down))
  BY <1>0, HeadTail
<1>2. Acks' = Sift(Tail(down), AckMsgs) /\ Reqs' = IF link = "none" THEN <<>> ELSE Sift(ctx'.tx, ReqMsgs)
  BY DEF Acks, Reqs
<1>3. OrderOK'
  BY <1>2 DEF OrderOK, Moves
<1>4. AllUnderWay'
  BY <1>2 DEF AllUnderWay, Moves
<1>5. Handshake'
  <2>1. "CONNACK_AWAIT" \in ctx'.flags => "NOW_CONNECTED" \notin ctx'.flags
    BY DEF Moves
  <2>2. "NOW_CONNECTED" \notin ctx'.flags => Acks' = <<>> /\ Reqs' = <<>>
    BY <1>2 DEF Moves
  <2>3. "NOW_CONNECTED" \in ctx'.flags => ctx'.net /\ link' # "open"
    BY DEF Moves, Sound
  <2>4. ctx'.net
    BY <1>0 DEF Handshake, Sound
  <2>5. link' = "open" => \A m \in Items(down') : m.type = "CONNACK" => m.id # 0
    BY <1>0, <1>1 DEF Handshake
  <2>. QED  BY <2>1, <2>2, <2>3, <2>4, <2>5 DEF Handshake
<1>6. count' \in [requests : Nat, connects : Nat, msgs : Nat, pings : Nat, drops : Nat]
  BY <1>0 DEF TypeOK
<1>. QED  BY <1>1, <1>3, <1>4, <1>5, <1>6, SoundOk

\* The requests that are under way stay so.
SameReqs(d) == Sift(d.tx, ReqMsgs) = Sift(ctx.tx, ReqMsgs)

\* The flags tell the same about the connection.
SameConn(d) ==
  /\ "NOW_CONNECTED" \in d.flags <=> "NOW_CONNECTED" \in ctx.flags
  /\ "CONNACK_AWAIT" \in d.flags => "CONNACK_AWAIT" \in ctx.flags
  /\ MaySend(d, FALSE) => MaySend(ctx, FALSE)

\* A packet that is no first acknowledgement
LEMMA MovesSame ==
  ASSUME IInv, down # <<>>, Head(down) \notin AckMsgs, NEW d, SameReqs(d), SameConn(d),
         d.qos_ack1_wl = ctx.qos_ack1_wl, d.mqp = ctx.mqp
  PROVE  Moves(d)
<1>0. TypeOK /\ Handshake /\ down \in Seq(AnyMsg) /\ OrderOK /\ AllUnderWay
  BY DEF IInv, TypeOK
<1> DEFINE acks == Sift(Tail(down), AckMsgs)
           reqs == IF link = "none" THEN <<>> ELSE Sift(d.tx, ReqMsgs)
<1>1. acks = Acks
  BY <1>0, SiftTail DEF Acks
<1>2. reqs = Reqs
  BY DEF Reqs, SameReqs
<1> HIDE DEF acks, reqs
<1>3. InOrder(acks, reqs, d.qos_ack1_wl, d.mqp)
  BY <1>0, <1>1, <1>2 DEF OrderOK
<1>4. link # "none" /\ MaySend(d, FALSE) => Len(acks) + Len(reqs) = Len(d.qos_ack1_wl)
  BY <1>0, <1>1, <1>2 DEF AllUnderWay, SameConn
<1>5. /\ "CONNACK_AWAIT" \in d.flags => "NOW_CONNECTED" \notin d.flags
      /\ "NOW_CONNECTED" \notin d.flags => acks = <<>> /\ reqs = <<>>
      /\ "NOW_CONNECTED" \in d.flags => link # "open"
  BY <1>0, <1>1, <1>2 DEF Handshake, SameConn
<1>. QED  BY <1>3, <1>4, <1>5 DEF Moves, acks, reqs

\* A first acknowledgement is for the head of the list.
LEMMA FirstAck ==
  ASSUME IInv, down # <<>>, Head(down) \in AckMsgs
  PROVE  /\ ctx.qos_ack1_wl # <<>> /\ Head(down).id = ctx.mqp[ctx.qos_ack1_wl[1]].id
         /\ InOrder(Sift(Tail(down), AckMsgs), Reqs, Tail(ctx.qos_ack1_wl), ctx.mqp)
         /\ "NOW_CONNECTED" \in ctx.flags
         /\ Len(Acks) = Len(Sift(Tail(down), AckMsgs)) + 1 /\ Sift(Tail(down), AckMsgs) \in Seq(AnyMsg)
<1>0. TypeOK /\ Handshake /\ down \in Seq(AnyMsg) /\ InOrder(Acks, Reqs, ctx.qos_ack1_wl, ctx.mqp)
  BY DEF IInv, TypeOK, OrderOK
<1> DEFINE a == Head(down)
           t == Sift(Tail(down), AckMsgs)
<1>1. Acks = <<a>> \o t
  BY <1>0, SiftTail DEF Acks
<1>2. a \in AnyMsg /\ Tail(down) \in Seq(AnyMsg)
  BY <1>0
<1>3. t \in Seq(AnyMsg)
  BY <1>2, SiftMembers
<1>4. Acks \in Seq(AnyMsg) /\ Reqs \in Seq(AnyMsg) /\ ctx.qos_ack1_wl \in Seq(Packets)
  BY <1>0, ListsTyped
<1> HIDE DEF a, t
<1>5. Acks # <<>> /\ Head(Acks) = a /\ Tail(Acks) = t /\ Len(Acks) = Len(t) + 1
  <2>1. /\ <<a>> \o t # <<>> /\ Head(<<a>> \o t) = a /\ Len(<<a>> \o t) = Len(t) + 1
    BY <1>2, <1>3
  <2>2. Tail(<<a>> \o t) = t
    <3>1. Tail(<<a>> \o t) \in Seq(AnyMsg) /\ Len(Tail(<<a>> \o t)) = Len(t)
      BY <1>2, <1>3
    <3>2. \A i \in 1..Len(t) : Tail(<<a>> \o t)[i] = t[i]
      BY <1>2, <1>3
    <3>. QED  BY <1>3, <3>1, <3>2, SameList
  <2>. QED  BY <1>1, <2>1, <2>2
<1>6. /\ ctx.qos_ack1_wl # <<>> /\ Head(Acks).id = ctx.mqp[ctx.qos_ack1_wl[1]].id
      /\ InOrder(Tail(Acks), Reqs, Tail(ctx.qos_ack1_wl), ctx.mqp)
  BY SMTT(30), <1>0, <1>4, <1>5, OrderAcked
<1>7. "NOW_CONNECTED" \in ctx.flags
  BY <1>0, <1>5 DEF Handshake
<1>. QED  BY <1>3, <1>5, <1>6, <1>7 DEF a, t

\* An acknowledgement that takes the head of the list leaves what is under way
\* in order.
LEMMA MovesAcked ==
  ASSUME IInv, down # <<>>, Head(down) \in AckMsgs, NEW d, SameReqs(d), SameConn(d),
         d.qos_ack1_wl = Tail(ctx.qos_ack1_wl), Kept(ctx, d, {})
  PROVE  Moves(d)
<1>0. TypeOK /\ Handshake /\ AllUnderWay
  BY DEF IInv
<1> DEFINE acks == Sift(Tail(down), AckMsgs)
           reqs == IF link = "none" THEN <<>> ELSE Sift(d.tx, ReqMsgs)
           wl   == ctx.qos_ack1_wl
<1>1. /\ wl # <<>> /\ InOrder(acks, Reqs, Tail(wl), ctx.mqp) /\ "NOW_CONNECTED" \in ctx.flags
      /\ Len(Acks) = Len(acks) + 1 /\ acks \in Seq(AnyMsg)
  BY FirstAck
<1>2. reqs = Reqs
  BY DEF Reqs, SameReqs
<1>3. Reqs \in Seq(AnyMsg) /\ wl \in Seq(Packets)
  BY <1>0, ListsTyped
<1>4. Tail(wl) \in Seq(Packets) /\ Len(Tail(wl)) = Len(wl) - 1
  BY <1>1, <1>3, HeadTail
<1> HIDE DEF acks, reqs, wl
<1>5. InOrder(acks, reqs, d.qos_ack1_wl, d.mqp)
  <2>1. \A p \in Items(Tail(wl)) : d.mqp[p] = ctx.mqp[p]
    BY DEF Kept, wl
  <2>. QED  BY <1>1, <1>2, <1>3, <1>4, <2>1, OrderSame DEF wl
<1>6. link # "none" /\ MaySend(d, FALSE) => Len(acks) + Len(reqs) = Len(d.qos_ack1_wl)
  <2>1. link # "none" /\ MaySend(d, FALSE) => Len(Acks) + Len(Reqs) = Len(wl)
    BY <1>0 DEF AllUnderWay, SameConn, wl
  <2>2. Len(acks) \in Nat /\ Len(Reqs) \in Nat /\ Len(wl) \in Nat
    BY <1>1, <1>3
  <2>. QED  BY SMTT(30), <1>1, <1>2, <1>4, <2>1, <2>2 DEF wl
<1>7. /\ "CONNACK_AWAIT" \in d.flags => "NOW_CONNECTED" \notin d.flags
      /\ "NOW_CONNECTED" \in d.flags /\ link # "open"
  BY <1>0, <1>1 DEF Handshake, SameConn
<1>. QED  BY <1>5, <1>6, <1>7 DEF Moves, acks, reqs

\* The socket takes the answer or not.
Answered(c, t, id, d) == d = vh_msg_send(c, t, id, TRUE) \/ d = vh_msg_send(c, t, id, FALSE)

\* The three outcomes of an answer of the receive task
LEMMA SentOrNot ==
  ASSUME NEW c, NEW t, NEW id, NEW n \in Nat
  PROVE  Answered(c, t, id, vh_msg_send(c, t, id, n > 0))
<1>1. CASE n > 0
  BY <1>1 DEF vh_msg_send, cl_ctx_seg1_send, cl_ctx_part_send, Answered
<1>2. CASE ~(n > 0)
  BY <1>2 DEF vh_msg_send, cl_ctx_seg1_send, cl_ctx_part_send, Answered
<1>. QED  BY <1>1, <1>2

\* An answer of the receive task
LEMMA Replied ==
  ASSUME IInv, NEW e, Sound(e), e.tx = ctx.tx, e.flags = ctx.flags, e.tx_part = ctx.tx_part,
         NEW t \in PacketTypes, t \notin {"PUBLISH", "SUBSCRIBE", "UNSUBSCRIBE"}, NEW id \in Nat,
         NEW d, Answered(e, t, id, d)
  PROVE  /\ Sound(d) /\ SameReqs(d) /\ SameConn(d)
         /\ d.qos_ack1_wl = e.qos_ack1_wl /\ d.mqp = e.mqp
         /\ d.qos2_rx_cq = e.qos2_rx_cq /\ d.qos2_tx_cq = e.qos2_tx_cq
<1>0. TypeOK /\ Ok(e, CallPacket) /\ ctx.tx \in Seq(AnyMsg)
  BY DEF IInv, Sound, TypeOK, IsCtx
<1>1. /\ Ok(d, CallPacket) /\ SameBut(e, d, {"tx", "flags", "tx_mqp", "tx_part"})
      /\ TxMore(e, d, VhMsg(t, id)) /\ FlagsMore(e, d) /\ (MaySend(d, FALSE) => MaySend(e, FALSE))
  BY <1>0, VhSent DEF Answered
<1>2. /\ d.net = e.net /\ d.qos_ack1_wl = e.qos_ack1_wl /\ d.mqp = e.mqp /\ d.rx_mqp = e.rx_mqp
      /\ d.qos2_rx_cq = e.qos2_rx_cq /\ d.qos2_tx_cq = e.qos2_tx_cq
  BY <1>1 DEF SameBut, CtxFields
<1>3. "NOW_CONNECTED" \in d.flags <=> "NOW_CONNECTED" \in e.flags
  BY <1>1 DEF FlagsMore
<1>4. Sound(d)
  BY <1>1, <1>2, <1>3 DEF Sound
<1>5. SameReqs(d)
  <2>1. VhMsg(t, id) \in AnyMsg /\ VhMsg(t, id).type = t
    BY MsgTypes
  <2>2. VhMsg(t, id) \notin ReqMsgs
    BY <2>1 DEF ReqMsgs
  <2>3. Sift(Append(ctx.tx, VhMsg(t, id)), ReqMsgs) = Sift(ctx.tx, ReqMsgs)
    BY <1>0, <2>1, <2>2, SiftAppend
  <2>. QED  BY <1>1, <2>3 DEF SameReqs, TxMore
<1>6. SameConn(d)
  <2>1. "CONNACK_AWAIT" \in d.flags => "CONNACK_AWAIT" \in ctx.flags
    BY <1>1 DEF FlagsMore
  <2>2. MaySend(e, FALSE) => MaySend(ctx, FALSE)
    BY DEF MaySend, is_connected
  <2>. QED  BY <1>1, <1>3, <2>1, <2>2 DEF SameConn
<1>. QED  BY <1>2, <1>4, <1>5, <1>6

\* Only a queue changes.
LEMMA QueueChanged ==
  ASSUME NEW c, Sound(c), NEW d, SameBut(c, d, {"qos2_rx_cq", "qos2_tx_cq"}),
         d.qos2_rx_cq \in CqType, d.qos2_tx_cq \in CqType
  PROVE  /\ Sound(d) /\ d.tx = c.tx /\ d.flags = c.flags /\ d.tx_part = c.tx_part
         /\ d.qos_ack1_wl = c.qos_ack1_wl /\ d.mqp = c.mqp
<1>1. /\ d.net = c.net /\ d.qos_ack1_wl = c.qos_ack1_wl /\ d.mqp = c.mqp /\ d.rx_mqp = c.rx_mqp
      /\ d.tx = c.tx /\ d.flags = c.flags /\ d.tx_part = c.tx_part /\ d.msg_id = c.msg_id
  BY DEF SameBut, CtxFields
<1>2. Ok(d, CallPacket)
  <2>1. SameBut(c, d, {"tx", "flags", "net", "qos2_rx_cq", "qos2_tx_cq", "msg_id", "tx_part"})
    BY DEF SameBut
  <2>2. d.tx \in Seq(AnyMsg) /\ d.msg_id \in Nat
    BY <1>1 DEF Sound, Ok, IsCtx
  <2>3. Ok(c, CallPacket)
    BY DEF Sound
  <2>. QED  BY ONLY <2>1, <2>2, <2>3, PlainChange
<1>3. Sound(d)
  BY <1>1, <1>2 DEF Sound
<1>. QED  BY <1>1, <1>3

\* What a step of the receive task needs of the result of process_recv
Handled(r, msg) ==
  /\ Sound(r.c)
  /\ r.rv /\ ~(r.ack = "CONNACK" /\ msg.id # 0) => Moves(r.c)

\* The fields of a result that ends the connection
LEMMA BadResult ==
  ASSUME NEW c, Sound(c), NEW msg
  PROVE  Handled(Bad(c), msg)
BY DEF Handled, Bad, Result

\* The fields of a result that keeps the connection
LEMMA GoodResult ==
  ASSUME NEW c, Sound(c), Moves(c), NEW msg, NEW ack, NEW body
  PROVE  Handled(Result(c, TRUE, ack, body), msg) /\ Handled(Good(c), msg)
BY DEF Handled, Good, Result

\* What is known of the packet and the context before
LEMMA BeforeRecv ==
  ASSUME IInv, down # <<>>
  PROVE  /\ TypeOK /\ Sound(ctx) /\ DOMAIN ctx = CtxFields /\ ctx.qos_ack1_wl \in Seq(Packets)
         /\ ctx.qos2_rx_cq \in CqType /\ ctx.qos2_tx_cq \in CqType
         /\ Head(down) \in AnyMsg /\ Head(down).id \in Nat /\ Head(down).qos \in 0..2
<1>1. down \in Seq(AnyMsg) /\ Sound(ctx)
  BY CtxSound DEF IInv, TypeOK
<1>2. Head(down) \in AnyMsg
  BY <1>1
<1>3. Head(down).id \in Nat /\ Head(down).qos \in 0..2
  BY <1>2 DEF AnyMsg
<1>. QED  BY <1>1, <1>2, <1>3 DEF IInv, TypeOK, IsCtx

\* proc_pub_rec_rx
LEMMA PubRecOk ==
  ASSUME IInv, down # <<>>, NEW n \in Nat, Head(down).type = "PUBREC"
  PROVE  Handled(proc_pub_rec_rx(ctx, Head(down).id, n > 0), Head(down))
<1> DEFINE id == Head(down).id
<1>0. TypeOK /\ Sound(ctx) /\ Head(down) \in AnyMsg /\ DOMAIN ctx = CtxFields
      /\ ctx.qos2_rx_cq \in CqType /\ ctx.qos2_tx_cq \in CqType
  BY BeforeRecv
<1>1. Head(down) \in AckMsgs /\ id \in Nat
  BY <1>0 DEF AnyMsg, AckMsgs
<1>2. ctx.qos_ack1_wl # <<>> /\ id = ctx.mqp[ctx.qos_ack1_wl[1]].id
  BY <1>1, FirstAck
<1>3. CASE ~(ctx.qos2_tx_cq.n_free > 0)
  <2>1. proc_pub_rec_rx(ctx, id, n > 0) = Bad(ctx)
    BY <1>3 DEF proc_pub_rec_rx
  <2>. QED  BY <1>0, <2>1, BadResult
<1>4. CASE ctx.qos2_tx_cq.n_free > 0
  <2> DEFINE logged == [ctx EXCEPT !.qos2_tx_cq = qos2_pub_cq_logup(@, id)]
             rm     == ack1_wl_rmfree(logged, id)
             d      == vh_msg_send(rm, "PUBREL", id, n > 0)
  <2>1. SameBut(ctx, logged, {"qos2_rx_cq", "qos2_tx_cq"}) /\ logged.qos2_rx_cq = ctx.qos2_rx_cq
        /\ logged.qos2_tx_cq = qos2_pub_cq_logup(ctx.qos2_tx_cq, id)
    BY <1>0 DEF SameBut, CtxFields
  <2>2. qos2_pub_cq_logup(ctx.qos2_tx_cq, id) \in CqType
    BY <1>0, <1>1, <1>4, QueueTypes
  <2>3. proc_pub_rec_rx(ctx, id, n > 0) = Good(d)
    <3>1. ctx.qos_ack1_wl \in Seq(Packets)
      BY <1>0 DEF TypeOK, IsCtx
    <3>2. id = ctx.mqp[Head(ctx.qos_ack1_wl)].id
      BY <1>2, <3>1
    <3>. QED  BY <1>4, <3>2 DEF proc_pub_rec_rx
  <2> HIDE DEF logged
  <2>4. /\ Sound(logged) /\ logged.tx = ctx.tx /\ logged.flags = ctx.flags /\ logged.tx_part = ctx.tx_part
        /\ logged.qos_ack1_wl = ctx.qos_ack1_wl /\ logged.mqp = ctx.mqp
    BY <1>0, <2>1, <2>2, QueueChanged
  <2>5. /\ Ok(rm, CallPacket) /\ SameBut(logged, rm, {"n_refs", "free_list", "mqp", "qos_ack1_wl"})
        /\ rm.qos_ack1_wl = Tail(logged.qos_ack1_wl) /\ Kept(logged, rm, CallPacket)
    <3>1. /\ Ok(logged, CallPacket) /\ logged.qos_ack1_wl # <<>> /\ id = logged.mqp[logged.qos_ack1_wl[1]].id
          /\ rm = ack1_wl_rmfree(logged, id)
      BY <1>2, <2>4 DEF Sound
    <3> HIDE DEF rm, id
    <3>. QED  BY ONLY <3>1, RmFree
  <2> HIDE DEF rm
  <2>6. /\ rm.tx = ctx.tx /\ rm.flags = ctx.flags /\ rm.tx_part = ctx.tx_part /\ rm.net = logged.net
        /\ rm.rx_mqp = logged.rx_mqp /\ rm.qos2_rx_cq = logged.qos2_rx_cq /\ rm.qos2_tx_cq = logged.qos2_tx_cq
    BY <2>4, <2>5 DEF SameBut, CtxFields
  <2>7. Items(Tail(ctx.qos_ack1_wl)) \subseteq Items(ctx.qos_ack1_wl)
    <3>1. ctx.qos_ack1_wl \in Seq(Packets)
      BY <1>0 DEF TypeOK, IsCtx
    <3>. QED  BY <1>2, <3>1, HeadTail
  <2>8. Sound(rm)
    BY <2>4, <2>5, <2>6, <2>7 DEF Sound, Kept
  <2>9. "PUBREL" \in PacketTypes /\ "PUBREL" \notin {"PUBLISH", "SUBSCRIBE", "UNSUBSCRIBE"}
        /\ Answered(rm, "PUBREL", id, d)
    BY SentOrNot DEF PacketTypes
  <2> HIDE DEF d, id
  <2>10. /\ Sound(d) /\ SameReqs(d) /\ SameConn(d)
         /\ d.qos_ack1_wl = rm.qos_ack1_wl /\ d.mqp = rm.mqp
    <3>1. IInv /\ id \in Nat
      BY <1>1
    <3>. QED  BY ONLY <2>6, <2>8, <2>9, <3>1, Replied
  <2>11. d.qos_ack1_wl = Tail(ctx.qos_ack1_wl) /\ Kept(ctx, d, {})
    BY <2>4, <2>5, <2>10 DEF Kept
  <2>12. Moves(d)
    BY <1>1, <2>10, <2>11, MovesAcked
  <2>. QED  BY <2>3, <2>10, <2>12, GoodResult DEF id
<1>. QED  BY <1>3, <1>4

\* A packet that changes only queues or flags
LEMMA SameContext ==
  ASSUME IInv, down # <<>>, Head(down) \notin AckMsgs, NEW d, d.tx = ctx.tx, d.flags = ctx.flags,
         d.tx_part = ctx.tx_part, d.qos_ack1_wl = ctx.qos_ack1_wl, d.mqp = ctx.mqp
  PROVE  Moves(d)
<1>1. SameReqs(d)
  BY DEF SameReqs
<1>2. SameConn(d)
  BY DEF SameConn, MaySend, is_connected
<1>. QED  BY <1>1, <1>2, MovesSame

\* _proc_ack_msg_rx
LEMMA AckMsgOk ==
  ASSUME IInv, down # <<>>, Head(down).type \in {"PUBACK", "SUBACK", "UNSUBACK"}
  PROVE  Handled(proc_ack_msg_rx(ctx, Head(down).type, Head(down).id), Head(down))
<1> DEFINE id == Head(down).id
           wl == ctx.qos_ack1_wl
           rm == ack1_wl_rmfree(ctx, id)
<1>0. TypeOK /\ Sound(ctx) /\ Head(down) \in AnyMsg /\ wl \in Seq(Packets)
  BY BeforeRecv
<1>1. Head(down) \in AckMsgs
  BY <1>0 DEF AnyMsg, AckMsgs
<1>2. wl # <<>> /\ id = ctx.mqp[wl[1]].id
  BY <1>1, FirstAck
<1>3. AckWlistFind(wl, IdOf(ctx), id) # 0
  <2>1. IdOf(ctx)[wl[1]] = id
    <3>1. wl[1] \in Packets
      BY <1>0, <1>2, HeadTail
    <3>. QED  BY <1>2, <3>1 DEF IdOf
  <2> HIDE DEF wl, id
  <2>2. AckWlistFind(wl, IdOf(ctx), id) = 1
    BY ONLY <1>0, <1>2, <2>1, FindsHead
  <2>. QED  BY <2>2
<1>4. proc_ack_msg_rx(ctx, Head(down).type, id) = Result(rm, TRUE, Head(down).type, 0)
  BY <1>3 DEF proc_ack_msg_rx
<1>5. /\ Ok(rm, CallPacket) /\ SameBut(ctx, rm, {"n_refs", "free_list", "mqp", "qos_ack1_wl"})
      /\ rm.qos_ack1_wl = Tail(wl) /\ Kept(ctx, rm, CallPacket)
  <2>1. /\ Ok(ctx, CallPacket) /\ ctx.qos_ack1_wl # <<>> /\ id = ctx.mqp[ctx.qos_ack1_wl[1]].id
        /\ rm = ack1_wl_rmfree(ctx, id)
    BY <1>0, <1>2 DEF Sound
  <2> HIDE DEF rm, id
  <2>. QED  BY ONLY <2>1, RmFree
<1> HIDE DEF rm
<1>6. /\ rm.tx = ctx.tx /\ rm.flags = ctx.flags /\ rm.tx_part = ctx.tx_part /\ rm.net = ctx.net
      /\ rm.rx_mqp = ctx.rx_mqp /\ rm.qos2_rx_cq = ctx.qos2_rx_cq /\ rm.qos2_tx_cq = ctx.qos2_tx_cq
  BY <1>5 DEF SameBut, CtxFields
<1>7. Items(Tail(wl)) \subseteq Items(wl)
  BY <1>0, <1>2, HeadTail
<1>8. Sound(rm)
  BY <1>0, <1>5, <1>6, <1>7 DEF Sound, Kept
<1>9. SameReqs(rm) /\ SameConn(rm)
  BY <1>6 DEF SameReqs, SameConn, MaySend, is_connected
<1>10. Kept(ctx, rm, {})
  BY <1>5 DEF Kept
<1>11. Moves(rm)
  BY <1>1, <1>5, <1>9, <1>10, MovesAcked
<1>. QED  BY <1>4, <1>8, <1>11, GoodResult

\* _proc_pub_rel_rx
LEMMA PubRelOk ==
  ASSUME IInv, down # <<>>, NEW n \in Nat, Head(down).type = "PUBREL"
  PROVE  Handled(proc_pub_rel_rx(ctx, Head(down).id, n > 0), Head(down))
<1> DEFINE id   == Head(down).id
           sent == vh_msg_send(ctx, "PUBCOMP", id, n > 0)
           d    == IF qos2_pub_cq_check(sent.qos2_rx_cq, id)
                   THEN [sent EXCEPT !.qos2_rx_cq = qos2_pub_cq_unlog(@, id)] ELSE sent
<1>0. Sound(ctx) /\ id \in Nat /\ ctx.qos2_rx_cq \in CqType
  BY BeforeRecv
<1>1. Head(down) \notin AckMsgs
  BY DEF AckMsgs
<1>2. "PUBCOMP" \in PacketTypes /\ "PUBCOMP" \notin {"PUBLISH", "SUBSCRIBE", "UNSUBSCRIBE"}
      /\ Answered(ctx, "PUBCOMP", id, sent)
  BY SentOrNot DEF PacketTypes
<1>3. proc_pub_rel_rx(ctx, id, n > 0) = Good(d)
  BY DEF proc_pub_rel_rx
<1> HIDE DEF sent, id
<1>4. /\ Sound(sent) /\ SameReqs(sent) /\ SameConn(sent)
      /\ sent.qos_ack1_wl = ctx.qos_ack1_wl /\ sent.mqp = ctx.mqp
      /\ sent.qos2_rx_cq = ctx.qos2_rx_cq /\ sent.qos2_tx_cq = ctx.qos2_tx_cq
  <2>1. IInv
    OBVIOUS
  <2>. QED  BY ONLY <1>0, <1>2, <2>1, Replied
<1>5. /\ SameBut(sent, d, {"qos2_rx_cq", "qos2_tx_cq"})
      /\ d.qos2_rx_cq \in CqType /\ d.qos2_tx_cq \in CqType
  <2>1. qos2_pub_cq_unlog(sent.qos2_rx_cq, id) \in CqType /\ sent.qos2_rx_cq \in CqType /\ sent.qos2_tx_cq \in CqType
    BY <1>0, <1>4, QueueTypes DEF Sound
  <2>2. DOMAIN sent = CtxFields
    BY <1>4 DEF Sound, Ok, IsCtx
  <2>3. CASE qos2_pub_cq_check(sent.qos2_rx_cq, id)
    BY <2>1, <2>2, <2>3 DEF SameBut, CtxFields
  <2>4. CASE ~qos2_pub_cq_check(sent.qos2_rx_cq, id)
    BY <2>1, <2>2, <2>4 DEF SameBut, CtxFields
  <2>. QED  BY <2>3, <2>4
<1> HIDE DEF d
<1>6. /\ Sound(d) /\ d.tx = sent.tx /\ d.flags = sent.flags /\ d.tx_part = sent.tx_part
      /\ d.qos_ack1_wl = sent.qos_ack1_wl /\ d.mqp = sent.mqp
  BY <1>4, <1>5, QueueChanged
<1>7. SameReqs(d) /\ SameConn(d)
  BY <1>4, <1>6 DEF SameReqs, SameConn, MaySend, is_connected
<1>8. d.qos_ack1_wl = ctx.qos_ack1_wl /\ d.mqp = ctx.mqp
  BY <1>4, <1>6
<1>9. Moves(d)
  BY <1>1, <1>7, <1>8, MovesSame
<1>. QED  BY <1>3, <1>6, <1>9, GoodResult DEF id

\* ack2_msg_id_unlog
LEMMA PubCompOk ==
  ASSUME IInv, down # <<>>, Head(down).type = "PUBCOMP"
  PROVE  Handled(proc_pub_comp_rx(ctx, Head(down).id), Head(down))
<1> DEFINE id == Head(down).id
           d  == [ctx EXCEPT !.qos2_tx_cq = qos2_pub_cq_unlog(@, id)]
<1>0. Sound(ctx) /\ id \in Nat /\ DOMAIN ctx = CtxFields /\ ctx.qos2_rx_cq \in CqType /\ ctx.qos2_tx_cq \in CqType
  BY BeforeRecv
<1>1. Head(down) \notin AckMsgs
  BY DEF AckMsgs
<1>2. qos2_pub_cq_unlog(ctx.qos2_tx_cq, id) \in CqType
  BY <1>0, QueueTypes
<1>3. /\ SameBut(ctx, d, {"qos2_rx_cq", "qos2_tx_cq"})
      /\ d.qos2_rx_cq \in CqType /\ d.qos2_tx_cq \in CqType
  BY <1>0, <1>2 DEF SameBut, CtxFields
<1>4. proc_pub_comp_rx(ctx, id) = Result(d, TRUE, "PUBCOMP", 0) \/ proc_pub_comp_rx(ctx, id) = Bad(d)
  BY DEF proc_pub_comp_rx
<1> HIDE DEF d
<1>5. /\ Sound(d) /\ d.tx = ctx.tx /\ d.flags = ctx.flags /\ d.tx_part = ctx.tx_part
      /\ d.qos_ack1_wl = ctx.qos_ack1_wl /\ d.mqp = ctx.mqp
  BY <1>0, <1>3, QueueChanged
<1>6. Moves(d)
  BY <1>1, <1>5, SameContext
<1>. QED  BY <1>4, <1>5, <1>6, GoodResult, BadResult

\* proc_pingrsp_rx
LEMMA PingRspOk ==
  ASSUME IInv, down # <<>>, Head(down).type = "PINGRSP"
  PROVE  Handled(proc_pingrsp_rx(ctx), Head(down))
<1> DEFINE d == [ctx EXCEPT !.flags = @ \ {"KA_PINGER_RSP"}]
<1>0. Sound(ctx) /\ DOMAIN ctx = CtxFields
  BY BeforeRecv
<1>1. Head(down) \notin AckMsgs
  BY DEF AckMsgs
<1>2. SameBut(ctx, d, {"flags"}) /\ d.flags = ctx.flags \ {"KA_PINGER_RSP"}
  BY <1>0 DEF SameBut, CtxFields
<1>3. proc_pingrsp_rx(ctx) = Good(d) \/ proc_pingrsp_rx(ctx) = Bad(ctx)
  BY DEF proc_pingrsp_rx
<1> HIDE DEF d
<1>4. /\ d.net = ctx.net /\ d.qos_ack1_wl = ctx.qos_ack1_wl /\ d.mqp = ctx.mqp /\ d.rx_mqp = ctx.rx_mqp
      /\ d.tx = ctx.tx /\ d.tx_part = ctx.tx_part /\ d.msg_id = ctx.msg_id
      /\ d.qos2_rx_cq = ctx.qos2_rx_cq /\ d.qos2_tx_cq = ctx.qos2_tx_cq
  BY <1>2 DEF SameBut, CtxFields
<1>5. Ok(d, CallPacket)
  <2>1. SameBut(ctx, d, {"tx", "flags", "net", "qos2_rx_cq", "qos2_tx_cq", "msg_id", "tx_part"})
    BY <1>2 DEF SameBut
  <2>2. d.tx \in Seq(AnyMsg) /\ d.msg_id \in Nat /\ Ok(ctx, CallPacket)
    BY <1>0, <1>4 DEF Sound, Ok, IsCtx
  <2>. QED  BY ONLY <2>1, <2>2, PlainChange
<1>6. Sound(d)
  BY <1>0, <1>2, <1>4, <1>5 DEF Sound
<1>7. SameReqs(d) /\ SameConn(d)
  BY <1>2, <1>4 DEF SameReqs, SameConn, MaySend, is_connected
<1>8. Moves(d)
  BY <1>1, <1>4, <1>7, MovesSame
<1>. QED  BY <1>0, <1>3, <1>6, <1>8, GoodResult, BadResult

\* The cases of proc_pub_msg_rx
LEMMA PubMsgCases ==
  ASSUME NEW c, NEW msg, NEW ok
  PROVE  /\ msg.qos = 0 => proc_pub_msg_rx(c, msg, ok) = Result(c, TRUE, "", msg.body)
         /\ msg.qos = 1 => proc_pub_msg_rx(c, msg, ok)
                             = Result(vh_msg_send(c, "PUBACK", msg.id, ok), TRUE, "", msg.body)
         /\ msg.qos = 2 /\ qos2_pub_cq_check(c.qos2_rx_cq, msg.id) => proc_pub_msg_rx(c, msg, ok) = Good(c)
         /\ msg.qos = 2 /\ ~qos2_pub_cq_check(c.qos2_rx_cq, msg.id) /\ c.qos2_rx_cq.n_free = 0
              => proc_pub_msg_rx(c, msg, ok) = Bad(c)
         /\ msg.qos = 2 /\ ~qos2_pub_cq_check(c.qos2_rx_cq, msg.id) /\ c.qos2_rx_cq.n_free # 0
              => proc_pub_msg_rx(c, msg, ok)
                   = Result(vh_msg_send([c EXCEPT !.qos2_rx_cq = qos2_pub_cq_logup(@, msg.id)],
                                        "PUBREC", msg.id, ok), TRUE, "", msg.body)
<1>1. msg.qos = 0 => proc_pub_msg_rx(c, msg, ok) = Result(c, TRUE, "", msg.body)
  BY DEF proc_pub_msg_rx
<1>2. msg.qos = 1 => proc_pub_msg_rx(c, msg, ok)
                       = Result(vh_msg_send(c, "PUBACK", msg.id, ok), TRUE, "", msg.body)
  BY DEF proc_pub_msg_rx
<1>3. msg.qos = 2 /\ qos2_pub_cq_check(c.qos2_rx_cq, msg.id) => proc_pub_msg_rx(c, msg, ok) = Good(c)
  BY DEF proc_pub_msg_rx
<1>4. msg.qos = 2 /\ ~qos2_pub_cq_check(c.qos2_rx_cq, msg.id) /\ c.qos2_rx_cq.n_free = 0
        => proc_pub_msg_rx(c, msg, ok) = Bad(c)
  BY DEF proc_pub_msg_rx
<1>5. msg.qos = 2 /\ ~qos2_pub_cq_check(c.qos2_rx_cq, msg.id) /\ c.qos2_rx_cq.n_free # 0
        => proc_pub_msg_rx(c, msg, ok)
             = Result(vh_msg_send([c EXCEPT !.qos2_rx_cq = qos2_pub_cq_logup(@, msg.id)],
                                  "PUBREC", msg.id, ok), TRUE, "", msg.body)
  BY DEF proc_pub_msg_rx
<1>. QED  BY <1>1, <1>2, <1>3, <1>4, <1>5

\* proc_pub_msg_rx
LEMMA PubMsgOk ==
  ASSUME IInv, down # <<>>, NEW n \in Nat, Head(down).type = "PUBLISH"
  PROVE  Handled(proc_pub_msg_rx(ctx, Head(down), n > 0), Head(down))
<1> DEFINE msg == Head(down)
           id  == msg.id
           cq  == ctx.qos2_rx_cq
           r   == proc_pub_msg_rx(ctx, msg, n > 0)
<1>0. Sound(ctx) /\ id \in Nat /\ msg.qos \in 0..2 /\ DOMAIN ctx = CtxFields /\ ctx.qos2_rx_cq \in CqType /\ ctx.qos2_tx_cq \in CqType
  BY BeforeRecv
<1>1. msg \notin AckMsgs
  BY DEF AckMsgs
<1>2. Moves(ctx)
  BY <1>1, SameContext
<1>3. CASE msg.qos = 0
  <2>1. r = Result(ctx, TRUE, "", msg.body)
    BY <1>3, PubMsgCases
  <2>. QED  BY <1>0, <1>2, <2>1, GoodResult
<1>4. CASE msg.qos = 1
  <2> DEFINE d == vh_msg_send(ctx, "PUBACK", id, n > 0)
  <2>1. r = Result(d, TRUE, "", msg.body)
    BY <1>4, PubMsgCases DEF vh_msg_send, cl_ctx_seg1_send, cl_ctx_part_send
  <2>2. "PUBACK" \in PacketTypes /\ "PUBACK" \notin {"PUBLISH", "SUBSCRIBE", "UNSUBSCRIBE"}
        /\ Answered(ctx, "PUBACK", id, d) /\ IInv
    BY SentOrNot DEF PacketTypes
  <2> HIDE DEF d, id
  <2>3. Sound(d) /\ SameReqs(d) /\ SameConn(d) /\ d.qos_ack1_wl = ctx.qos_ack1_wl /\ d.mqp = ctx.mqp
    BY ONLY <1>0, <2>2, Replied
  <2>4. Moves(d)
    BY <1>1, <2>3, MovesSame
  <2>. QED  BY <2>1, <2>3, <2>4, GoodResult
<1>5. CASE msg.qos = 2 /\ qos2_pub_cq_check(cq, id)
  <2>1. r = Good(ctx)
    BY <1>5, PubMsgCases
  <2>. QED  BY <1>0, <1>2, <2>1, GoodResult
<1>6. CASE msg.qos = 2 /\ ~qos2_pub_cq_check(cq, id) /\ cq.n_free = 0
  <2>1. r = Bad(ctx)
    BY <1>6, PubMsgCases
  <2>. QED  BY <1>0, <2>1, BadResult
<1>7. CASE msg.qos = 2 /\ ~qos2_pub_cq_check(cq, id) /\ cq.n_free # 0
  <2> DEFINE logged == [ctx EXCEPT !.qos2_rx_cq = qos2_pub_cq_logup(@, id)]
             d      == vh_msg_send(logged, "PUBREC", id, n > 0)
  <2>1. r = Result(d, TRUE, "", msg.body)
    BY <1>7, PubMsgCases DEF vh_msg_send, cl_ctx_seg1_send, cl_ctx_part_send
  <2>2. SameBut(ctx, logged, {"qos2_rx_cq", "qos2_tx_cq"})
        /\ logged.qos2_rx_cq = qos2_pub_cq_logup(ctx.qos2_rx_cq, id) /\ logged.qos2_tx_cq = ctx.qos2_tx_cq
    BY <1>0 DEF SameBut, CtxFields
  <2>3. qos2_pub_cq_logup(ctx.qos2_rx_cq, id) \in CqType
    <3>1. cq.n_free \in 0..MAX_PUBREL_INFLT
      BY <1>0 DEF CqType
    <3>2. cq.n_free > 0
      BY <1>7, <3>1, CapacityNat
    <3>. QED  BY <1>0, <3>2, QueueTypes
  <2>4. "PUBREC" \in PacketTypes /\ "PUBREC" \notin {"PUBLISH", "SUBSCRIBE", "UNSUBSCRIBE"}
        /\ Answered(logged, "PUBREC", id, d) /\ IInv
    BY SentOrNot DEF PacketTypes
  <2> HIDE DEF logged, d
  <2>5. /\ Sound(logged) /\ logged.tx = ctx.tx /\ logged.flags = ctx.flags /\ logged.tx_part = ctx.tx_part
        /\ logged.qos_ack1_wl = ctx.qos_ack1_wl /\ logged.mqp = ctx.mqp
    BY <1>0, <2>2, <2>3, QueueChanged
  <2> HIDE DEF id
  <2>6. Sound(d) /\ SameReqs(d) /\ SameConn(d) /\ d.qos_ack1_wl = logged.qos_ack1_wl /\ d.mqp = logged.mqp
    BY ONLY <1>0, <2>4, <2>5, Replied
  <2>7. Moves(d)
    BY <1>1, <2>5, <2>6, MovesSame
  <2>. QED  BY <2>1, <2>6, <2>7, GoodResult
<1>. QED  BY <1>0, <1>3, <1>4, <1>5, <1>6, <1>7

\* proc_connack_rx: the session starts empty, or all that waits is sent again.
LEMMA ConnackOk ==
  ASSUME IInv, down # <<>>, NEW n \in Nat, Head(down).type = "CONNACK", "CONNACK_AWAIT" \in ctx.flags
  PROVE  Handled(proc_connack_rx(ctx, Head(down), n), Head(down))
<1> DEFINE msg       == Head(down)
           answered  == [ctx EXCEPT !.flags = @ \ {"CONNACK_AWAIT"}]
           connected == [answered EXCEPT !.flags = @ \cup {"NOW_CONNECTED"}]
           deleted   == session_delete(connected)
           resumed   == session_resume(connected, n)
           acks      == Sift(Tail(down), AckMsgs)
           r         == proc_connack_rx(ctx, msg, n)
<1>0. Sound(ctx) /\ TypeOK /\ Handshake /\ DOMAIN ctx = CtxFields /\ ctx.qos_ack1_wl \in Seq(Packets)
  BY BeforeRecv DEF IInv
<1>1. /\ DOMAIN answered = CtxFields /\ DOMAIN connected = CtxFields
      /\ SameBut(ctx, answered, {"flags"}) /\ answered.flags = ctx.flags \ {"CONNACK_AWAIT"}
      /\ SameBut(ctx, connected, {"flags"}) /\ connected.flags = answered.flags \cup {"NOW_CONNECTED"}
  BY <1>0 DEF SameBut, CtxFields
<1>2. /\ msg.id # 0 => r = Result(answered, TRUE, "CONNACK", 0)
      /\ msg.id = 0 /\ "CLEAN_SESSION" \in ctx.flags => r = Result(deleted, TRUE, "CONNACK", 0)
      /\ msg.id = 0 /\ "CLEAN_SESSION" \notin ctx.flags => r = Result(resumed, TRUE, "CONNACK", 0)
  <2>1. msg.id # 0 => r = Result(answered, TRUE, "CONNACK", 0)
    BY DEF proc_connack_rx
  <2>2. msg.id = 0 /\ "CLEAN_SESSION" \in ctx.flags => r = Result(deleted, TRUE, "CONNACK", 0)
    BY DEF proc_connack_rx
  <2>3. msg.id = 0 /\ "CLEAN_SESSION" \notin ctx.flags => r = Result(resumed, TRUE, "CONNACK", 0)
    BY DEF proc_connack_rx
  <2>. QED  BY <2>1, <2>2, <2>3
<1>3. "NOW_CONNECTED" \notin ctx.flags /\ Acks = <<>> /\ Reqs = <<>> /\ ctx.net
  BY <1>0 DEF Handshake
<1>4. acks = <<>>
  <2>1. msg \notin AckMsgs /\ down \in Seq(AnyMsg)
    BY <1>0 DEF AckMsgs, TypeOK
  <2>. QED  BY <1>3, <2>1, SiftTail DEF Acks
<1>5. msg.id = 0 => link # "open"
  <2>1. msg \in Items(down)
    <3>1. down \in Seq(AnyMsg)
      BY <1>0 DEF TypeOK
    <3>2. msg = down[1] /\ 1 \in DOMAIN down
      BY <3>1
    <3>. QED  BY <3>2 DEF Items
  <2>. QED  BY <1>0, <2>1 DEF Handshake
<1> HIDE DEF answered, connected, acks
<1>6. /\ answered.net = ctx.net /\ answered.qos_ack1_wl = ctx.qos_ack1_wl /\ answered.mqp = ctx.mqp
      /\ answered.rx_mqp = ctx.rx_mqp /\ answered.tx = ctx.tx /\ answered.msg_id = ctx.msg_id
      /\ answered.qos2_rx_cq = ctx.qos2_rx_cq /\ answered.qos2_tx_cq = ctx.qos2_tx_cq
      /\ connected.net = ctx.net /\ connected.qos_ack1_wl = ctx.qos_ack1_wl /\ connected.mqp = ctx.mqp
      /\ connected.rx_mqp = ctx.rx_mqp /\ connected.tx = ctx.tx /\ connected.msg_id = ctx.msg_id
      /\ connected.qos2_rx_cq = ctx.qos2_rx_cq /\ connected.qos2_tx_cq = ctx.qos2_tx_cq
  BY <1>1 DEF SameBut, CtxFields
<1>7. Ok(answered, CallPacket) /\ Ok(connected, CallPacket)
  <2>1. /\ SameBut(ctx, answered, {"tx", "flags", "net", "qos2_rx_cq", "qos2_tx_cq", "msg_id", "tx_part"})
        /\ SameBut(ctx, connected, {"tx", "flags", "net", "qos2_rx_cq", "qos2_tx_cq", "msg_id", "tx_part"})
    BY <1>1 DEF SameBut
  <2>2. Ok(ctx, CallPacket) /\ ctx.tx \in Seq(AnyMsg) /\ ctx.msg_id \in Nat
    BY <1>0 DEF Sound, Ok, IsCtx
  <2>3. answered.tx \in Seq(AnyMsg) /\ answered.msg_id \in Nat /\ connected.tx \in Seq(AnyMsg) /\ connected.msg_id \in Nat
    BY <1>6, <2>2
  <2>. QED  BY ONLY <2>1, <2>2, <2>3, PlainChange
<1>8. Sound(answered) /\ Sound(connected)
  BY <1>0, <1>1, <1>3, <1>6, <1>7 DEF Sound
<1>9. CASE msg.id # 0
  <2>1. r.c = answered /\ r.ack = "CONNACK"
    BY <1>2, <1>9 DEF Result
  <2>. QED  BY <1>8, <1>9, <2>1 DEF Handled
<1>10. CASE msg.id = 0 /\ "CLEAN_SESSION" \in ctx.flags
  <2>1. /\ Ok(deleted, CallPacket) /\ deleted.qos_ack1_wl = <<>> /\ Kept(connected, deleted, CallPacket)
        /\ SameBut(connected, deleted, {"n_refs", "free_list", "mqp", "qos_ack1_wl", "qos2_rx_cq", "qos2_tx_cq"})
        /\ deleted.qos2_rx_cq \in CqType /\ deleted.qos2_tx_cq \in CqType
    BY <1>7, SessionDeleted, DeletedQueues
  <2> HIDE DEF deleted
  <2>2. /\ deleted.net = connected.net /\ deleted.rx_mqp = connected.rx_mqp
        /\ deleted.flags = connected.flags /\ deleted.tx = connected.tx
    BY <2>1 DEF SameBut, CtxFields
  <2>3. Items(<<>>) = {}
    BY DEF Items
  <2>4. Sound(deleted)
    BY <1>3, <1>6, <1>8, <2>1, <2>2, <2>3 DEF Sound, Kept
  <2>5. Moves(deleted)
    <3> DEFINE reqs == IF link = "none" THEN <<>> ELSE Sift(deleted.tx, ReqMsgs)
    <3>1. reqs = <<>>
      BY <1>3, <1>6, <2>2 DEF Reqs
    <3>2. "CONNACK_AWAIT" \notin deleted.flags /\ "NOW_CONNECTED" \in deleted.flags
      BY <1>1, <2>2
    <3>3. InOrder(acks, reqs, deleted.qos_ack1_wl, deleted.mqp)
      <4>1. <<>> \in Seq(Packets)
        OBVIOUS
      <4>. QED  BY <1>4, <2>1, <3>1, <4>1, OrderEmpty
    <3>4. Len(acks) + Len(reqs) = Len(deleted.qos_ack1_wl)
      BY <1>4, <2>1, <3>1
    <3>. QED  BY <1>5, <1>10, <3>2, <3>3, <3>4 DEF Moves, acks
  <2>. QED  BY <1>2, <1>10, <2>4, <2>5, GoodResult
<1>11. CASE msg.id = 0 /\ "CLEAN_SESSION" \notin ctx.flags
  <2>1. connected.qos2_tx_cq \in CqType /\ \A p \in Items(connected.qos_ack1_wl) : connected.mqp[p] \in ReqMsgs
    BY <1>8 DEF Sound
  <2>2. /\ Ok(resumed, CallPacket) /\ FlagsMore(connected, resumed) /\ SomeSent(connected, resumed)
        /\ SameBut(connected, resumed, {"n_refs", "tx", "flags", "tx_mqp", "tx_part"})
    BY <1>7, <2>1, Resumed
  <2> HIDE DEF resumed
  <2>3. /\ resumed.net = connected.net /\ resumed.rx_mqp = connected.rx_mqp /\ resumed.mqp = connected.mqp
        /\ resumed.qos_ack1_wl = connected.qos_ack1_wl
        /\ resumed.qos2_rx_cq = connected.qos2_rx_cq /\ resumed.qos2_tx_cq = connected.qos2_tx_cq
    BY <2>2 DEF SameBut, CtxFields
  <2>4. Sound(resumed)
    BY <1>3, <1>6, <1>8, <2>2, <2>3 DEF Sound
  <2>5. PICK k \in 0..Len(ToResend(connected)) :
          /\ resumed.tx = connected.tx \o Sent(connected, k)
          /\ MaySend(resumed, FALSE) => k = Len(ToResend(connected))
    BY <2>2 DEF SomeSent
  <2> DEFINE s    == Sift(Sent(connected, k), ReqMsgs)
             wl   == connected.qos_ack1_wl
             reqs == IF link = "none" THEN <<>> ELSE Sift(resumed.tx, ReqMsgs)
  <2>6. /\ Sent(connected, k) \in Seq(AnyMsg) /\ Len(s) \in Nat /\ Len(s) <= Len(wl)
        /\ \A i \in 1..Len(s) : s[i] = connected.mqp[wl[i]]
        /\ k = Len(ToResend(connected)) => Len(s) = Len(wl)
    <3>1. IsCtx(connected)
      BY <1>7 DEF Ok
    <3>. QED  BY <2>1, <3>1, SentReqs
  <2>7. link # "none" => reqs = s
    <3>1. ctx.tx \in Seq(AnyMsg)
      BY <1>0 DEF TypeOK, IsCtx
    <3>2. Sift(resumed.tx, ReqMsgs) = Sift(ctx.tx, ReqMsgs) \o s
      <4>1. \A v, w \in Seq(AnyMsg) : Sift(v \o w, ReqMsgs) = Sift(v, ReqMsgs) \o Sift(w, ReqMsgs)
        BY SiftConcat
      <4>2. resumed.tx = ctx.tx \o Sent(connected, k)
        BY <1>6, <2>5
      <4>. QED  BY <2>6, <3>1, <4>1, <4>2
    <3>3. s \in Seq(AnyMsg)
      BY <2>6, SiftMembers
    <3>4. link # "none" => Sift(ctx.tx, ReqMsgs) = <<>>
      BY <1>3 DEF Reqs
    <3> HIDE DEF s
    <3>5. <<>> \o s = s
      BY <3>3
    <3>. QED  BY <3>2, <3>4, <3>5
  <2>8. InOrder(acks, reqs, resumed.qos_ack1_wl, resumed.mqp)
    <3>1. CASE link = "none"
      BY <1>0, <1>4, <1>6, <2>3, <3>1, OrderEmpty
    <3>2. CASE link # "none"
      <4>1. reqs = s /\ Len(acks) = 0 /\ acks = <<>>
        BY <1>4, <2>7, <3>2
      <4>2. InOrder(<<>>, s, wl, connected.mqp)
        <5> HIDE DEF s, wl
        <5>1. Len(<<>>) = 0 /\ Len(<<>>) + Len(s) <= Len(wl) /\ \A i \in 1..Len(s) : Len(<<>>) + i = i
          BY <2>6
        <5>. QED  BY <2>6, <5>1 DEF InOrder
      <4>. QED  BY <2>3, <4>1, <4>2
    <3>. QED  BY <3>1, <3>2
  <2>9. link # "none" /\ MaySend(resumed, FALSE) => Len(acks) + Len(reqs) = Len(resumed.qos_ack1_wl)
    BY <1>4, <2>3, <2>5, <2>6, <2>7
  <2>10. "CONNACK_AWAIT" \notin resumed.flags /\ "NOW_CONNECTED" \in resumed.flags
    BY <1>1, <2>2 DEF FlagsMore
  <2>11. Moves(resumed)
    BY <1>5, <1>11, <2>8, <2>9, <2>10 DEF Moves, acks
  <2>. QED  BY <1>2, <1>11, <2>4, <2>11, GoodResult
<1>. QED  BY <1>9, <1>10, <1>11

\* process_recv
LEMMA ProcessOk ==
  ASSUME IInv, down # <<>>, NEW n \in Nat
  PROVE  Handled(process_recv(ctx, Head(down), n), Head(down))
<1> DEFINE msg == Head(down)
           r   == process_recv(ctx, msg, n)
<1>0. Sound(ctx)
  BY BeforeRecv
<1>1. CASE "CONNACK_AWAIT" \in ctx.flags /\ msg.type = "CONNACK"
  <2>1. r = proc_connack_rx(ctx, msg, n)
    BY <1>1 DEF process_recv
  <2>. QED  BY <1>1, <2>1, ConnackOk
<1>2. CASE r = Bad(ctx)
  BY <1>0, <1>2, BadResult
<1>3. CASE "CONNACK_AWAIT" \notin ctx.flags /\ msg.type = "PUBREC"
  <2>1. r = proc_pub_rec_rx(ctx, msg.id, n > 0)
    BY <1>3 DEF process_recv
  <2>. QED  BY <1>3, <2>1, PubRecOk
<1>4. CASE "CONNACK_AWAIT" \notin ctx.flags /\ msg.type = "PUBREL"
  <2>1. r = proc_pub_rel_rx(ctx, msg.id, n > 0)
    BY <1>4 DEF process_recv
  <2>. QED  BY <1>4, <2>1, PubRelOk
<1>5. CASE "CONNACK_AWAIT" \notin ctx.flags /\ msg.type = "PUBCOMP"
  <2>1. r = proc_pub_comp_rx(ctx, msg.id)
    BY <1>5 DEF process_recv
  <2>. QED  BY <1>5, <2>1, PubCompOk
<1>6. CASE "CONNACK_AWAIT" \notin ctx.flags /\ msg.type \in {"PUBACK", "SUBACK", "UNSUBACK"}
  <2>1. r = proc_ack_msg_rx(ctx, msg.type, msg.id)
    BY <1>6 DEF process_recv
  <2>. QED  BY <1>6, <2>1, AckMsgOk
<1>7. CASE "CONNACK_AWAIT" \notin ctx.flags /\ msg.type = "PINGRSP"
  <2>1. r = proc_pingrsp_rx(ctx)
    BY <1>7 DEF process_recv
  <2>. QED  BY <1>7, <2>1, PingRspOk
<1>8. CASE "CONNACK_AWAIT" \notin ctx.flags /\ msg.type = "PUBLISH"
  <2>1. r = proc_pub_msg_rx(ctx, msg, n > 0)
    BY <1>8 DEF process_recv
  <2>. QED  BY <1>8, <2>1, PubMsgOk
<1>9. CASE "CONNACK_AWAIT" \in ctx.flags /\ msg.type # "CONNACK"
  <2>1. r = Bad(ctx)
    BY <1>9 DEF process_recv
  <2>. QED  BY <1>0, <2>1, BadResult
<1>10. CASE /\ "CONNACK_AWAIT" \notin ctx.flags
            /\ msg.type \notin {"PUBREC", "PUBREL", "PUBCOMP", "PUBACK", "SUBACK", "UNSUBACK", "PINGRSP", "PUBLISH"}
  <2>1. r = Bad(ctx)
    BY <1>10 DEF process_recv
  <2>. QED  BY <1>0, <2>1, BadResult
<1>. QED  BY <1>1, <1>3, <1>4, <1>5, <1>6, <1>7, <1>8, <1>9, <1>10

\* The receive task processes any message.
LEMMA RxProcessOk ==
  ASSUME IInv, RxProcess
  PROVE  IInv'
<1>0. down # <<>> /\ rx = "recv" /\ app.pc # "sending" /\ UNCHANGED <<app, server, count>>
  BY DEF RxProcess
<1>1. SentCounts \subseteq Nat
  <2>1. Len(ToResend(ctx)) \in Nat
    BY ResendItems DEF IInv, TypeOK
  <2>. QED  BY <2>1 DEF SentCounts
<1>2. PICK n \in Nat :
        LET r == process_recv(ctx, Head(down), n)
            ack == IF Notified(r.ack) THEN "" ELSE awaited_ack
            sig == ack_sync_obj \/ Notified(r.ack)
            refused == r.ack = "CONNACK" /\ Head(down).id # 0
        IN /\ rx' = IF r.rv THEN "done" ELSE "failed"
           /\ IF ~r.rv \/ refused
              THEN NetCloseRx(r.c, ack, sig)
              ELSE ctx' = r.c /\ down' = Tail(down) /\ link' = link
  BY <1>1 DEF RxProcess
<1> DEFINE r == process_recv(ctx, Head(down), n)
           refused == r.ack = "CONNACK" /\ Head(down).id # 0
<1>3. Handled(r, Head(down))
  BY <1>0, ProcessOk
<1> HIDE DEF r
<1>4. rx' \in {"done", "failed"}
  BY <1>2 DEF r
<1>5. CASE ~r.rv \/ refused
  <2>1. ctx' = do_net_close(r.c) /\ link' = "none" /\ down' = <<>>
    BY <1>2, <1>5 DEF r, NetCloseRx, NetClose
  <2>2. Sound(r.c)
    BY <1>3 DEF Handled
  <2>. QED  BY <1>0, <1>4, <2>1, <2>2, ClosedOk
<1>6. CASE r.rv /\ ~refused
  <2>1. ctx' = r.c /\ down' = Tail(down) /\ link' = link
    BY <1>2, <1>6 DEF r
  <2>2. Sound(ctx') /\ Moves(ctx')
    BY <1>3, <1>6, <2>1 DEF Handled
  <2>. QED  BY <1>0, <1>4, <2>1, <2>2, MovesOk
<1>. QED  BY <1>5, <1>6

-----------------------------------------------------------------------------
\* The server's side
ServerType == [clean : BOOLEAN, rcvd : SUBSET Nat, out : Seq(OutMsgs)]

\* A step of the server: the context only loses what the server reads.
LEMMA ServerMoves ==
  ASSUME IInv, UNCHANGED <<app, rx>>, SameBut(ctx, ctx', {"tx"}), ctx'.tx \in Seq(AnyMsg),
         link # "none", link' \in {"none", "open", "session"}, link' = "open" => link = "open",
         down' \in Seq(AnyMsg), server' \in ServerType,
         count' \in [requests : Nat, connects : Nat, msgs : Nat, pings : Nat, drops : Nat],
         InOrder(Acks', Reqs', ctx.qos_ack1_wl, ctx.mqp),
         link' # "none" => Len(Acks') + Len(Reqs') = Len(Acks) + Len(Reqs),
         "NOW_CONNECTED" \notin ctx.flags => Acks' = <<>> /\ Reqs' = <<>>,
         link' = "open" => \A m \in Items(down') : m.type = "CONNACK" => m.id # 0
  PROVE  IInv'
<1>0. /\ TypeOK /\ PoolInv /\ CallOK /\ RxOK /\ ListOK /\ AllUnderWay /\ Handshake
      /\ Ok(ctx, CallPacket)
  BY CtxOk DEF IInv
<1>1. /\ ctx'.net = ctx.net /\ ctx'.flags = ctx.flags /\ ctx'.qos_ack1_wl = ctx.qos_ack1_wl
      /\ ctx'.qos2_rx_cq = ctx.qos2_rx_cq /\ ctx'.qos2_tx_cq = ctx.qos2_tx_cq
      /\ ctx'.tx_part = ctx.tx_part /\ ctx'.rx_mqp = ctx.rx_mqp /\ ctx'.mqp = ctx.mqp
      /\ ctx'.msg_id = ctx.msg_id
  BY DEF SameBut, CtxFields
<1>2. Ok(ctx', CallPacket)
  <2>1. SameBut(ctx, ctx', {"tx", "flags", "net", "qos2_rx_cq", "qos2_tx_cq", "msg_id", "tx_part"})
    BY DEF SameBut
  <2>2. ctx'.msg_id \in Nat
    BY <1>0, <1>1 DEF TypeOK, IsCtx
  <2>. QED  BY <1>0, <2>1, <2>2, PlainChange
<1>3. TypeOK'
  BY <1>0, <1>1, <1>2 DEF TypeOK, Ok, ServerType
<1>4. CallPacket' = CallPacket
  BY DEF CallPacket
<1>5. PoolInv'
  BY <1>2, <1>4 DEF PoolInv, Ok
<1>6. CallOK'
  BY <1>0, <1>1, <1>4 DEF CallOK
<1>7. RxOK'
  BY <1>0, <1>1 DEF RxOK
<1>8. ListOK'
  BY <1>0, <1>1 DEF ListOK
<1>9. OrderOK'
  BY <1>1 DEF OrderOK
<1>10. AllUnderWay'
  <2>1. MaySend(ctx, FALSE)' => MaySend(ctx, FALSE)
    BY <1>1 DEF MaySend, is_connected
  <2>. QED  BY <1>0, <1>1, <2>1 DEF AllUnderWay, is_connected
<1>11. Handshake'
  BY <1>0, <1>1 DEF Handshake
<1>. QED  BY <1>3, <1>5, <1>6, <1>7, <1>8, <1>9, <1>10, <1>11 DEF IInv

\* The server's list of unfinished messages
LEMMA OutTypes ==
  ASSUME NEW out \in Seq(OutMsgs), NEW id
  PROVE  Finished(out, id) \in Seq(OutMsgs) /\ Released(out, id) \in Seq(OutMsgs)
<1> DEFINE I == {i \in 1..Len(out) : out[i].msg.id = id}
           k == OutAt(out, id)
<1>0. Len(out) \in Nat
  OBVIOUS
<1>1. k = IF I # {} THEN Min(I) ELSE 0
  BY DEF OutAt, SelectInSeq
<1>2. k = 0 \/ k \in 1..Len(out)
  <2>1. SUFFICES ASSUME I # {} PROVE k \in 1..Len(out)
    BY <1>1
  <2>2. I \in SUBSET Nat /\ I \subseteq 1..Len(out)
    BY <1>0
  <2> HIDE DEF I
  <2>3. \E m \in I : \A j \in I : m <= j
    BY <2>1, <2>2, LeastElement
  <2>4. Min(I) \in I
    BY <2>3 DEF Min
  <2>. QED  BY <1>1, <2>1, <2>2, <2>4
<1> HIDE DEF k, I
<1>3. CASE k = 0
  BY <1>3 DEF Finished, Released, k
<1>4. CASE k # 0
  <2>1. k \in 1..Len(out)
    BY <1>2, <1>4
  <2>2. Finished(out, id) = SubSeq(out, 1, k - 1) \o SubSeq(out, k + 1, Len(out))
    BY <1>4 DEF Finished, RemoveAt, k
  <2>3. Released(out, id) = [out EXCEPT ![k].released = TRUE]
    BY <1>4 DEF Released, k
  <2>4. \A S : \A s \in Seq(S) : \A i \in 1..Len(s) :
          SubSeq(s, 1, i - 1) \in Seq(S) /\ SubSeq(s, i + 1, Len(s)) \in Seq(S)
    OBVIOUS
  <2>5. \A S : \A s, t \in Seq(S) : s \o t \in Seq(S)
    OBVIOUS
  <2>6. out[k] \in OutMsgs
    <3>1. \A S : \A s \in Seq(S) : \A i \in 1..Len(s) : s[i] \in S
      OBVIOUS
    <3>. QED  BY <2>1, <3>1
  <2>7. [out[k] EXCEPT !.released = TRUE] \in OutMsgs
    BY <2>6 DEF OutMsgs
  <2>8. \A S : \A s \in Seq(S) : \A i \in 1..Len(s) : \A x \in S : [s EXCEPT ![i] = x] \in Seq(S)
    OBVIOUS
  <2>. QED  BY <2>1, <2>2, <2>3, <2>4, <2>5, <2>7, <2>8
<1>. QED  BY <1>3, <1>4

\* What is sent again: no first acknowledgement
LEMMA ResentTypes ==
  ASSUME NEW out \in Seq(OutMsgs)
  PROVE  Resent(out) \in Seq(AnyMsg) /\ \A i \in DOMAIN Resent(out) : Resent(out)[i].type \in {"PUBREL", "PUBLISH"}
<1>1. Len(out) \in Nat /\ DOMAIN out = 1..Len(out)
  OBVIOUS
<1>2. \A i \in 1..Len(out) : out[i] \in OutMsgs
  OBVIOUS
<1>3. "PUBREL" \in PacketTypes /\ "PUBLISH" \in PacketTypes
  BY DEF PacketTypes
<1>4. \A i \in 1..Len(out) : /\ out[i].msg \in AnyMsg /\ out[i].msg.type = "PUBLISH" /\ out[i].msg.id \in Nat
  BY <1>2, <1>3 DEF OutMsgs, AnyMsg
<1>5. \A i \in 1..Len(out) : VhMsg("PUBREL", out[i].msg.id) \in AnyMsg /\ VhMsg("PUBREL", out[i].msg.id).type = "PUBREL"
  BY <1>3, <1>4, MsgTypes
<1>6. Resent(out) \in [1..Len(out) -> AnyMsg]
  BY <1>1, <1>4, <1>5 DEF Resent
<1>7. \A i \in 1..Len(out) : Resent(out)[i].type \in {"PUBREL", "PUBLISH"}
  BY <1>1, <1>4, <1>5 DEF Resent
<1> HIDE DEF Resent
<1>. QED  BY <1>1, <1>6, <1>7

\* The messages of a reply
IsReply(r) == r.session \in ServerType /\ r.msgs \in Seq(AnyMsg)

NoAcks(r) == \A i \in DOMAIN r.msgs : r.msgs[i] \notin AckMsgs
NoConnack(r) == \A i \in DOMAIN r.msgs : r.msgs[i].type # "CONNACK"

\* A reply of one message
LEMMA OneReply ==
  ASSUME NEW s \in ServerType, NEW t \in PacketTypes, NEW id \in Nat, NEW r, r = Reply(s, <<VhMsg(t, id)>>)
  PROVE  /\ IsReply(r) /\ r.msgs = <<VhMsg(t, id)>>
         /\ t \notin {"PUBACK", "PUBREC", "SUBACK", "UNSUBACK"} => NoAcks(r)
         /\ t # "CONNACK" => NoConnack(r)
<1>1. VhMsg(t, id) \in AnyMsg /\ VhMsg(t, id).type = t
  BY MsgTypes
<1>2. r.session = s /\ r.msgs = <<VhMsg(t, id)>>
  BY DEF Reply
<1>3. t \notin {"PUBACK", "PUBREC", "SUBACK", "UNSUBACK"} => VhMsg(t, id) \notin AckMsgs
  BY <1>1 DEF AckMsgs
<1> HIDE DEF VhMsg
<1>4. DOMAIN r.msgs = {1} /\ r.msgs[1] = VhMsg(t, id)
  BY <1>2
<1>5. r.msgs \in Seq(AnyMsg)
  <2>1. \A S : \A x \in S : <<x>> \in Seq(S)
    OBVIOUS
  <2>. QED  BY <1>1, <1>2, <2>1
<1>. QED  BY <1>1, <1>2, <1>3, <1>4, <1>5 DEF IsReply, NoAcks, NoConnack

\* An empty reply
LEMMA EmptyReply ==
  ASSUME NEW s \in ServerType, NEW r, r = Reply(s, <<>>)
  PROVE  IsReply(r) /\ NoAcks(r) /\ NoConnack(r)
<1>1. r.session = s /\ r.msgs = <<>>
  BY DEF Reply
<1>2. <<>> \in Seq(AnyMsg) /\ DOMAIN <<>> = {}
  OBVIOUS
<1>. QED  BY <1>1, <1>2 DEF IsReply, NoAcks, NoConnack

\* The server answers a request with its first acknowledgement.
LEMMA RequestReply ==
  ASSUME NEW s \in ServerType, NEW msg \in ReqMsgs, NEW r, r = ServerReply(s, msg)
  PROVE  /\ IsReply(r) /\ NoConnack(r)
         /\ \E a \in AckMsgs : r.msgs = <<a>> /\ a.id = msg.id /\ a.type = AckType(msg)
<1>0. msg.id \in Nat /\ {"PUBACK", "PUBREC", "SUBACK", "UNSUBACK"} \subseteq PacketTypes
      /\ "CONNACK" \notin {"PUBACK", "PUBREC", "SUBACK", "UNSUBACK"}
  BY DEF ReqMsgs, PacketTypes
<1>1. SUFFICES ASSUME NEW u \in ServerType, NEW t \in {"PUBACK", "PUBREC", "SUBACK", "UNSUBACK"},
                      r = Reply(u, <<VhMsg(t, msg.id)>>), t = AckType(msg)
               PROVE  /\ IsReply(r) /\ NoConnack(r)
                      /\ \E a \in AckMsgs : r.msgs = <<a>> /\ a.id = msg.id /\ a.type = AckType(msg)
  <2>1. \A u \in ServerType : [u EXCEPT !.rcvd = @ \cup {msg.id}] \in ServerType
    BY <1>0 DEF ServerType
  <2>2. CASE msg.type = "PUBLISH" /\ msg.qos = 1
    <3>1. r = Reply(s, <<VhMsg("PUBACK", msg.id)>>) /\ AckType(msg) = "PUBACK"
      BY <2>2 DEF ServerReply, AckType
    <3>. QED  BY <1>1, <3>1
  <2>3. CASE msg.type = "PUBLISH" /\ msg.qos = 2
    <3>1. r = Reply([s EXCEPT !.rcvd = @ \cup {msg.id}], <<VhMsg("PUBREC", msg.id)>>) /\ AckType(msg) = "PUBREC"
      BY <2>3 DEF ServerReply, AckType
    <3>. QED  BY <1>1, <2>1, <3>1
  <2>4. CASE msg.type = "SUBSCRIBE"
    <3>1. r = Reply(s, <<VhMsg("SUBACK", msg.id)>>) /\ AckType(msg) = "SUBACK"
      BY <2>4 DEF ServerReply, AckType
    <3>. QED  BY <1>1, <3>1
  <2>5. CASE msg.type = "UNSUBSCRIBE"
    <3>1. r = Reply(s, <<VhMsg("UNSUBACK", msg.id)>>) /\ AckType(msg) = "UNSUBACK"
      BY <2>5 DEF ServerReply, AckType
    <3>. QED  BY <1>1, <3>1
  <2>. QED  BY <2>2, <2>3, <2>4, <2>5 DEF ReqMsgs
<1>2. IsReply(r) /\ NoConnack(r) /\ r.msgs = <<VhMsg(t, msg.id)>>
  <2>1. t \in PacketTypes /\ t # "CONNACK"
    BY <1>0
  <2>. QED  BY <1>0, <1>1, <2>1, OneReply
<1>3. VhMsg(t, msg.id) \in AckMsgs /\ VhMsg(t, msg.id).id = msg.id /\ VhMsg(t, msg.id).type = t
  BY <1>0 DEF VhMsg, Msg, AckMsgs
<1>. QED  BY <1>1, <1>2, <1>3

\* Other packets get no first acknowledgement, and only CONNECT a CONNACK.
LEMMA OtherReply ==
  ASSUME NEW s \in ServerType, NEW msg \in AnyMsg, msg \notin ReqMsgs, NEW r, r = ServerReply(s, msg)
  PROVE  IsReply(r) /\ NoAcks(r) /\ (msg.type # "CONNECT" => NoConnack(r))
<1>0. /\ msg.id \in Nat /\ msg.qos \in 0..2 /\ {"PUBCOMP", "PINGRSP", "PUBREL", "CONNACK"} \subseteq PacketTypes
      /\ s.out \in Seq(OutMsgs) /\ s.rcvd \in SUBSET Nat
      /\ "PUBCOMP" \notin {"PUBACK", "PUBREC", "SUBACK", "UNSUBACK", "CONNACK"}
      /\ "PUBREL" \notin {"PUBACK", "PUBREC", "SUBACK", "UNSUBACK", "CONNACK"}
      /\ "PINGRSP" \notin {"PUBACK", "PUBREC", "SUBACK", "UNSUBACK", "CONNACK"}
  BY DEF AnyMsg, PacketTypes, ServerType
<1>1. msg.type \notin {"SUBSCRIBE", "UNSUBSCRIBE"} /\ ~(msg.type = "PUBLISH" /\ msg.qos \in {1, 2})
  <2>1. msg.type \in PacketTypes /\ msg.body \in Nat
    BY DEF AnyMsg
  <2>2. msg = [type |-> msg.type, id |-> msg.id, qos |-> msg.qos, body |-> msg.body]
    BY DEF AnyMsg
  <2>. QED  BY <1>0, <2>1, <2>2 DEF ReqMsgs
<1>2. CASE msg.type = "CONNECT"
  <2> DEFINE kept == IF msg.id = 1 \/ s.clean THEN [NoSession EXCEPT !.clean = (msg.id = 1)] ELSE s
             back == Resent(kept.out)
  <2>1. r = Reply(kept, <<VhMsg("CONNACK", 0)>> \o back)
    BY <1>2 DEF ServerReply
  <2>2. kept \in ServerType
    <3>1. NoSession \in ServerType
      BY DEF NoSession, ServerType
    <3>2. [NoSession EXCEPT !.clean = (msg.id = 1)] \in ServerType
      BY <3>1 DEF ServerType
    <3>. QED  BY <3>1, <3>2
  <2>3. kept.out \in Seq(OutMsgs)
    BY <2>2 DEF ServerType
  <2> HIDE DEF kept
  <2>4. back \in Seq(AnyMsg) /\ \A i \in DOMAIN back : back[i].type \in {"PUBREL", "PUBLISH"}
    BY <2>3, ResentTypes
  <2> HIDE DEF back
  <2>5. VhMsg("CONNACK", 0) \in AnyMsg /\ VhMsg("CONNACK", 0).type = "CONNACK"
    BY <1>0, MsgTypes
  <2> DEFINE m == VhMsg("CONNACK", 0)
             all == <<m>> \o back
  <2>6. m \in AnyMsg /\ m.type = "CONNACK"
    BY <2>5
  <2> HIDE DEF m
  <2>7. /\ all \in Seq(AnyMsg) /\ DOMAIN all = 1..(Len(back) + 1) /\ all[1] = m /\ Len(back) \in Nat
        /\ \A i \in 2..(Len(back) + 1) : all[i] = back[i - 1]
    BY <2>4, <2>6
  <2>8. ASSUME NEW i \in DOMAIN all PROVE all[i] \notin AckMsgs
    <3>1. CASE i = 1
      BY <2>6, <2>7, <3>1 DEF AckMsgs
    <3>2. CASE i # 1
      <4>1. i \in 2..(Len(back) + 1) /\ i - 1 \in 1..Len(back) /\ DOMAIN back = 1..Len(back)
        BY <2>4, <2>7, <2>8, <3>2
      <4>2. all[i].type \in {"PUBREL", "PUBLISH"}
        BY <2>4, <2>7, <4>1
      <4>. QED  BY <4>2 DEF AckMsgs
    <3>. QED  BY <3>1, <3>2
  <2>9. r.session = kept /\ r.msgs = all
    BY <2>1 DEF Reply, m
  <2>. QED  BY <1>2, <2>2, <2>7, <2>8, <2>9 DEF IsReply, NoAcks
<1>3. CASE msg.type = "PUBREL"
  <2> DEFINE u == [s EXCEPT !.rcvd = @ \ {msg.id}]
  <2>1. r = Reply(u, <<VhMsg("PUBCOMP", msg.id)>>)
    BY <1>3 DEF ServerReply
  <2>2. u \in ServerType
    BY DEF ServerType
  <2> HIDE DEF u
  <2>. QED  BY <1>0, <2>1, <2>2, OneReply
<1>4. CASE msg.type = "PINGREQ"
  <2>1. r = Reply(s, <<VhMsg("PINGRSP", 0)>>)
    BY <1>4 DEF ServerReply
  <2>. QED  BY <1>0, <2>1, OneReply
<1>5. CASE msg.type \in {"PUBACK", "PUBCOMP"}
  <2> DEFINE u == [s EXCEPT !.out = Finished(@, msg.id)]
  <2>1. r = Reply(u, <<>>)
    BY <1>5 DEF ServerReply
  <2>2. u \in ServerType
    <3>1. Finished(s.out, msg.id) \in Seq(OutMsgs)
      BY <1>0, OutTypes
    <3>. QED  BY <3>1 DEF ServerType
  <2> HIDE DEF u
  <2>. QED  BY <2>1, <2>2, EmptyReply
<1>6. CASE msg.type = "PUBREC"
  <2> DEFINE u == [s EXCEPT !.out = Released(@, msg.id)]
  <2>1. r = Reply(u, <<VhMsg("PUBREL", msg.id)>>)
    BY <1>6 DEF ServerReply
  <2>2. u \in ServerType
    <3>1. Released(s.out, msg.id) \in Seq(OutMsgs)
      BY <1>0, OutTypes
    <3>. QED  BY <3>1 DEF ServerType
  <2> HIDE DEF u
  <2>. QED  BY <1>0, <2>1, <2>2, OneReply
<1>7. CASE msg.type \notin {"CONNECT", "PUBREL", "PINGREQ", "PUBACK", "PUBCOMP", "PUBREC"}
  <2>1. r = Reply(s, <<>>)
    BY <1>1, <1>7 DEF ServerReply
  <2>. QED  BY <2>1, EmptyReply
<1>. QED  BY <1>2, <1>3, <1>4, <1>5, <1>6, <1>7

\* Items of lists put together
LEMMA JoinedItems ==
  ASSUME NEW S, NEW s \in Seq(S), NEW t \in Seq(S)
  PROVE  s \o t \in Seq(S) /\ Items(s \o t) \subseteq Items(s) \cup Items(t)
<1> DEFINE u == s \o t
           n == Len(s)
           m == Len(t)
<1>1. /\ u \in Seq(S) /\ n \in Nat /\ m \in Nat /\ DOMAIN u = 1..(n + m)
      /\ DOMAIN s = 1..n /\ DOMAIN t = 1..m
      /\ \A i \in 1..(n + m) : u[i] = IF i <= n THEN s[i] ELSE t[i - n]
  OBVIOUS
<1>2. \A i \in 1..(n + m) : IF i <= n THEN i \in 1..n ELSE i - n \in 1..m
  BY <1>1
<1> HIDE DEF u, n, m
<1>3. Items(u) \subseteq Items(s) \cup Items(t)
  BY <1>1, <1>2 DEF Items
<1>. QED  BY <1>1, <1>3 DEF u

\* The server reads a packet and answers it.
LEMMA ServerRecvOk ==
  ASSUME IInv, ServerRecv
  PROVE  IInv'
<1> DEFINE msg == Head(ctx.tx)
           r   == ServerReply(server, msg)
           wl  == ctx.qos_ack1_wl
<1>0. /\ TypeOK /\ Handshake /\ OrderOK /\ link # "none" /\ ctx.tx # <<>> /\ ctx.tx \in Seq(AnyMsg)
      /\ down \in Seq(AnyMsg) /\ server \in ServerType /\ DOMAIN ctx = CtxFields
      /\ count \in [requests : Nat, connects : Nat, msgs : Nat, pings : Nat, drops : Nat]
      /\ link \in {"none", "open", "session"}
  BY DEF IInv, TypeOK, IsCtx, ServerType, ServerRecv
<1>1. Acks \in Seq(AnyMsg) /\ Reqs \in Seq(AnyMsg) /\ wl \in Seq(Packets)
      /\ InOrder(Acks, Reqs, wl, ctx.mqp)
  BY <1>0, ListsTyped DEF OrderOK
<1>2. msg \in AnyMsg /\ Tail(ctx.tx) \in Seq(AnyMsg)
  BY <1>0
<1>3. /\ ctx' = [ctx EXCEPT !.tx = Tail(@)] /\ server' = r.session /\ down' = down \o r.msgs
      /\ UNCHANGED <<app, rx, count>>
      /\ link' = CASE msg.type = "CONNECT" -> "session"
                   [] msg.type = "DISCONNECT" -> "none"
                   [] OTHER -> link
  BY DEF ServerRecv
<1>4. SameBut(ctx, ctx', {"tx"}) /\ ctx'.tx = Tail(ctx.tx)
  BY <1>0, <1>3 DEF SameBut, CtxFields
<1>5. /\ link' \in {"none", "open", "session"}
      /\ link' = "open" => link = "open" /\ msg.type # "CONNECT"
      /\ link' # "none" => link # "none"
      /\ msg.type \notin {"CONNECT", "DISCONNECT"} => link' = link
  BY <1>0, <1>3
<1>6. Sift(ctx.tx, ReqMsgs) = IF msg \in ReqMsgs THEN <<msg>> \o Sift(Tail(ctx.tx), ReqMsgs)
                              ELSE Sift(Tail(ctx.tx), ReqMsgs)
  BY <1>0, SiftTail
<1>7. Sift(Tail(ctx.tx), ReqMsgs) \in Seq(AnyMsg)
  BY <1>2, SiftMembers
<1>8. ASSUME r.msgs \in Seq(AnyMsg) PROVE Acks' = Acks \o Sift(r.msgs, AckMsgs)
  <2>1. \A v, w \in Seq(AnyMsg) : Sift(v \o w, AckMsgs) = Sift(v, AckMsgs) \o Sift(w, AckMsgs)
    BY SiftConcat
  <2> HIDE DEF r
  <2>. QED  BY <1>0, <1>3, <1>8, <2>1 DEF Acks
<1>9. ASSUME r.msgs \in Seq(AnyMsg), NoConnack(r), link' = "open"
      PROVE  \A m \in Items(down') : m.type = "CONNACK" => m.id # 0
  <2>1. Items(down') \subseteq Items(down) \cup Items(r.msgs)
    <3> HIDE DEF r
    <3>. QED  BY <1>0, <1>3, <1>9, JoinedItems
  <2>2. \A m \in Items(down) : m.type = "CONNACK" => m.id # 0
    BY <1>0, <1>5, <1>9 DEF Handshake
  <2>3. \A m \in Items(r.msgs) : m.type # "CONNACK"
    BY <1>9 DEF NoConnack, Items
  <2>. QED  BY <2>1, <2>2, <2>3
<1>10. CASE msg \in ReqMsgs
  <2>1. /\ IsReply(r) /\ NoConnack(r)
        /\ \E a \in AckMsgs : r.msgs = <<a>> /\ a.id = msg.id /\ a.type = AckType(msg)
    BY <1>0, <1>10, RequestReply
  <2>2. PICK a \in AckMsgs : r.msgs = <<a>> /\ a.id = msg.id /\ a.type = AckType(msg)
    BY <2>1
  <2>3. r.msgs \in Seq(AnyMsg) /\ r.session \in ServerType /\ a \in AnyMsg
    BY <2>1, MsgTypes DEF IsReply
  <2> HIDE DEF r, msg
  <2>4. msg.type \notin {"CONNECT", "DISCONNECT"}
    BY <1>10 DEF ReqMsgs
  <2>5. link' = link
    BY <1>5, <2>4
  <2>6. Acks' = Append(Acks, a)
    <3>1. Sift(r.msgs, AckMsgs) = <<a>>
      BY <2>2, SiftOne
    <3>. QED  BY <1>1, <1>8, <2>3, <3>1
  <2>7. Reqs # <<>> /\ Head(Reqs) = msg /\ Reqs' = Tail(Reqs) /\ Len(Reqs') = Len(Reqs) - 1
    <3> DEFINE rest == Sift(Tail(ctx.tx), ReqMsgs)
    <3>1. Reqs = <<msg>> \o rest /\ Reqs' = rest
      BY <1>0, <1>4, <1>6, <1>10, <2>5 DEF Reqs
    <3>2. rest \in Seq(AnyMsg)
      BY <1>7
    <3> HIDE DEF rest
    <3>. QED  BY <1>2, <3>1, <3>2
  <2>8. InOrder(Acks', Reqs', wl, ctx.mqp)
    BY <1>1, <2>2, <2>3, <2>6, <2>7, OrderServe
  <2>9. Len(Acks') + Len(Reqs') = Len(Acks) + Len(Reqs)
    <3>1. Len(Acks') = Len(Acks) + 1 /\ Len(Acks) \in Nat /\ Len(Reqs) \in Nat
      BY <1>1, <2>3, <2>6
    <3>. QED  BY <2>7, <3>1
  <2>10. "NOW_CONNECTED" \in ctx.flags
    BY <1>0, <2>7 DEF Handshake
  <2>11. down' \in Seq(AnyMsg)
    BY <1>0, <1>3, <2>3
  <2>12. link' = "open" => \A m \in Items(down') : m.type = "CONNACK" => m.id # 0
    BY <1>9, <2>1, <2>3
  <2>. QED  BY <1>0, <1>2, <1>3, <1>4, <1>5, <2>3, <2>8, <2>9, <2>10, <2>11, <2>12, ServerMoves
<1>11. CASE msg \notin ReqMsgs
  <2>1. IsReply(r) /\ NoAcks(r) /\ (msg.type # "CONNECT" => NoConnack(r))
    BY <1>0, <1>2, <1>11, OtherReply
  <2>2. r.msgs \in Seq(AnyMsg) /\ r.session \in ServerType
    BY <2>1 DEF IsReply
  <2> HIDE DEF r, msg
  <2>3. Acks' = Acks
    <3>1. Sift(r.msgs, AckMsgs) = <<>>
      BY <2>1, <2>2, SiftNone DEF NoAcks
    <3>. QED  BY <1>1, <1>8, <2>2, <3>1
  <2>4. Reqs' = IF link' = "none" THEN <<>> ELSE Reqs
    BY <1>0, <1>4, <1>6, <1>11 DEF Reqs
  <2>5. InOrder(Acks, <<>>, wl, ctx.mqp)
    <3>1. Len(Acks) \in Nat
      BY <1>1
    <3>2. Len(Acks) <= Len(Acks) /\ \A i \in 1..Len(Acks) : Acks[i] = Acks[i]
      BY <3>1
    <3>. QED  BY ONLY <1>1, <3>2, OrderPrefix
  <2>6. InOrder(Acks', Reqs', wl, ctx.mqp)
    BY <1>1, <2>3, <2>4, <2>5
  <2>7. link' # "none" => Len(Acks') + Len(Reqs') = Len(Acks) + Len(Reqs)
    BY <2>3, <2>4
  <2>8. "NOW_CONNECTED" \notin ctx.flags => Acks' = <<>> /\ Reqs' = <<>>
    BY <1>0, <2>3, <2>4 DEF Handshake
  <2>9. down' \in Seq(AnyMsg)
    BY <1>0, <1>3, <2>2
  <2>10. link' = "open" => \A m \in Items(down') : m.type = "CONNACK" => m.id # 0
    BY <1>5, <1>9, <2>1, <2>2
  <2>. QED  BY <1>0, <1>2, <1>3, <1>4, <1>5, <2>2, <2>6, <2>7, <2>8, <2>9, <2>10, ServerMoves
<1>. QED  BY <1>10, <1>11

\* The connection breaks.
LEMMA DropLinkOk ==
  ASSUME IInv, DropLink
  PROVE  IInv'
<1>0. /\ TypeOK /\ Handshake /\ OrderOK /\ link # "none" /\ down \in Seq(AnyMsg)
      /\ server \in ServerType /\ DOMAIN ctx = CtxFields
      /\ count \in [requests : Nat, connects : Nat, msgs : Nat, pings : Nat, drops : Nat]
  BY DEF IInv, TypeOK, IsCtx, ServerType, DropLink
<1>1. Acks \in Seq(AnyMsg) /\ Reqs \in Seq(AnyMsg) /\ ctx.qos_ack1_wl \in Seq(Packets)
      /\ InOrder(Acks, Reqs, ctx.qos_ack1_wl, ctx.mqp)
  BY <1>0, ListsTyped DEF OrderOK
<1>2. PICK k \in 0..Len(down) : down' = SubSeq(down, 1, k)
  BY DEF DropLink
<1>3. UNCHANGED <<app, rx, server>> /\ link' = "none" /\ ctx' = [ctx EXCEPT !.tx = <<>>]
  BY DEF DropLink
<1>4. SameBut(ctx, ctx', {"tx"}) /\ ctx'.tx = <<>>
  BY <1>0, <1>3 DEF SameBut, CtxFields
<1>5. count' \in [requests : Nat, connects : Nat, msgs : Nat, pings : Nat, drops : Nat]
  <2>1. count' = [count EXCEPT !.drops = @ + 1]
    BY DEF DropLink
  <2>. QED  BY <1>0, <2>1
<1>6. /\ Acks' \in Seq(AnyMsg) /\ Len(Acks') <= Len(Acks) /\ \A i \in 1..Len(Acks') : Acks'[i] = Acks[i]
  BY <1>0, <1>2, SiftPrefix DEF Acks
<1>7. Reqs' = <<>>
  BY <1>3 DEF Reqs
<1>8. InOrder(Acks', Reqs', ctx.qos_ack1_wl, ctx.mqp)
  BY <1>1, <1>6, <1>7, OrderPrefix
<1>9. "NOW_CONNECTED" \notin ctx.flags => Acks' = <<>> /\ Reqs' = <<>>
  <2>1. Acks = <<>> => Acks' = <<>>
    <3>1. ASSUME Acks = <<>> PROVE Acks' = <<>>
      <4>1. Len(Acks) = 0 /\ Len(Acks') \in Nat
        BY <1>6, <3>1
      <4>. QED  BY <1>6, <4>1
    <3>. QED  BY <3>1
  <2>. QED  BY <1>0, <1>7, <2>1 DEF Handshake
<1>10. down' \in Seq(AnyMsg) /\ ctx'.tx \in Seq(AnyMsg)
  BY <1>0, <1>2, <1>4
<1>. QED  BY <1>0, <1>3, <1>4, <1>5, <1>8, <1>9, <1>10, ServerMoves

\* The server refuses the connection.
LEMMA ServerRefuseOk ==
  ASSUME IInv, ServerRefuse
  PROVE  IInv'
<1> DEFINE m == VhMsg("CONNACK", 5)
<1>0. /\ TypeOK /\ Handshake /\ OrderOK /\ link = "open" /\ ctx.tx # <<>> /\ ctx.tx \in Seq(AnyMsg)
      /\ server \in ServerType /\ DOMAIN ctx = CtxFields /\ ctx.qos_ack1_wl \in Seq(Packets)
      /\ count \in [requests : Nat, connects : Nat, msgs : Nat, pings : Nat, drops : Nat]
  BY DEF IInv, TypeOK, IsCtx, ServerType, ServerRefuse
<1>1. UNCHANGED <<app, rx, server, link>> /\ ctx' = [ctx EXCEPT !.tx = Tail(@)] /\ down' = <<m>>
  BY DEF ServerRefuse
<1>2. SameBut(ctx, ctx', {"tx"}) /\ ctx'.tx = Tail(ctx.tx) /\ ctx'.tx \in Seq(AnyMsg)
  BY <1>0, <1>1 DEF SameBut, CtxFields
<1>3. count' \in [requests : Nat, connects : Nat, msgs : Nat, pings : Nat, drops : Nat]
  BY SMTT(30), <1>0 DEF ServerRefuse
<1>4. m \in AnyMsg /\ m.type = "CONNACK" /\ m.id = 5
  <2>1. "CONNACK" \in PacketTypes /\ 5 \in Nat
    BY DEF PacketTypes
  <2>. QED  BY <2>1, MsgTypes
<1> HIDE DEF m
<1>5. down' \in Seq(AnyMsg) /\ Items(down') = {m}
  <2>1. \A S : \A x \in S : <<x>> \in Seq(S)
    OBVIOUS
  <2>2. DOMAIN <<m>> = {1} /\ <<m>>[1] = m
    OBVIOUS
  <2>. QED  BY <1>1, <1>4, <2>1, <2>2 DEF Items
<1>6. "NOW_CONNECTED" \notin ctx.flags /\ Acks = <<>> /\ Reqs = <<>>
  BY <1>0 DEF Handshake
<1>7. Acks' = <<>>
  <2>1. m \notin AckMsgs
    BY <1>4 DEF AckMsgs
  <2>. QED  BY <1>1, <2>1, SiftOne DEF Acks
<1>8. Reqs' = <<>>
  <2>1. Sift(ctx.tx, ReqMsgs) = <<>> /\ link # "none"
    BY <1>0, <1>6 DEF Reqs
  <2>2. Sift(ctx.tx, ReqMsgs) = IF Head(ctx.tx) \in ReqMsgs THEN <<Head(ctx.tx)>> \o Sift(Tail(ctx.tx), ReqMsgs)
                                ELSE Sift(Tail(ctx.tx), ReqMsgs)
    BY <1>0, SiftTail
  <2>3. Sift(Tail(ctx.tx), ReqMsgs) \in Seq(AnyMsg)
    BY <1>2, SiftMembers
  <2>4. \A x : \A s \in Seq(AnyMsg) : <<x>> \o s # <<>>
    OBVIOUS
  <2>5. Sift(Tail(ctx.tx), ReqMsgs) = <<>>
    BY <2>1, <2>2, <2>3, <2>4
  <2>. QED  BY <1>1, <1>2, <2>1, <2>5 DEF Reqs
<1>9. InOrder(Acks', Reqs', ctx.qos_ack1_wl, ctx.mqp)
  BY <1>0, <1>7, <1>8, OrderEmpty
<1>10. link # "none" /\ link' \in {"none", "open", "session"} /\ server' \in ServerType
       /\ Len(Acks') + Len(Reqs') = Len(Acks) + Len(Reqs)
  BY <1>0, <1>1, <1>6, <1>7, <1>8
<1>. QED  BY SMTT(30), <1>0, <1>1, <1>2, <1>3, <1>4, <1>5, <1>7, <1>8, <1>9, <1>10, ServerMoves

\* An id is free while fewer messages are under way than there are ids.
LEMMA FreeId ==
  ASSUME NEW out \in Seq(OutMsgs), NEW n \in Nat, Len(out) < n
  PROVE  \E i \in 1..n : \A j \in DOMAIN out : out[j].msg.id # i
<1> DEFINE m == Len(out)
           f == [j \in 1..m |-> out[j].msg.id]
<1>1. m \in Nat /\ n \in Nat /\ m < n /\ DOMAIN out = 1..m
  OBVIOUS
<1>2. f \in [1..m -> Nat] /\ \A j \in 1..m : f[j] = out[j].msg.id
  <2>1. \A j \in 1..m : out[j] \in OutMsgs
    OBVIOUS
  <2>2. \A o \in OutMsgs : o.msg.id \in Nat
    BY DEF OutMsgs
  <2>. QED  BY <2>1, <2>2
<1> HIDE DEF f, m
<1>3. \E i \in 1..n : \A j \in 1..m : f[j] # i
  BY ONLY <1>1, <1>2, Pigeonhole
<1>. QED  BY <1>1, <1>2, <1>3

\* The server has a message for the client.
LEMMA ServerPublishOk ==
  ASSUME IInv, NEW qos \in ServerQos, ServerPublish(qos)
  PROVE  IInv'
<1> DEFINE body == count.msgs + 1
           id   == CHOOSE i \in 1..ServerInflight : \A j \in DOMAIN server.out : server.out[j].msg.id # i
           m    == Msg("PUBLISH", id, qos, body)
<1>0. /\ TypeOK /\ Handshake /\ OrderOK /\ link = "session" /\ down \in Seq(AnyMsg)
      /\ server \in ServerType /\ DOMAIN ctx = CtxFields /\ ctx.tx \in Seq(AnyMsg)
      /\ count \in [requests : Nat, connects : Nat, msgs : Nat, pings : Nat, drops : Nat]
      /\ Len(server.out) < ServerInflight /\ ServerInflight \in Nat
  BY SlMqttAssumption DEF IInv, TypeOK, IsCtx, ServerType, ServerPublish
<1>1. Acks \in Seq(AnyMsg) /\ Reqs \in Seq(AnyMsg) /\ ctx.qos_ack1_wl \in Seq(Packets)
      /\ InOrder(Acks, Reqs, ctx.qos_ack1_wl, ctx.mqp)
  BY <1>0, ListsTyped DEF OrderOK
<1>2. /\ count' = [count EXCEPT !.msgs = body] /\ down' = Append(down, m)
      /\ server' = [server EXCEPT !.out = Append(@, [msg |-> m, released |-> FALSE])]
      /\ UNCHANGED <<ctx, app, rx, link>>
  BY DEF ServerPublish, clientVars
<1>3. id \in Nat
  <2>1. server.out \in Seq(OutMsgs)
    BY <1>0 DEF ServerType
  <2>2. \E i \in 1..ServerInflight : \A j \in DOMAIN server.out : server.out[j].msg.id # i
    BY <1>0, <2>1, FreeId
  <2>3. id \in 1..ServerInflight
    BY <2>2
  <2>. QED  BY <1>0, <2>3
<1>4. body \in Nat /\ qos \in 0..2 /\ "PUBLISH" \in PacketTypes
  BY <1>0, SlMqttAssumption DEF PacketTypes
<1> HIDE DEF id, body
<1>5. /\ m \in AnyMsg /\ m.type = "PUBLISH" /\ [msg |-> m, released |-> FALSE] \in OutMsgs
  BY <1>3, <1>4 DEF Msg, AnyMsg, OutMsgs
<1> DEFINE o == [msg |-> m, released |-> FALSE]
<1> HIDE DEF m, o
<1>6. server' \in ServerType
  <2>1. server.out \in Seq(OutMsgs)
    BY <1>0 DEF ServerType
  <2>2. Append(server.out, o) \in Seq(OutMsgs)
    BY <1>5, <2>1 DEF o
  <2>3. server' = [server EXCEPT !.out = Append(@, o)]
    BY <1>2 DEF o
  <2>. QED  BY <1>0, <2>2, <2>3 DEF ServerType
<1>7. count' \in [requests : Nat, connects : Nat, msgs : Nat, pings : Nat, drops : Nat]
  BY <1>0, <1>2, <1>4
<1>8. Acks' = Acks /\ Reqs' = Reqs
  <2>1. m \notin AckMsgs
    BY <1>5 DEF AckMsgs
  <2>2. Sift(Append(down, m), AckMsgs) = Sift(down, AckMsgs)
    BY <1>0, <1>5, <2>1, SiftAppend
  <2>. QED  BY <1>2, <2>2 DEF Acks, Reqs
<1>9. SameBut(ctx, ctx', {"tx"}) /\ ctx'.tx \in Seq(AnyMsg)
  BY <1>0, <1>2 DEF SameBut
<1>10. "NOW_CONNECTED" \notin ctx.flags => Acks' = <<>> /\ Reqs' = <<>>
  BY <1>0, <1>8 DEF Handshake
<1>11. InOrder(Acks', Reqs', ctx.qos_ack1_wl, ctx.mqp) /\ Len(Acks') + Len(Reqs') = Len(Acks) + Len(Reqs)
  BY <1>1, <1>8
<1>12. down' \in Seq(AnyMsg) /\ link # "none" /\ link' \in {"none", "open", "session"} /\ link' # "open"
  BY <1>0, <1>2, <1>5
<1>. QED  BY <1>2, <1>6, <1>7, <1>9, <1>10, <1>11, <1>12, ServerMoves

-----------------------------------------------------------------------------
(***************************************************************************)
(* The invariant and what follows from it.                                 *)
(***************************************************************************)
LEMMA InitOk ==
  ASSUME Init
  PROVE  IInv
<1>0. MAX_MQP \in Nat \ {0} /\ NULL \notin Packets
  BY MqttAssumption, PacketFacts
<1> DEFINE free == [i \in Packets |-> MAX_MQP + 1 - i]
<1>1. free \in Seq(Packets) /\ Len(free) = MAX_MQP /\ DOMAIN free = 1..MAX_MQP /\ NoRepeats(free)
  <2>1. \A i \in 1..MAX_MQP : MAX_MQP + 1 - i \in 1..MAX_MQP
    BY <1>0
  <2>2. free \in [1..MAX_MQP -> Packets]
    BY <2>1 DEF Packets
  <2>3. \A i, j \in 1..MAX_MQP : MAX_MQP + 1 - i = MAX_MQP + 1 - j => i = j
    BY <1>0
  <2>4. \A i \in 1..MAX_MQP : free[i] = MAX_MQP + 1 - i
    BY DEF Packets
  <2> HIDE DEF free
  <2>5. NoRepeats(free)
    BY <2>2, <2>3, <2>4 DEF NoRepeats
  <2>. QED  BY <1>0, <2>2, <2>5
<1> HIDE DEF free
<1>2. /\ ctx = InitCtx /\ app = Idle /\ rx = "signal" /\ link = "none" /\ down = <<>> /\ server = NoSession
      /\ count = [requests |-> 0, connects |-> 0, msgs |-> 0, pings |-> 0, drops |-> 0]
  BY DEF Init
<1>3. /\ ctx.net = FALSE /\ ctx.flags = {} /\ ctx.qos_ack1_wl = <<>> /\ ctx.tx_mqp = NULL /\ ctx.rx_mqp = NULL
      /\ ctx.qos2_rx_cq = qos2_pub_cq_reset /\ ctx.qos2_tx_cq = qos2_pub_cq_reset
      /\ ctx.msg_id \in Nat /\ ctx.free_list = free /\ ctx.n_refs = [p \in Packets |-> 0]
      /\ ctx.mqp = [p \in Packets |-> NoMsg] /\ ctx.tx = <<>> /\ DOMAIN ctx = CtxFields
  BY <1>2 DEF InitCtx, CtxFields, free
<1>4. TypeOK
  <2>1. IsCtx(ctx)
    <3>1. [p \in Packets |-> 0] \in [Packets -> Nat] /\ [p \in Packets |-> NoMsg] \in [Packets -> AnyMsg]
      BY MsgTypes
    <3>2. <<>> \in Seq(Packets) /\ <<>> \in Seq(AnyMsg)
      OBVIOUS
    <3>. QED  BY <1>1, <1>3, <3>1, <3>2 DEF IsCtx
  <2>2. app \in AppType
    BY <1>2, CallTypes DEF AppType, Idle
  <2>3. server \in [clean : BOOLEAN, rcvd : SUBSET Nat, out : Seq(OutMsgs)]
    BY <1>2 DEF NoSession
  <2>4. down \in Seq(AnyMsg)
    BY <1>2
  <2>5. count \in [requests : Nat, connects : Nat, msgs : Nat, pings : Nat, drops : Nat]
    BY <1>2
  <2>. QED  BY <1>2, <1>3, <2>1, <2>2, <2>3, <2>4, <2>5, ResetType DEF TypeOK
<1>5. CallPacket = {} /\ app.pc = "idle"
  BY <1>2 DEF CallPacket, Idle
<1>6. Items(<<>>) = {} /\ NoRepeats(<<>>)
  BY DEF Items, NoRepeats
<1>7. PoolInv
  <2>1. \A p \in Items(ctx.free_list) : ctx.n_refs[p] = 0
    <3>1. Items(free) \subseteq Packets
      BY <1>1 DEF Items
    <3>. QED  BY <1>3, <3>1
  <2>2. \A p \in Packets : Uses(ctx, CallPacket, p) <= ctx.n_refs[p]
    <3>1. \A p \in Packets : Uses(ctx, CallPacket, p) = 0 /\ ctx.n_refs[p] = 0
      BY <1>0, <1>3, <1>5, <1>6 DEF Uses, One
    <3>. QED  BY <3>1
  <2>3. ctx.rx_mqp \notin Items(ctx.qos_ack1_wl) \cup CallPacket /\ CallPacket \cap Items(ctx.qos_ack1_wl) = {}
    BY <1>3, <1>5, <1>6
  <2>. QED  BY <1>1, <1>3, <1>6, <2>1, <2>2, <2>3 DEF PoolInv, PoolOK
<1>8. CallOK /\ RxOK
  BY <1>2, <1>5 DEF CallOK, RxOK
<1>9. Acks = <<>> /\ Reqs = <<>>
  BY <1>2, SiftEmpty DEF Acks, Reqs
<1>10. ListOK /\ AllUnderWay
  BY <1>2, <1>3, <1>6 DEF ListOK, AllUnderWay
<1>11. OrderOK
  <2>1. <<>> \in Seq(Packets)
    OBVIOUS
  <2>2. \A mqp : InOrder(<<>>, <<>>, <<>>, mqp)
    BY ONLY <2>1, OrderEmpty
  <2>. QED  BY <1>3, <1>9, <2>2 DEF OrderOK
<1>12. Handshake
  BY <1>2, <1>3, <1>5, <1>9 DEF Handshake
<1>. QED  BY <1>4, <1>7, <1>8, <1>10, <1>11, <1>12 DEF IInv

\* Every step keeps the invariant.
LEMMA NextOk ==
  ASSUME IInv, [Next]_vars
  PROVE  IInv'
<1>1. ASSUME NEW clean \in CleanChoices, StartConnect(clean) PROVE IInv'
  BY <1>1, StartConnectOk
<1>2. ASSUME NEW call \in Requests \cup {DisconnCall}, StartCall(call) PROVE IInv'
  BY <1>2, StartCallOk
<1>3. CASE AppStep
  BY <1>3, ComposeOk, NetConnectOk, DispatchOk, ConnectSentOk, MsgSentOk, DisconnSentOk, SendFailsOk,
     WaitEndsOk DEF AppStep
<1>4. CASE RxStep
  BY <1>4, RxMovesOk, RxClosesOk, RxPingOk, RxPingSentOk, RxAllocOk, RxTimeoutOk, RxProcessOk, RxFreeOk
     DEF RxStep
<1>5. CASE ServerRecv
  BY <1>5, ServerRecvOk
<1>6. CASE ServerRefuse
  BY <1>6, ServerRefuseOk
<1>7. CASE DropLink
  BY <1>7, DropLinkOk
<1>8. ASSUME NEW qos \in ServerQos, ServerPublish(qos) PROVE IInv'
  BY <1>8, ServerPublishOk
<1>9. CASE UNCHANGED vars
  <2>1. UNCHANGED <<ctx, app, rx, link, down, server, count>>
    BY <1>9 DEF vars, clientVars, serverVars
  <2>2. TypeOK'
    BY <2>1 DEF IInv, TypeOK
  <2>3. CallPacket' = CallPacket
    BY <2>1 DEF CallPacket
  <2>4. CallOK'
    BY <2>1, <2>3 DEF IInv, CallOK
  <2>5. RxOK'
    BY <2>1 DEF IInv, RxOK
  <2>. QED  BY <2>1, <2>2, <2>3, <2>4, <2>5, SameCtx
<1>. QED  BY <1>1, <1>2, <1>3, <1>4, <1>5, <1>6, <1>7, <1>8, <1>9 DEF Next

\* The invariant holds in every state.
LEMMA Inductive == Spec => []IInv
<1>1. Init => IInv
  BY InitOk
<1>2. IInv /\ [Next]_vars => IInv'
  BY NextOk
<1>. QED  BY <1>1, <1>2, PTL DEF Spec

\* Contexts, calls, messages and sessions keep their types in every state: the
\* circular queues of mqtt_common.c never hold more than their capacity.
THEOREM WellTyped == Spec => []TypeOK
<1>1. IInv => TypeOK
  BY DEF IInv
<1>. QED  BY <1>1, Inductive, PTL

\* However often the connection breaks and the session is resumed, the first
\* acknowledgement of a request finds its packet, and a PUBREC finds it at the
\* head of the list, the only place where _proc_pub_rec_rx looks.
THEOREM AcksFindPackets == Spec => []AckExpected
<1>1. IInv => AckExpected
  <2>1. SUFFICES ASSUME IInv, rx = "recv", down # <<>>,
                        Head(down).type \in {"PUBACK", "SUBACK", "UNSUBACK", "PUBREC"}
                 PROVE  /\ ctx.qos_ack1_wl # <<>> /\ ctx.mqp[Head(ctx.qos_ack1_wl)].id = Head(down).id
                        /\ \E p \in ToSet(ctx.qos_ack1_wl) : ctx.mqp[p].id = Head(down).id
    BY DEF AckExpected
  <2>2. Head(down) \in AnyMsg /\ ctx.qos_ack1_wl \in Seq(Packets)
    BY <2>1, BeforeRecv
  <2>3. Head(down) \in AckMsgs
    BY <2>1, <2>2 DEF AnyMsg, AckMsgs
  <2>4. ctx.qos_ack1_wl # <<>> /\ Head(down).id = ctx.mqp[ctx.qos_ack1_wl[1]].id
    BY <2>1, <2>3, FirstAck
  <2>5. Head(ctx.qos_ack1_wl) = ctx.qos_ack1_wl[1] /\ 1 \in DOMAIN ctx.qos_ack1_wl
    BY <2>2, <2>4
  <2>6. ctx.qos_ack1_wl[1] \in ToSet(ctx.qos_ack1_wl)
    BY <2>5 DEF ToSet
  <2>. QED  BY <2>4, <2>5, <2>6
<1>. QED  BY <1>1, Inductive, PTL

-----------------------------------------------------------------------------
(***************************************************************************)
(* No id and no message is used twice, and the server's record of a QoS 2  *)
(* message outlives the packet in the wait list.                           *)
(***************************************************************************)

\* A request that is on its way to the wait list
Requesting == app.pc \in {"checked", "composed", "sending"} /\ app.call \in Requests
Numbered   == app.pc \in {"composed", "sending"} /\ app.call \in Requests

\* Messages and ids that are in use, or have been, are below these.
NextBody == IF Requesting THEN count.requests ELSE count.requests + 1
NextId   == IF Numbered /\ app.call.qos > 0 THEN app.msg.id ELSE assign_new_msg_id(ctx)

\* Requests that have been given an id
Assigned == IF app.pc = "checked" /\ app.call \in Requests THEN count.requests - 1 ELSE count.requests

\* What waits for an acknowledgement
Waiting == {ctx.mqp[p] : p \in Items(ctx.qos_ack1_wl)}

\* What is under way to the server
Up == IF link = "none" THEN {} ELSE Items(ctx.tx)

\* Messages to be given exactly once, and at most once
IsQos2(m) == m.type = "PUBLISH" /\ m.qos = 2
IsQos0(m) == m.type = "PUBLISH" /\ m.qos = 0

\* The server's subscribers have got the message.
Given(m) == published[m.body].n > 0

\* Bodies are the numbers of requests; ids are assigned in ascending order.
Counted ==
  /\ published \in [1..MaxMessages -> [n : Nat, qos : Nat]]
  /\ count.requests \in 0..MaxMessages
  /\ Requesting => count.requests > 0
  /\ assign_new_msg_id(ctx) \in 1..(2 * Assigned + 1)
  /\ Numbered => app.msg.body = count.requests
  /\ Numbered /\ app.call.qos > 0 => app.msg.id = ctx.msg_id /\ app.msg.id > 0 /\ app.msg.id < assign_new_msg_id(ctx)

\* Ids and messages that are in use are distinct from each other and from the
\* next ones.
Fresh ==
  /\ \A m \in Waiting : m.id > 0 /\ m.id < NextId /\ m.body > 0 /\ m.body < NextBody
  /\ \A p, q \in Items(ctx.qos_ack1_wl) : p # q =>
       ctx.mqp[p].id # ctx.mqp[q].id /\ ctx.mqp[p].body # ctx.mqp[q].body
  /\ \A m \in Up : IsQos0(m) => m.body > 0 /\ m.body < NextBody /\ \A w \in Waiting : w.body # m.body
  /\ \A id \in server.rcvd : id < NextId
  /\ \A b \in DOMAIN published : published[b].n > 0 => b < NextBody

\* The ids of the PUBRELs that are under way, or may be sent
PubrelIds == {ctx.qos2_tx_cq.id_vec[i] : i \in 0..LastIdx}
               \cup {m.id : m \in {u \in Up : u.type = "PUBREL"}}

\* A PUBREL never has the id of a packet that waits, nor one still to be assigned.
Retired == \A id \in PubrelIds : id < NextId /\ \A m \in Waiting : m.id # id

\* A CONNECT is the first packet on its connection.
ConnectFirst ==
  /\ link # "none" /\ "NOW_CONNECTED" \notin ctx.flags =>
       \/ ctx.tx = <<>>
       \/ link = "open" /\ Len(ctx.tx) = 1 /\ ctx.tx[1].type = "CONNECT"
  /\ link # "none" /\ app.pc = "sending" /\ app.call = ConnectCall => link = "open" /\ ctx.tx = <<>>
  /\ "NOW_CONNECTED" \in ctx.flags => \A m \in Up : m.type # "CONNECT"
  /\ server.clean => "CLEAN_SESSION" \in ctx.flags
  /\ app.pc \in {"composed", "sending"} /\ app.call = ConnectCall /\ app.msg.id = 1 => app.clean
  /\ \A m \in Up : m.type = "CONNECT" /\ m.id = 1 => "CLEAN_SESSION" \in ctx.flags

\* The session of the server is the one of the client.
SameSession == "CLEAN_SESSION" \notin ctx.flags \/ "NOW_CONNECTED" \in ctx.flags

\* While client and server have the same session, the server remembers the id of a
\* QoS 2 message it has given until the packet left the wait list; what an
\* acknowledgement under way is for has been given.
Recorded ==
  /\ SameSession => \A m \in Waiting : IsQos2(m) /\ Given(m) => m.id \in server.rcvd
  /\ \A m \in Waiting : IsQos2(m) /\ m.id \in server.rcvd => Given(m)
  /\ \A a \in Items(down), m \in Waiting :
       a.type \in {"PUBACK", "PUBREC"} /\ a.id = m.id /\ m.type = "PUBLISH" => Given(m)

\* What the library accepted is with the server or waits.
OwedOK ==
  \A b \in owed : b \in 1..MaxMessages /\ (published[b].n > 0 \/ \E m \in Waiting : m.type = "PUBLISH" /\ m.body = b)

\* The invariant
Once == Counted /\ Fresh /\ Retired /\ ConnectFirst /\ Recorded /\ OwedOK /\ ServerGetsOnce

-----------------------------------------------------------------------------
\* The bounds below which ids and messages are in use are numbers.
LEMMA NextNat ==
  ASSUME TypeOK, Counted
  PROVE  /\ NextId \in Nat \ {0} /\ NextBody \in Nat \ {0} /\ Assigned \in Int
         /\ NextBody <= MaxMessages + 1 /\ NextId <= assign_new_msg_id(ctx)
         /\ assign_new_msg_id(ctx) \in Nat \ {0}
<1>1. count.requests \in Nat /\ app.msg.id \in Nat
  BY DEF TypeOK, AppType, AnyMsg
<1>2. MaxMessages \in Nat
  BY SlMqttAssumption
<1>3. Assigned \in Int /\ count.requests <= MaxMessages
  BY <1>1, <1>2 DEF Counted, Assigned
<1>4. assign_new_msg_id(ctx) \in Nat \ {0}
  BY <1>3 DEF Counted
<1>5. Requesting => count.requests > 0
  BY DEF Counted
<1>6. NextBody \in Nat \ {0} /\ NextBody <= MaxMessages + 1
  BY <1>1, <1>2, <1>3, <1>5 DEF NextBody
<1>7. Numbered /\ app.call.qos > 0 => app.msg.id > 0 /\ app.msg.id < assign_new_msg_id(ctx)
  BY DEF Counted
<1>8. NextId \in Nat \ {0} /\ NextId <= assign_new_msg_id(ctx)
  BY <1>1, <1>4, <1>7 DEF NextId
<1>. QED  BY <1>3, <1>4, <1>6, <1>8

\* The same after a step
LEMMA NextNatAgain ==
  (TypeOK /\ Counted =>
     /\ NextId \in Nat \ {0} /\ NextBody \in Nat \ {0} /\ NextBody <= MaxMessages + 1
     /\ assign_new_msg_id(ctx) \in Nat \ {0})'
<1>1. TypeOK /\ Counted =>
        /\ NextId \in Nat \ {0} /\ NextBody \in Nat \ {0} /\ NextBody <= MaxMessages + 1
        /\ assign_new_msg_id(ctx) \in Nat \ {0}
  BY NextNat
<1>. QED  BY <1>1, PTL

\* What waits and what is under way are messages.
LEMMA WaitingTyped ==
  ASSUME TypeOK
  PROVE  /\ Waiting \subseteq AnyMsg /\ Up \subseteq AnyMsg /\ Items(down) \subseteq AnyMsg
         /\ server.rcvd \subseteq Nat
         /\ \A i \in 0..LastIdx : ctx.qos2_tx_cq.id_vec[i] \in Nat
         /\ \A p \in Items(ctx.qos_ack1_wl) : p \in Packets
<1>1. ctx.qos_ack1_wl \in Seq(Packets) /\ ctx.tx \in Seq(AnyMsg) /\ down \in Seq(AnyMsg)
      /\ ctx.mqp \in [Packets -> AnyMsg] /\ ctx.qos2_tx_cq \in CqType
  BY DEF TypeOK, IsCtx
<1>2. Items(ctx.qos_ack1_wl) \subseteq Packets /\ Items(ctx.tx) \subseteq AnyMsg /\ Items(down) \subseteq AnyMsg
  BY <1>1 DEF Items
<1>3. server.rcvd \subseteq Nat
  BY DEF TypeOK
<1>. QED  BY <1>1, <1>2, <1>3 DEF Waiting, Up, CqType

\* A step that gives the server no message, enlists none and reuses no id keeps
\* the book-keeping.
LEMMA Quiet ==
  ASSUME IInv, IInv', Once, Counted', ConnectFirst', OwedOK', Retired', published' = published,
         NextBody <= NextBody', NextId <= NextId', server'.rcvd \subseteq server.rcvd,
         Items(ctx'.qos_ack1_wl) \subseteq Items(ctx.qos_ack1_wl), Kept(ctx, ctx', {}),
         \A m \in Up' : IsQos0(m) =>
           m \in Up \/ (m.body > 0 /\ m.body < NextBody' /\ \A w \in Waiting' : w.body # m.body),
         SameSession' =>
           \/ Items(ctx'.qos_ack1_wl) = {}
           \/ SameSession /\ \A m \in Waiting' : m.id \in server.rcvd => m.id \in server'.rcvd,
         \A a \in Items(down') : a.type \in {"PUBACK", "PUBREC"} => a \in Items(down)
  PROVE  Once'
<1>1. TypeOK /\ TypeOK'
  BY DEF IInv
<1>2. /\ NextId \in Nat /\ NextBody \in Nat
  BY <1>1, NextNat DEF Once
<1>3. NextId' \in Nat /\ NextBody' \in Nat
  BY <1>1, NextNatAgain DEF Once
<1>4. /\ Waiting \subseteq AnyMsg /\ Up \subseteq AnyMsg /\ server.rcvd \subseteq Nat
  BY <1>1, WaitingTyped
<1>5. \A p \in Items(ctx'.qos_ack1_wl) : p \in Items(ctx.qos_ack1_wl) /\ ctx'.mqp[p] = ctx.mqp[p]
  BY DEF Kept
<1>6. Waiting' \subseteq Waiting
  BY <1>5 DEF Waiting
<1>7. published \in [1..MaxMessages -> [n : Nat, qos : Nat]] /\ DOMAIN published \subseteq Nat
  BY DEF Once, Counted
<1>8. \A m : Given(m)' <=> Given(m)
  BY DEF Given
<1>9. Fresh'
  <2>1. \A m \in Waiting' : m.id > 0 /\ m.id < NextId' /\ m.body > 0 /\ m.body < NextBody'
    <3> SUFFICES ASSUME NEW m \in Waiting' PROVE m.id > 0 /\ m.id < NextId' /\ m.body > 0 /\ m.body < NextBody'
      OBVIOUS
    <3>1. m.id \in Nat /\ m.body \in Nat /\ m \in Waiting
      BY <1>4, <1>6 DEF AnyMsg
    <3>2. m.id > 0 /\ m.id < NextId /\ m.body > 0 /\ m.body < NextBody
      BY <3>1 DEF Once, Fresh
    <3>. QED  BY <1>2, <1>3, <3>1, <3>2
  <2>2. \A p, q \in Items(ctx'.qos_ack1_wl) : p # q =>
          ctx'.mqp[p].id # ctx'.mqp[q].id /\ ctx'.mqp[p].body # ctx'.mqp[q].body
    BY <1>5 DEF Once, Fresh
  <2>3. \A m \in Up' : IsQos0(m) => m.body > 0 /\ m.body < NextBody' /\ \A w \in Waiting' : w.body # m.body
    <3> SUFFICES ASSUME NEW m \in Up', IsQos0(m)
                 PROVE  m.body > 0 /\ m.body < NextBody' /\ \A w \in Waiting' : w.body # m.body
      OBVIOUS
    <3>1. CASE m \in Up
      <4>1. m.body \in Nat /\ m.body > 0 /\ m.body < NextBody /\ \A w \in Waiting : w.body # m.body
        BY <1>4, <3>1 DEF AnyMsg, Once, Fresh
      <4>. QED  BY <1>2, <1>3, <1>6, <4>1
    <3>. QED  BY <3>1
  <2>4. \A id \in server'.rcvd : id < NextId'
    <3>1. \A id \in server.rcvd : id < NextId /\ id \in Nat
      BY <1>4 DEF Once, Fresh
    <3>. QED  BY <1>2, <1>3, <3>1
  <2>5. \A b \in DOMAIN published : published[b].n > 0 => b < NextBody'
    <3>1. \A b \in DOMAIN published : published[b].n > 0 => b < NextBody
      BY DEF Once, Fresh
    <3>. QED  BY <1>2, <1>3, <1>7, <3>1
  <2>. QED  BY <2>1, <2>2, <2>3, <2>4, <2>5 DEF Fresh
<1>10. Recorded'
  <2>1. \A m \in Waiting' : IsQos2(m) /\ m.id \in server'.rcvd => Given(m)
    BY <1>6 DEF Once, Recorded
  <2>2. SameSession' => \A m \in Waiting' : IsQos2(m) /\ Given(m) => m.id \in server'.rcvd
    BY <1>6 DEF Once, Recorded, Waiting
  <2>3. \A a \in Items(down'), m \in Waiting' :
          a.type \in {"PUBACK", "PUBREC"} /\ a.id = m.id /\ m.type = "PUBLISH" => Given(m)
    BY <1>6 DEF Once, Recorded
  <2>. QED  BY <1>8, <2>1, <2>2, <2>3 DEF Recorded, IsQos2
<1>11. ServerGetsOnce'
  BY DEF Once, ServerGetsOnce
<1>. QED  BY <1>9, <1>10, <1>11 DEF Once

\* A step that sends no PUBREL, notes no id and takes nothing out of the list
LEMMA Calm ==
  ASSUME IInv, IInv', Once, Counted', ConnectFirst', published' = published, owed' = owed,
         NextBody <= NextBody', NextId <= NextId', server'.rcvd = server.rcvd,
         ctx'.qos2_tx_cq = ctx.qos2_tx_cq,
         Items(ctx'.qos_ack1_wl) = Items(ctx.qos_ack1_wl), Kept(ctx, ctx', {}),
         \A m \in Up' : m \in Up \/ (~IsQos0(m) /\ m.type # "PUBREL"),
         SameSession' => SameSession,
         \A a \in Items(down') : a.type \in {"PUBACK", "PUBREC"} => a \in Items(down)
  PROVE  Once'
<1>1. TypeOK /\ TypeOK' /\ Counted
  BY DEF IInv, Once
<1>2. NextId \in Nat /\ NextId' \in Nat
  BY <1>1, NextNat, NextNatAgain
<1>3. Waiting' = Waiting
  BY DEF Waiting, Kept
<1>4. Retired'
  <2>1. PubrelIds' \subseteq PubrelIds
    BY DEF PubrelIds
  <2>2. \A id \in PubrelIds : id \in Nat /\ id < NextId /\ \A m \in Waiting : m.id # id
    <3>1. \A id \in PubrelIds : id \in Nat
      BY <1>1, WaitingTyped DEF PubrelIds, AnyMsg
    <3>. QED  BY <3>1 DEF Once, Retired
  <2>3. \A id \in PubrelIds' : id < NextId' /\ \A m \in Waiting' : m.id # id
    BY <1>2, <1>3, <2>1, <2>2
  <2>. QED  BY <2>3 DEF Retired
<1>5. OwedOK'
  <2>1. \A b \in owed : b \in 1..MaxMessages /\ (published[b].n > 0 \/ \E m \in Waiting : m.type = "PUBLISH" /\ m.body = b)
    BY DEF Once, OwedOK
  <2>. QED  BY <1>3, <2>1 DEF OwedOK
<1>6. SameSession' => SameSession /\ \A m \in Waiting' : m.id \in server.rcvd => m.id \in server'.rcvd
  OBVIOUS
<1>7. \A m \in Up' : IsQos0(m) => m \in Up
  BY DEF IsQos0
<1>. QED  BY <1>4, <1>5, <1>6, <1>7, Quiet

\* A step of the application's task before its packet is sent, or after
LEMMA CallStep ==
  ASSUME IInv, IInv', Once, Counted', NextBody <= NextBody', NextId <= NextId',
         UNCHANGED <<ctx, link, down, server, published, owed>>,
         app'.pc \in {"sending"} /\ app'.call = ConnectCall => app.pc = "sending" /\ app.call = ConnectCall,
         app'.pc \in {"composed", "sending"} /\ app'.call = ConnectCall =>
           app.pc \in {"composed", "sending"} /\ app.call = ConnectCall /\ app'.msg = app.msg /\ app'.clean = app.clean
  PROVE  Once'
<1>1. Up' = Up /\ SameSession' = SameSession
  BY DEF Up, SameSession
<1>2. ConnectFirst'
  BY <1>1 DEF Once, ConnectFirst
<1>3. Kept(ctx, ctx', {})
  BY DEF Kept
<1>. QED  BY <1>1, <1>2, <1>3, Calm

\* Connect and Disconnect are no requests; what a request is.
LEMMA RequestCalls ==
  /\ ConnectCall \notin Requests /\ DisconnCall \notin Requests /\ ConnectCall # DisconnCall
  /\ ConnectCall.qos = 0 /\ ConnectCall.type = "CONNECT" /\ DisconnCall.type = "DISCONNECT"
  /\ \A call \in Requests :
       /\ call.type \in {"PUBLISH", "SUBSCRIBE", "UNSUBSCRIBE"} /\ call.qos \in 0..2
       /\ call.qos = 0 <=> call = Publish(0)
       /\ call.type # "PUBLISH" => call.qos = 1
<1>1. \A call \in Requests : call \in {Publish(0), Publish(1), Publish(2), Subscribe, Unsubscribe}
  BY SlMqttAssumption
<1>. QED  BY <1>1 DEF Publish, Subscribe, Unsubscribe, ConnectCall, DisconnCall

\* A call starts, or ends.
LEMMA StartCallOnce ==
  ASSUME IInv, IInv', Once, NEW call \in Requests \cup {DisconnCall}, StartCall(call)
  PROVE  Once'
<1>1. /\ app' = [pc |-> "checked", call |-> call, mqp |-> NULL, msg |-> NoMsg, clean |-> FALSE]
      /\ app'.pc = "checked" /\ app'.call = call /\ app.pc = "idle" /\ call # ConnectCall
      /\ UNCHANGED <<ctx, link, down, server, published, owed>>
  BY RequestCalls DEF StartCall, Idle, serverVars
<1>2. ~Requesting /\ ~Numbered /\ ~Numbered'
  BY <1>1 DEF Requesting, Numbered
<1>3. /\ count.requests \in Nat /\ count.msgs \in Nat /\ count.pings \in Nat /\ MaxMessages \in Nat
      /\ TypeOK /\ Counted /\ count.requests \in 0..MaxMessages
  BY SlMqttAssumption DEF IInv, TypeOK, Once, Counted
<1>4. assign_new_msg_id(ctx)' = assign_new_msg_id(ctx)
  BY <1>1 DEF assign_new_msg_id
<1>5. assign_new_msg_id(ctx) \in 1..(2 * count.requests + 1)
  BY <1>1, <1>3 DEF Counted, Assigned
<1>6. CASE call \in Requests
  <2>1. count.requests + count.msgs + count.pings < MaxMessages /\ count'.requests = count.requests + 1
    BY <1>3, <1>6 DEF StartCall, MoreMessages, TypeOK
  <2>2. Requesting' /\ Assigned' = count.requests /\ NextBody' = NextBody /\ NextId' = NextId
    BY <1>1, <1>2, <1>3, <1>4, <1>6, <2>1 DEF Requesting, Assigned, NextBody, NextId
  <2>3. Counted'
    <3>1. count'.requests \in 0..MaxMessages /\ count'.requests > 0
      BY <1>3, <2>1
    <3>2. assign_new_msg_id(ctx)' \in 1..(2 * Assigned' + 1)
      BY <1>4, <1>5, <2>2
    <3>3. published' \in [1..MaxMessages -> [n : Nat, qos : Nat]]
      BY <1>1, <1>3 DEF Counted
    <3>. QED  BY <1>2, <3>1, <3>2, <3>3 DEF Counted
  <2>4. NextBody <= NextBody' /\ NextId <= NextId'
    BY <1>3, <2>2, NextNat
  <2>. QED  BY <1>1, <2>3, <2>4, CallStep
<1>7. CASE call \notin Requests
  <2>1. count' = count /\ ~Requesting'
    BY <1>1, <1>7 DEF StartCall, Requesting
  <2>2. Assigned' = count.requests /\ NextBody' = NextBody /\ NextId' = NextId
    BY <1>1, <1>2, <1>4, <1>7, <2>1 DEF Assigned, NextBody, NextId
  <2>3. Counted'
    BY <1>1, <1>2, <1>3, <1>4, <1>5, <2>1, <2>2 DEF Counted
  <2>4. NextBody <= NextBody' /\ NextId <= NextId'
    BY <1>3, <2>2, NextNat
  <2>. QED  BY <1>1, <2>3, <2>4, CallStep
<1>. QED  BY <1>6, <1>7

\* The call is, and stays, none that is on its way to the wait list.
LEMMA NotRequesting ==
  ASSUME TypeOK, Counted, ~Requesting, ~Requesting', count'.requests = count.requests, published' = published,
         assign_new_msg_id(ctx)' = assign_new_msg_id(ctx)
  PROVE  Counted' /\ NextBody <= NextBody' /\ NextId <= NextId'
<1>1. ~Numbered /\ ~Numbered' /\ Assigned' = Assigned
  BY DEF Requesting, Numbered, Assigned
<1>2. NextBody' = NextBody /\ NextId' = NextId /\ NextBody \in Nat /\ NextId \in Nat
  BY <1>1, NextNat DEF NextBody, NextId
<1>3. Counted'
  BY <1>1 DEF Counted
<1>. QED  BY <1>2, <1>3

\* A call of Connect starts.
LEMMA StartConnectOnce ==
  ASSUME IInv, IInv', Once, NEW clean \in CleanChoices, StartConnect(clean)
  PROVE  Once'
<1>1. /\ app'.pc = "checked" /\ app'.call = ConnectCall /\ app.pc = "idle"
      /\ UNCHANGED <<ctx, link, down, server, published, owed>>
  BY DEF StartConnect, Idle, serverVars
<1>2. ~Requesting /\ ~Requesting'
  BY <1>1, RequestCalls DEF Requesting
<1>3. count'.requests = count.requests
  BY DEF StartConnect, IInv, TypeOK
<1>4. assign_new_msg_id(ctx)' = assign_new_msg_id(ctx)
  BY <1>1 DEF assign_new_msg_id
<1>. QED  BY <1>1, <1>2, <1>3, <1>4, NotRequesting, CallStep DEF IInv, Once

\* A call that waited gets its signal, or a call ends.
LEMMA CallEndsOnce ==
  ASSUME IInv, IInv', Once, AckSignalWait \/ Return
  PROVE  Once'
<1>1. /\ app'.pc \in {"exit", "failed", "idle"} /\ app.pc \in {"wait", "exit", "failed"}
      /\ UNCHANGED <<ctx, link, down, server, published, owed, count>>
  <2>1. TypeOK
    BY DEF IInv
  <2>2. CASE AckSignalWait
    <3>1. \A pc \in {"failed", "exit"} : After(pc).pc = pc
      BY <2>1, AfterType
    <3>. QED  BY <2>2, <3>1 DEF AckSignalWait, serverVars, history
  <2>3. CASE Return
    BY <2>3 DEF Return, Idle, serverVars, history
  <2>. QED  BY <2>2, <2>3
<1>2. ~Requesting /\ ~Requesting'
  BY <1>1 DEF Requesting
<1>3. assign_new_msg_id(ctx)' = assign_new_msg_id(ctx)
  BY <1>1 DEF assign_new_msg_id
<1>. QED  BY <1>1, <1>2, <1>3, NotRequesting, CallStep DEF IInv, Once

\* Steps that change nothing of this
LEMMA SameOnce ==
  ASSUME Once, UNCHANGED <<ctx, app, link, down, server, count, published, owed>>
  PROVE  Once'
<1>1. Requesting' = Requesting /\ Numbered' = Numbered /\ Up' = Up /\ Waiting' = Waiting
  BY DEF Requesting, Numbered, Up, Waiting
<1>2. assign_new_msg_id(ctx)' = assign_new_msg_id(ctx)
  BY DEF assign_new_msg_id
<1>3. NextBody' = NextBody /\ NextId' = NextId /\ Assigned' = Assigned /\ PubrelIds' = PubrelIds
  BY <1>1, <1>2 DEF NextBody, NextId, Assigned, PubrelIds
<1>4. Counted'
  BY <1>1, <1>2, <1>3 DEF Once, Counted
<1>5. Fresh' /\ Retired'
  BY <1>1, <1>3 DEF Once, Fresh, Retired
<1>6. ConnectFirst'
  BY <1>1 DEF Once, ConnectFirst
<1>7. Recorded' /\ OwedOK' /\ ServerGetsOnce'
  BY <1>1 DEF Once, Recorded, OwedOK, ServerGetsOnce, SameSession, Given
<1>. QED  BY <1>4, <1>5, <1>6, <1>7 DEF Once

\* The receive task finds nothing to do.
LEMMA RxMovesOnce ==
  ASSUME Once, RxSignalWait \/ RxNotConn \/ RxClosed \/ RxOnTime
  PROVE  Once'
BY SameOnce DEF RxSignalWait, RxNotConn, RxClosed, RxOnTime, serverVars, history

\* The bound under which no id of the client, an odd u16, comes twice
FewMessages == 2 * MaxMessages + 1 < 65536

\* A number below the modulus is its own remainder.
LEMMA SmallMod ==
  ASSUME NEW b \in Nat \ {0}, NEW k \in Nat, k < b
  PROVE  k % b = k
OBVIOUS

\* Ids do not wrap around.
LEMMA NextIdPlain ==
  ASSUME FewMessages, NEW n \in Nat, n + 2 <= 2 * MaxMessages + 1
  PROVE  (n + 2) % 65536 = n + 2
<1>1. MaxMessages \in Nat
  BY SlMqttAssumption
<1> DEFINE b == 65536
<1>2. b \in Nat \ {0}
  OBVIOUS
<1>3. 2 * MaxMessages + 1 < b
  BY DEF FewMessages
<1> HIDE DEF b
<1>4. n + 2 < b
  BY <1>1, <1>2, <1>3
<1>5. (n + 2) % b = n + 2
  BY <1>2, <1>4, SmallMod
<1>. QED  BY <1>5 DEF b

\* A request that ends before its packet gets to the wait list, or when it did.
LEMMA RequestEnds ==
  ASSUME TypeOK, Counted, Requesting, ~Requesting', count' = count, published' = published,
         assign_new_msg_id(ctx)' = assign_new_msg_id(ctx)
  PROVE  Counted' /\ NextBody <= NextBody' /\ NextId <= NextId'
<1>1. /\ count.requests \in Nat /\ ~Numbered' /\ count.requests \in 0..MaxMessages
      /\ assign_new_msg_id(ctx) \in 1..(2 * Assigned + 1) /\ Assigned <= count.requests /\ Assigned \in Int
  BY SMTT(30) DEF TypeOK, Requesting, Numbered, Counted, Assigned
<1>2. NextBody' = count.requests + 1 /\ NextBody = count.requests /\ NextId' = assign_new_msg_id(ctx)
  BY <1>1 DEF NextBody, NextId
<1>3. Assigned' = count.requests
  BY DEF Assigned, Requesting
<1>4. Counted'
  BY <1>1, <1>3 DEF Counted
<1>. QED  BY <1>1, <1>2, <1>4, NextNat

\* What a step that does not touch the connection leaves as it is
SameConnection ==
  /\ ctx'.flags = ctx.flags /\ ctx'.tx = ctx.tx /\ ctx'.qos2_tx_cq = ctx.qos2_tx_cq
  /\ Items(ctx'.qos_ack1_wl) = Items(ctx.qos_ack1_wl) /\ Kept(ctx, ctx', {})
  /\ UNCHANGED <<link, down, server, published, owed>>

\* A step of the application's task that leaves connection and wait list alone
LEMMA SameConnectionOnce ==
  ASSUME IInv, IInv', Once, Counted', NextBody <= NextBody', NextId <= NextId', SameConnection,
         app'.pc = "sending" /\ app'.call = ConnectCall => app.pc = "sending" /\ app.call = ConnectCall,
         app'.pc \in {"composed", "sending"} /\ app'.call = ConnectCall /\ app'.msg.id = 1 => app'.clean
  PROVE  Once'
<1>1. Up' = Up /\ SameSession' = SameSession
  BY DEF Up, SameSession, SameConnection
<1>2. ConnectFirst'
  BY <1>1 DEF Once, ConnectFirst, SameConnection
<1>. QED  BY <1>1, <1>2, Calm DEF SameConnection

\* The id after the one a request got is below its bound.
LEMMA IdBound ==
  ASSUME NEW r \in Nat, NEW k \in 1..(2 * (r - 1) + 1), NEW m \in Nat, r \in 0..m
  PROVE  k \in Nat \ {0} /\ k + 2 <= 2 * r + 1 /\ k + 2 <= 2 * m + 1
OBVIOUS

\* A request, a CONNECT or a DISCONNECT gets its packet and its id.
LEMMA ComposeOnce ==
  ASSUME FewMessages, IInv, IInv', Once, Compose
  PROVE  Once'
<1>0. /\ TypeOK /\ PoolInv /\ Counted /\ app.pc = "checked" /\ app \in AppType
      /\ count.requests \in Nat /\ DOMAIN ctx = CtxFields
  BY DEF IInv, Compose, TypeOK, Once, IsCtx
<1> DEFINE call == app.call
           id   == CASE call = ConnectCall -> IF app.clean THEN 1 ELSE 0
                     [] call = Publish(0)  -> 0
                     [] OTHER              -> assign_new_msg_id(ctx)
           msg  == Msg(call.type, id, call.qos, count.requests)
           p    == Head(ctx.free_list)
           new  == mqp_client_alloc(ctx, msg)
<1>1. UNCHANGED <<link, down, server, count, published, owed>>
  BY DEF Compose, serverVars, history
<1>2. call \in Calls /\ call.type \in PacketTypes /\ call.qos \in 0..2
  <2>1. call \in Calls
    BY <1>0 DEF AppType
  <2>. QED  BY <2>1, SlMqttAssumption DEF Calls, PacketTypes, ConnectCall, DisconnCall, Publish, Subscribe, Unsubscribe
<1>3. msg \in AnyMsg /\ msg.id = id /\ msg.body = count.requests
  <2>1. assign_new_msg_id(ctx) \in Nat
    BY <1>0, NextNat
  <2>2. id \in Nat
    BY <2>1
  <2> HIDE DEF id
  <2>. QED  BY <1>0, <1>2, <2>2 DEF AnyMsg, Msg
<1>4. ~Numbered /\ (call \in Requests <=> Requesting)
  BY <1>0 DEF Numbered, Requesting
<1>5. Ok(ctx, CallPacket) /\ CallPacket = {}
  BY <1>0, CtxOk DEF CallPacket
<1>6. call = ConnectCall => (id = 1 => app.clean)
  OBVIOUS
<1>7. call \in Requests => id = IF call.qos = 0 THEN 0 ELSE assign_new_msg_id(ctx)
  BY RequestCalls
<1> HIDE DEF id, msg
<1>8. CASE call.type # "DISCONNECT" /\ ctx.free_list = <<>>
  <2>1. app' = After("failed") /\ ctx' = ctx
    BY <1>8 DEF Compose
  <2>2. app'.pc = "failed"
    BY <1>0, <2>1, AfterType
  <2>3. assign_new_msg_id(ctx)' = assign_new_msg_id(ctx) /\ ~Requesting'
    BY <2>1, <2>2 DEF assign_new_msg_id, Requesting
  <2>4. Counted' /\ NextBody <= NextBody' /\ NextId <= NextId'
    BY <1>0, <1>1, <2>3, RequestEnds, NotRequesting
  <2>. QED  BY <1>1, <2>1, <2>2, <2>4, CallStep
<1>9. CASE call.type = "DISCONNECT"
  <2>1. app' = [app EXCEPT !.pc = "composed", !.msg = msg, !.mqp = NULL] /\ ctx' = ctx
    BY <1>9 DEF Compose, id, msg
  <2>2. app'.pc = "composed" /\ app'.call = call
    BY <1>0, <2>1 DEF AppType
  <2>3. call \notin Requests /\ call # ConnectCall
    BY <1>9, RequestCalls
  <2>4. assign_new_msg_id(ctx)' = assign_new_msg_id(ctx) /\ ~Requesting' /\ ~Requesting
    BY <2>1, <2>2, <2>3 DEF assign_new_msg_id, Requesting
  <2>5. Counted' /\ NextBody <= NextBody' /\ NextId <= NextId'
    BY <1>0, <1>1, <2>4, NotRequesting
  <2>. QED  BY <1>1, <2>1, <2>2, <2>3, <2>5, CallStep
<1>10. CASE call.type # "DISCONNECT" /\ ctx.free_list # <<>>
  <2>1. /\ app' = [app EXCEPT !.pc = "composed", !.msg = msg, !.mqp = p]
        /\ ctx' = [new EXCEPT !.msg_id = IF call.qos = 0 THEN @ ELSE id]
    BY <1>10 DEF Compose, id, msg
  <2>2. /\ p \in Packets /\ p \notin Items(ctx.qos_ack1_wl) \cup CallPacket \cup {ctx.tx_mqp, ctx.rx_mqp}
        /\ IsCtx(new) /\ SameBut(ctx, new, {"n_refs", "free_list", "mqp"})
        /\ new.n_refs = [ctx.n_refs EXCEPT ![p] = 1] /\ new.free_list = Tail(ctx.free_list)
        /\ \A q \in Packets : new.mqp[q] = IF q = p THEN msg ELSE ctx.mqp[q]
    <3>1. msg \in AnyMsg
      BY <1>3
    <3>. QED  BY ONLY <1>5, <1>10, <3>1, AllocCtx
  <2> HIDE DEF new, p
  <2>3. app'.pc = "composed" /\ app'.msg = msg /\ app'.call = call /\ app'.clean = app.clean
    BY <1>0, <2>1 DEF AppType
  <2>4. /\ ctx'.msg_id = (IF call.qos = 0 THEN ctx.msg_id ELSE id) /\ ctx'.flags = ctx.flags /\ ctx'.tx = ctx.tx
        /\ ctx'.qos_ack1_wl = ctx.qos_ack1_wl /\ ctx'.qos2_tx_cq = ctx.qos2_tx_cq /\ ctx'.mqp = new.mqp
    BY <2>1, <2>2 DEF SameBut, CtxFields
  <2>5. SameConnection
    <3>1. \A q \in Items(ctx.qos_ack1_wl) : ctx'.mqp[q] = ctx.mqp[q]
      BY <1>0, <2>2, <2>4, WaitingTyped
    <3>. QED  BY <1>1, <2>4, <3>1 DEF SameConnection, Kept
  <2>6. Counted' /\ NextBody <= NextBody' /\ NextId <= NextId'
    <3>1. CASE call \notin Requests
      <4>1. call.qos = 0
        BY <1>2, <3>1, RequestCalls DEF Calls, DisconnCall
      <4>2. assign_new_msg_id(ctx)' = assign_new_msg_id(ctx)
        BY <2>4, <4>1 DEF assign_new_msg_id
      <4>3. ~Requesting /\ ~Requesting'
        BY <2>3, <3>1 DEF Requesting
      <4>. QED  BY <1>0, <1>1, <4>2, <4>3, NotRequesting
    <3>2. CASE call \in Requests
      <4>1. Requesting /\ Requesting' /\ Numbered' /\ Assigned' = count.requests /\ Assigned = count.requests - 1
        BY <1>0, <1>1, <2>3, <3>2 DEF Requesting, Numbered, Assigned
      <4>2. NextBody' = NextBody /\ NextId = assign_new_msg_id(ctx) /\ NextBody \in Nat /\ NextId \in Nat \ {0}
        BY <1>0, <1>1, <1>4, <4>1, NextNat DEF NextBody, NextId
      <4>3. /\ assign_new_msg_id(ctx) \in 1..(2 * (count.requests - 1) + 1)
            /\ count.requests \in 0..MaxMessages /\ count.requests > 0
            /\ published \in [1..MaxMessages -> [n : Nat, qos : Nat]]
        BY <1>0, <4>1 DEF Counted
      <4>4. CASE call.qos = 0
        <5>1. assign_new_msg_id(ctx)' = assign_new_msg_id(ctx)
          BY <2>4, <4>4 DEF assign_new_msg_id
        <5>2. NextId' = NextId
          BY <2>3, <4>2, <4>4, <5>1 DEF NextId
        <5>3. assign_new_msg_id(ctx)' \in 1..(2 * Assigned' + 1)
          BY <1>0, <4>1, <4>3, <5>1
        <5>4. Counted'
          BY <1>1, <1>3, <2>3, <4>1, <4>3, <4>4, <5>3 DEF Counted
        <5>. QED  BY <4>2, <5>2, <5>4
      <4>5. CASE call.qos # 0
        <5>1. /\ id = assign_new_msg_id(ctx) /\ id \in Nat \ {0} /\ ctx'.msg_id = id
              /\ id + 2 <= 2 * count.requests + 1 /\ id + 2 <= 2 * MaxMessages + 1
          <6>1. id = assign_new_msg_id(ctx) /\ ctx'.msg_id = id
            BY <1>7, <2>4, <3>2, <4>5
          <6>2. id \in 1..(2 * (count.requests - 1) + 1) /\ MaxMessages \in Nat
            BY <4>3, <6>1, SlMqttAssumption
          <6>. QED  BY ONLY <1>0, <4>3, <6>1, <6>2, IdBound
        <5>2. assign_new_msg_id(ctx)' = id + 2
          <6>1. (id + 2) % 65536 = id + 2
            BY <5>1, NextIdPlain
          <6>. QED  BY <5>1, <6>1 DEF assign_new_msg_id
        <5>3. NextId' = id /\ call.qos > 0
          BY <1>2, <1>3, <2>3, <4>1, <4>5 DEF NextId
        <5>4. assign_new_msg_id(ctx)' \in 1..(2 * Assigned' + 1)
          BY <1>0, <4>1, <5>1, <5>2
        <5>5. app'.msg.id = ctx'.msg_id /\ app'.msg.id > 0 /\ app'.msg.id < assign_new_msg_id(ctx)'
          BY <1>3, <2>3, <5>1, <5>2
        <5>6. Counted'
          BY <1>1, <1>3, <2>3, <4>1, <4>3, <5>4, <5>5 DEF Counted
        <5>. QED  BY <4>2, <5>1, <5>3, <5>6
      <4>. QED  BY <4>4, <4>5
    <3>. QED  BY <3>1, <3>2
  <2>7. app'.call = ConnectCall /\ app'.msg.id = 1 => app'.clean
    BY <1>3, <1>6, <2>3
  <2>. QED  BY <2>3, <2>5, <2>6, <2>7, SameConnectionOnce
<1>. QED  BY <1>8, <1>9, <1>10

\* A connection is opened, or not.
LEMMA NetConnectOnce ==
  ASSUME IInv, IInv', Once, NetConnect
  PROVE  Once'
<1>0. /\ TypeOK /\ Counted /\ app.pc = "composed" /\ app \in AppType /\ app.call = ConnectCall
      /\ DOMAIN ctx = CtxFields /\ ~ctx.net /\ "NOW_CONNECTED" \notin ctx.flags
  BY DEF IInv, NetConnect, TypeOK, IsCtx, Once, CallOK, Handshake
<1>1. UNCHANGED <<server, count, published, owed>>
  BY DEF NetConnect, history
<1> DEFINE opened == [ctx EXCEPT !.net = TRUE, !.tx = <<>>]
           may    == "CONNACK_AWAIT" \notin ctx.flags /\ MaySend(ctx, TRUE)
<1>2. CASE app' = After("failed") /\ UNCHANGED <<ctx, link, down>>
  <2>1. app'.pc = "failed"
    BY <1>0, <1>2, AfterType
  <2>2. ~Requesting /\ ~Requesting' /\ assign_new_msg_id(ctx)' = assign_new_msg_id(ctx)
    BY <1>0, <1>2, <2>1, RequestCalls DEF Requesting, assign_new_msg_id
  <2>3. Counted' /\ NextBody <= NextBody' /\ NextId <= NextId'
    BY <1>0, <1>1, <2>2, NotRequesting
  <2>. QED  BY <1>1, <1>2, <2>1, <2>3, CallStep
<1>3. CASE /\ ctx' = IF may THEN tx_part_setup(opened, app.mqp) ELSE opened
           /\ app' = IF may THEN [app EXCEPT !.pc = "sending"] ELSE After("failed")
           /\ link' = "open" /\ down' = <<>>
  <2>1. /\ SameBut(ctx, ctx', {"net", "tx", "tx_part", "tx_mqp"}) /\ ctx'.tx = <<>>
    <3>1. CASE may
      BY <1>0, <1>3, <3>1 DEF tx_part_setup, SameBut, CtxFields
    <3>2. CASE ~may
      BY <1>0, <1>3, <3>2 DEF SameBut, CtxFields
    <3>. QED  BY <3>1, <3>2
  <2>2. /\ app'.pc \in {"sending", "failed"} /\ app'.call = ConnectCall
        /\ app'.pc = "sending" => app'.msg = app.msg /\ app'.clean = app.clean
    <3>1. CASE may
      BY <1>0, <1>3, <3>1 DEF AppType
    <3>2. CASE ~may
      BY <1>0, <1>3, <3>2, AfterType
    <3>. QED  BY <3>1, <3>2
  <2> HIDE DEF opened, may
  <2>3. /\ ctx'.flags = ctx.flags /\ ctx'.qos_ack1_wl = ctx.qos_ack1_wl
        /\ ctx'.qos2_tx_cq = ctx.qos2_tx_cq /\ ctx'.msg_id = ctx.msg_id /\ ctx'.mqp = ctx.mqp
    BY <2>1 DEF SameBut, CtxFields
  <2>4. ~Requesting /\ ~Requesting' /\ assign_new_msg_id(ctx)' = assign_new_msg_id(ctx)
    BY <1>0, <2>2, <2>3, RequestCalls DEF Requesting, assign_new_msg_id
  <2>5. Counted' /\ NextBody <= NextBody' /\ NextId <= NextId'
    BY <1>0, <1>1, <2>4, NotRequesting
  <2>6. Up' = {} /\ Items(down') = {}
    BY <1>3, <2>1 DEF Up, Items
  <2>7. ConnectFirst'
    BY <1>0, <1>1, <1>3, <2>1, <2>2, <2>3, <2>6 DEF ConnectFirst, Once
  <2>8. Kept(ctx, ctx', {}) /\ Items(ctx'.qos_ack1_wl) = Items(ctx.qos_ack1_wl)
    BY <2>3 DEF Kept
  <2>9. SameSession' => SameSession
    BY <2>3 DEF SameSession
  <2>. QED  BY <1>1, <2>3, <2>5, <2>6, <2>7, <2>8, <2>9, Calm
<1>. QED  BY <1>2, <1>3 DEF NetConnect

\* The packet of a request is none of the wait list.
LEMMA PacketOfCall ==
  ASSUME IInv, app.pc \in {"composed", "sending"}, app.call \in Requests,
         app.pc = "sending" => app.call.qos > 0
  PROVE  /\ app.mqp \in Packets /\ app.mqp \notin Items(ctx.qos_ack1_wl) /\ ctx.mqp[app.mqp] = app.msg
         /\ app.msg.type = app.call.type /\ app.msg.qos = app.call.qos /\ CallPacket = {app.mqp}
<1>1. app.mqp \in Packets /\ app.msg.type = app.call.type /\ app.msg.qos = app.call.qos
  BY RequestCalls DEF IInv, CallOK
<1>2. CallPacket = {app.mqp}
  BY <1>1, PacketFacts DEF CallPacket
<1>3. ctx.mqp[app.mqp] = app.msg
  BY <1>2 DEF IInv, CallOK
<1>4. app.mqp \notin Items(ctx.qos_ack1_wl)
  BY <1>2 DEF IInv, PoolInv, PoolOK
<1>. QED  BY <1>1, <1>2, <1>3, <1>4

\* A call hands its packet to the connection, or gives it back.
LEMMA DispatchOnce ==
  ASSUME IInv, IInv', Once, Dispatch
  PROVE  Once'
<1>0. /\ TypeOK /\ Counted /\ app.pc = "composed" /\ app \in AppType /\ app.call # ConnectCall
      /\ DOMAIN ctx = CtxFields /\ ctx.mqp \in [Packets -> AnyMsg] /\ Items(ctx.qos_ack1_wl) \subseteq Packets
  BY WaitingTyped DEF IInv, Dispatch, TypeOK, IsCtx, Once
<1>1. UNCHANGED <<link, down, server, count, published, owed>>
  BY DEF Dispatch, serverVars, history
<1>2. app.call = DisconnCall \/ app.call \in Requests
  BY <1>0 DEF AppType, Calls
<1>3. app.call.qos # 0 => app.call \in Requests
  BY <1>2 DEF DisconnCall
<1> DEFINE held == IF app.call.qos = 0 THEN ctx ELSE Hold(ctx, app.mqp)
<1>4. SameBut(ctx, held, {"n_refs"})
  BY <1>0 DEF Hold, SameBut, CtxFields
<1>5. /\ DOMAIN held = CtxFields /\ held.mqp = ctx.mqp /\ held.qos_ack1_wl = ctx.qos_ack1_wl
  BY <1>4 DEF SameBut, CtxFields
<1>6. CASE MaySend(ctx, FALSE)
  <2>1. ctx' = tx_part_setup(held, app.mqp)
    BY <1>6 DEF Dispatch
  <2> HIDE DEF held
  <2>2. SameBut(ctx, ctx', {"tx_part", "tx_mqp", "n_refs"})
    BY <1>4, <1>5, <2>1 DEF tx_part_setup, SameBut, CtxFields
  <2>3. app'.pc = "sending" /\ app'.call = app.call /\ app'.msg = app.msg /\ app'.clean = app.clean
    BY <1>0, <1>6 DEF Dispatch, AppType
  <2>4. /\ ctx'.flags = ctx.flags /\ ctx'.qos_ack1_wl = ctx.qos_ack1_wl /\ ctx'.tx = ctx.tx
        /\ ctx'.qos2_tx_cq = ctx.qos2_tx_cq /\ ctx'.msg_id = ctx.msg_id /\ ctx'.mqp = ctx.mqp
    BY <2>2 DEF SameBut, CtxFields
  <2>5. SameConnection
    BY <1>1, <2>4 DEF SameConnection, Kept
  <2>6. assign_new_msg_id(ctx)' = assign_new_msg_id(ctx)
    BY <2>4 DEF assign_new_msg_id
  <2>7. Requesting' = Requesting /\ Numbered' = Numbered /\ Assigned' = Assigned
    BY <1>0, <1>1, <2>3 DEF Requesting, Numbered, Assigned
  <2>8. Counted' /\ NextBody' = NextBody /\ NextId' = NextId
    BY <1>0, <1>1, <2>3, <2>4, <2>6, <2>7 DEF Counted, NextBody, NextId
  <2>9. NextBody <= NextBody' /\ NextId <= NextId'
    BY <1>0, <2>8, NextNat
  <2>. QED  BY <1>0, <2>3, <2>5, <2>8, <2>9, SameConnectionOnce
<1>7. CASE ~MaySend(ctx, FALSE)
  <2>1. app'.pc \in {"wait", "exit", "failed"} /\ app'.call = app.call
    BY <1>0, <1>7, AfterType, NotSentPc DEF Dispatch
  <2>2. SameBut(ctx, ctx', {"n_refs", "free_list", "mqp"}) /\ Kept(ctx, ctx', {})
    <3>1. CASE app.call.qos = 0
      BY <1>0, <1>7, <3>1 DEF Dispatch, SameBut, Kept
    <3>2. CASE app.call.qos # 0
      <4>1. ctx' = mqp_free(held, app.mqp)
        BY <1>7, <3>2 DEF Dispatch
      <4>2. app.mqp \notin Items(ctx.qos_ack1_wl)
        BY <1>0, <1>3, <3>2, PacketOfCall
      <4> HIDE DEF held
      <4>3. SameBut(held, ctx', {"n_refs", "free_list", "mqp"}) /\ Kept(held, ctx', {})
        BY <1>0, <1>5, <4>1, <4>2, FreeKeeps
      <4>. QED  BY <1>4, <1>5, <4>3 DEF SameBut, CtxFields, Kept
    <3>. QED  BY <3>1, <3>2
  <2>3. /\ ctx'.flags = ctx.flags /\ ctx'.qos_ack1_wl = ctx.qos_ack1_wl /\ ctx'.tx = ctx.tx
        /\ ctx'.qos2_tx_cq = ctx.qos2_tx_cq /\ ctx'.msg_id = ctx.msg_id
    BY <2>2 DEF SameBut, CtxFields
  <2>4. SameConnection
    BY <1>1, <2>2, <2>3 DEF SameConnection
  <2>5. assign_new_msg_id(ctx)' = assign_new_msg_id(ctx) /\ ~Requesting'
    BY <2>1, <2>3 DEF assign_new_msg_id, Requesting
  <2>6. Counted' /\ NextBody <= NextBody' /\ NextId <= NextId'
    BY <1>0, <1>1, <2>5, RequestEnds, NotRequesting
  <2>. QED  BY <2>1, <2>4, <2>6, SameConnectionOnce
<1>. QED  BY <1>6, <1>7

\* A request under way to the server waits for its acknowledgement.
LEMMA ReqInList ==
  ASSUME IInv, NEW m \in Up, m \in ReqMsgs
  PROVE  "NOW_CONNECTED" \in ctx.flags /\ m \in Waiting
<1>1. TypeOK /\ Handshake /\ InOrder(Acks, Reqs, ctx.qos_ack1_wl, ctx.mqp) /\ ctx.tx \in Seq(AnyMsg)
  BY DEF IInv, TypeOK, IsCtx, OrderOK
<1>2. Acks \in Seq(AnyMsg) /\ Reqs \in Seq(AnyMsg) /\ ctx.qos_ack1_wl \in Seq(Packets)
  BY <1>1, ListsTyped
<1>3. link # "none" /\ m \in Items(ctx.tx)
  BY DEF Up
<1>4. m \in Items(Reqs)
  BY <1>1, <1>3, SiftMembers DEF Reqs
<1>5. PICK i \in 1..Len(Reqs) : m = Reqs[i]
  BY <1>2, <1>4 DEF Items
<1>6. m = ctx.mqp[ctx.qos_ack1_wl[Len(Acks) + i]]
  BY <1>1, <1>5 DEF InOrder
<1>7. Len(Acks) + i \in 1..Len(ctx.qos_ack1_wl)
  <2>1. Len(Acks) \in Nat /\ Len(Reqs) \in Nat /\ Len(ctx.qos_ack1_wl) \in Nat
        /\ Len(Acks) + Len(Reqs) <= Len(ctx.qos_ack1_wl)
    BY <1>1, <1>2 DEF InOrder
  <2>. QED  BY <1>5, <2>1
<1>8. ctx.qos_ack1_wl[Len(Acks) + i] \in Items(ctx.qos_ack1_wl)
  BY <1>2, <1>7 DEF Items
<1>9. Reqs # <<>>
  BY <1>2, <1>5
<1>. QED  BY <1>1, <1>6, <1>8, <1>9 DEF Handshake, Waiting

\* An acknowledgement under way to the client has the id of what it is for.
LEMMA AckInList ==
  ASSUME IInv, NEW a \in Items(down), a.type \in {"PUBACK", "PUBREC"}
  PROVE  \E m \in Waiting : m.id = a.id
<1>1. TypeOK /\ InOrder(Acks, Reqs, ctx.qos_ack1_wl, ctx.mqp) /\ down \in Seq(AnyMsg) /\ a \in AnyMsg
  BY WaitingTyped DEF IInv, TypeOK, OrderOK
<1>2. Acks \in Seq(AnyMsg) /\ Reqs \in Seq(AnyMsg) /\ ctx.qos_ack1_wl \in Seq(Packets)
  BY <1>1, ListsTyped
<1>3. a \in AckMsgs
  BY <1>1 DEF AckMsgs, AnyMsg
<1>4. a \in Items(Acks)
  BY <1>1, <1>3, SiftMembers DEF Acks
<1>5. PICK i \in 1..Len(Acks) : a = Acks[i]
  BY <1>2, <1>4 DEF Items
<1>6. a.id = ctx.mqp[ctx.qos_ack1_wl[i]].id
  BY <1>1, <1>5 DEF InOrder
<1>7. i \in 1..Len(ctx.qos_ack1_wl)
  <2>1. Len(Acks) \in Nat /\ Len(Reqs) \in Nat /\ Len(ctx.qos_ack1_wl) \in Nat
        /\ Len(Acks) + Len(Reqs) <= Len(ctx.qos_ack1_wl)
    BY <1>1, <1>2 DEF InOrder
  <2>. QED  BY <1>5, <2>1
<1>8. ctx.qos_ack1_wl[i] \in Items(ctx.qos_ack1_wl)
  BY <1>2, <1>7 DEF Items
<1>. QED  BY <1>6, <1>8 DEF Waiting

\* CONNECT is under way.
LEMMA ConnectSentOnce ==
  ASSUME IInv, IInv', Once, ConnectSent
  PROVE  Once'
<1> DEFINE sent == cl_ctx_part_send(ctx, app.msg, TRUE)
<1>0. /\ TypeOK /\ PoolInv /\ CallOK /\ Counted /\ app.pc = "sending" /\ app \in AppType
      /\ app.call = ConnectCall /\ app.msg \in AnyMsg /\ "NOW_CONNECTED" \notin ctx.flags
      /\ ctx.tx \in Seq(AnyMsg)
  BY DEF IInv, ConnectSent, TypeOK, AppType, Once, Handshake, IsCtx
<1>1. UNCHANGED <<link, down, server, count, published, owed>> /\ app' = After("wait")
  BY DEF ConnectSent, serverVars, history
<1>2. CallPacket = {} /\ app.msg.type = "CONNECT"
  BY <1>0 DEF CallOK, CallPacket, ConnectCall, DisconnCall
<1>3. Ok(ctx, {})
  BY <1>0, <1>2, CtxOk
<1>4. /\ SameBut(ctx, sent, {"n_refs", "free_list", "mqp", "tx_mqp", "tx_part", "tx"})
      /\ Kept(ctx, sent, {}) /\ sent.tx = Append(ctx.tx, app.msg) /\ DOMAIN sent = CtxFields
  <2>1. /\ Ok(sent, {}) /\ SameBut(ctx, sent, {"n_refs", "free_list", "mqp", "tx_mqp", "tx_part", "tx"})
        /\ Kept(ctx, sent, {}) /\ sent.tx = Append(ctx.tx, app.msg)
    BY <1>0, <1>3, PartSent
  <2>. QED  BY <2>1 DEF SameBut
<1>5. /\ SameBut(sent, ctx', {"flags"})
      /\ ctx'.flags = sent.flags \cup {"CONNACK_AWAIT"} \cup (IF app.clean THEN {"CLEAN_SESSION"} ELSE {})
  <2>1. ctx' = [sent EXCEPT !.flags = @ \cup {"CONNACK_AWAIT"} \cup (IF app.clean THEN {"CLEAN_SESSION"} ELSE {})]
    BY DEF ConnectSent
  <2> HIDE DEF sent
  <2>. QED  BY <1>4, <2>1 DEF SameBut, CtxFields
<1> HIDE DEF sent
<1>6. /\ ctx'.qos_ack1_wl = ctx.qos_ack1_wl /\ ctx'.qos2_tx_cq = ctx.qos2_tx_cq
      /\ ctx'.mqp = sent.mqp /\ ctx'.tx = sent.tx /\ ctx'.msg_id = ctx.msg_id
      /\ ctx'.qos_ack1_wl = sent.qos_ack1_wl /\ sent.flags = ctx.flags
  BY <1>4, <1>5 DEF SameBut, CtxFields
<1>7. app'.pc = "wait"
  BY <1>0, <1>1, AfterType
<1>8. ~Requesting /\ ~Requesting' /\ assign_new_msg_id(ctx)' = assign_new_msg_id(ctx)
  BY <1>0, <1>6, <1>7, RequestCalls DEF Requesting, assign_new_msg_id
<1>9. Counted' /\ NextBody <= NextBody' /\ NextId <= NextId'
  BY <1>0, <1>1, <1>8, NotRequesting
<1>10. \A m \in Up' : m \in Up \/ m = app.msg
  BY <1>0, <1>1, <1>4, <1>6, AppendItems DEF Up
<1>11. link # "none" => link = "open" /\ ctx.tx = <<>>
  BY <1>0 DEF Once, ConnectFirst
<1>12. link # "none" => Len(ctx'.tx) = 1 /\ ctx'.tx[1] = app.msg
  BY <1>0, <1>4, <1>6, <1>11
<1>13. "NOW_CONNECTED" \notin ctx'.flags /\ ctx.flags \subseteq ctx'.flags /\ (app.clean => "CLEAN_SESSION" \in ctx'.flags)
  BY <1>0, <1>5, <1>6
<1>14. ConnectFirst'
  <2>1. app.msg.id = 1 => app.clean
    BY <1>0 DEF Once, ConnectFirst
  <2>2. \A m \in Up' : m.type = "CONNECT" /\ m.id = 1 => "CLEAN_SESSION" \in ctx'.flags
    BY <1>10, <1>13, <2>1 DEF Once, ConnectFirst
  <2>3. server'.clean => "CLEAN_SESSION" \in ctx'.flags
    BY <1>1, <1>13 DEF Once, ConnectFirst
  <2>. QED  BY <1>1, <1>2, <1>7, <1>11, <1>12, <1>13, <2>2, <2>3 DEF ConnectFirst
<1>15. Kept(ctx, ctx', {}) /\ Items(ctx'.qos_ack1_wl) = Items(ctx.qos_ack1_wl)
  BY <1>4, <1>6 DEF Kept
<1>16. SameSession' => SameSession
  BY <1>13 DEF SameSession
<1>17. \A m \in Up' : m \in Up \/ (~IsQos0(m) /\ m.type # "PUBREL")
  BY <1>2, <1>10 DEF IsQos0
<1>. QED  BY <1>1, <1>6, <1>9, <1>14, <1>15, <1>16, <1>17, Calm

\* DISCONNECT is under way.
LEMMA DisconnSentOnce ==
  ASSUME IInv, IInv', Once, DisconnSent
  PROVE  Once'
<1> DEFINE m    == VhMsg("DISCONNECT", 0)
           sent == cl_ctx_part_send(ctx, m, TRUE)
<1>0. /\ TypeOK /\ PoolInv /\ Counted /\ Handshake /\ app.pc = "sending" /\ app \in AppType
      /\ app.call = DisconnCall /\ ctx.tx \in Seq(AnyMsg)
      /\ link # "none" => "NOW_CONNECTED" \in ctx.flags
  BY RequestCalls DEF IInv, DisconnSent, TypeOK, Once, IsCtx, Handshake
<1>1. UNCHANGED <<link, down, server, count, published, owed>> /\ app' = After("wait")
  BY DEF DisconnSent, serverVars, history
<1>2. CallPacket = {} /\ m \in AnyMsg /\ m.type = "DISCONNECT"
  <2>1. CallPacket = {}
    BY <1>0 DEF CallPacket, DisconnCall
  <2>2. "DISCONNECT" \in PacketTypes /\ 0 \in Nat
    BY DEF PacketTypes
  <2>. QED  BY <2>1, <2>2, MsgTypes
<1> HIDE DEF m
<1>3. Ok(ctx, {})
  BY <1>0, <1>2, CtxOk
<1>4. /\ SameBut(ctx, sent, {"n_refs", "free_list", "mqp", "tx_mqp", "tx_part", "tx"})
      /\ Kept(ctx, sent, {}) /\ sent.tx = Append(ctx.tx, m) /\ DOMAIN sent = CtxFields
  <2>1. /\ Ok(sent, {}) /\ SameBut(ctx, sent, {"n_refs", "free_list", "mqp", "tx_mqp", "tx_part", "tx"})
        /\ Kept(ctx, sent, {}) /\ sent.tx = Append(ctx.tx, m)
    BY <1>2, <1>3, PartSent
  <2>. QED  BY <2>1 DEF SameBut
<1>5. SameBut(sent, ctx', {"flags"}) /\ ctx'.flags = sent.flags \cup {"NETWORK_CLOSE"}
  <2>1. ctx' = do_net_close_tx(sent)
    BY DEF DisconnSent, m
  <2> HIDE DEF sent
  <2>. QED  BY <1>4, <2>1 DEF SameBut, CtxFields, do_net_close_tx
<1> HIDE DEF sent
<1>6. /\ ctx'.qos_ack1_wl = ctx.qos_ack1_wl /\ ctx'.qos2_tx_cq = ctx.qos2_tx_cq
      /\ ctx'.mqp = sent.mqp /\ ctx'.tx = sent.tx /\ ctx'.msg_id = ctx.msg_id
      /\ ctx'.qos_ack1_wl = sent.qos_ack1_wl /\ sent.flags = ctx.flags
  BY <1>4, <1>5 DEF SameBut, CtxFields
<1>7. app'.pc = "wait"
  BY <1>0, <1>1, AfterType
<1>8. ~Requesting /\ ~Requesting' /\ assign_new_msg_id(ctx)' = assign_new_msg_id(ctx)
  BY <1>0, <1>6, <1>7, RequestCalls DEF Requesting, assign_new_msg_id
<1>9. Counted' /\ NextBody <= NextBody' /\ NextId <= NextId'
  BY <1>0, <1>1, <1>8, NotRequesting
<1>10. \A u \in Up' : u \in Up \/ u = m
  BY <1>0, <1>1, <1>2, <1>4, <1>6, AppendItems DEF Up
<1>11. \A f \in {"NOW_CONNECTED", "CLEAN_SESSION"} : f \in ctx'.flags <=> f \in ctx.flags
  BY <1>5, <1>6
<1>12. ConnectFirst'
  <2>1. "NOW_CONNECTED" \in ctx'.flags => \A u \in Up' : u.type # "CONNECT"
    BY <1>2, <1>10, <1>11 DEF Once, ConnectFirst
  <2>2. \A u \in Up' : u.type = "CONNECT" /\ u.id = 1 => "CLEAN_SESSION" \in ctx'.flags
    BY <1>2, <1>10, <1>11 DEF Once, ConnectFirst
  <2>3. server'.clean => "CLEAN_SESSION" \in ctx'.flags
    BY <1>1, <1>11 DEF Once, ConnectFirst
  <2>. QED  BY <1>0, <1>1, <1>7, <1>11, <2>1, <2>2, <2>3 DEF ConnectFirst
<1>13. Kept(ctx, ctx', {}) /\ Items(ctx'.qos_ack1_wl) = Items(ctx.qos_ack1_wl)
  BY <1>4, <1>6 DEF Kept
<1>14. SameSession' => SameSession
  BY <1>11 DEF SameSession
<1>15. \A u \in Up' : u \in Up \/ (~IsQos0(u) /\ u.type # "PUBREL")
  BY <1>2, <1>10 DEF IsQos0
<1>. QED  BY <1>1, <1>6, <1>9, <1>12, <1>13, <1>14, <1>15, Calm

\* A send fails.
LEMMA SendFailsOnce ==
  ASSUME IInv, IInv', Once, SendFails
  PROVE  Once'
<1> DEFINE failed == do_net_close_tx(ctx)
<1>0. /\ TypeOK /\ Counted /\ app.pc = "sending" /\ app \in AppType
      /\ DOMAIN ctx = CtxFields /\ link = "none" /\ ctx.mqp \in [Packets -> AnyMsg]
      /\ Items(ctx.qos_ack1_wl) \subseteq Packets
  BY WaitingTyped DEF IInv, SendFails, TypeOK, IsCtx, SendOk, Once
<1>1. UNCHANGED <<link, down, server, count, published, owed>> /\ app' = After(NotSent)
      /\ NotSent \in {"wait", "exit", "failed"}
  BY NotSentPc DEF SendFails, serverVars, history
<1>2. SameBut(ctx, failed, {"flags"}) /\ failed.flags = ctx.flags \cup {"NETWORK_CLOSE"}
  BY <1>0 DEF SameBut, CtxFields, do_net_close_tx
<1>3. ctx' = IF app.call.qos = 0 THEN failed ELSE mqp_free(failed, app.mqp)
  BY DEF SendFails
<1> HIDE DEF failed
<1>4. /\ DOMAIN failed = CtxFields /\ failed.mqp = ctx.mqp /\ failed.qos_ack1_wl = ctx.qos_ack1_wl
  BY <1>2 DEF SameBut, CtxFields
<1>5. SameBut(ctx, ctx', {"flags", "n_refs", "free_list", "mqp"}) /\ Kept(ctx, ctx', {}) /\ ctx'.flags = failed.flags
  <2>1. CASE app.call.qos = 0
    BY <1>2, <1>3, <1>4, <2>1 DEF SameBut, CtxFields, Kept
  <2>2. CASE app.call.qos # 0
    <3>1. app.call \in Calls
      BY <1>0 DEF AppType
    <3>2. app.call \in Requests /\ app.call.qos > 0
      BY <2>2, <3>1, RequestCalls DEF Calls, DisconnCall
    <3>3. app.mqp \notin Items(ctx.qos_ack1_wl)
      BY <1>0, <3>2, PacketOfCall
    <3>4. SameBut(failed, ctx', {"n_refs", "free_list", "mqp"}) /\ Kept(failed, ctx', {})
      <4>1. ctx' = mqp_free(failed, app.mqp)
        BY <1>3, <2>2
      <4>. QED  BY <1>0, <1>4, <3>3, <4>1, FreeKeeps
    <3>. QED  BY <1>2, <1>4, <3>4 DEF SameBut, CtxFields, Kept
  <2>. QED  BY <2>1, <2>2
<1>6. /\ ctx'.qos_ack1_wl = ctx.qos_ack1_wl /\ ctx'.qos2_tx_cq = ctx.qos2_tx_cq
      /\ ctx'.tx = ctx.tx /\ ctx'.msg_id = ctx.msg_id
  BY <1>5 DEF SameBut, CtxFields
<1>7. app'.pc \in {"wait", "exit", "failed"}
  BY <1>0, <1>1, AfterType
<1>8. ~Requesting' /\ assign_new_msg_id(ctx)' = assign_new_msg_id(ctx)
  BY <1>6, <1>7 DEF Requesting, assign_new_msg_id
<1>9. Counted' /\ NextBody <= NextBody' /\ NextId <= NextId'
  BY <1>0, <1>1, <1>8, NotRequesting, RequestEnds
<1>10. Up' = {}
  BY <1>0, <1>1 DEF Up
<1>11. \A f \in {"NOW_CONNECTED", "CLEAN_SESSION"} : f \in ctx'.flags <=> f \in ctx.flags
  BY <1>2, <1>5
<1>12. ConnectFirst'
  BY <1>0, <1>1, <1>7, <1>10, <1>11 DEF Once, ConnectFirst
<1>13. SameSession' => SameSession
  BY <1>11 DEF SameSession
<1>. QED  BY <1>1, <1>5, <1>6, <1>9, <1>10, <1>12, <1>13, Calm

\* A message is under way and, with QoS above 0, in the wait list.
LEMMA MsgSentOnce ==
  ASSUME IInv, IInv', Once, MsgSent
  PROVE  Once'
<1> DEFINE sent == cl_ctx_part_send(ctx, app.msg, TRUE)
           pc   == IF Blocks(app.call) THEN "wait" ELSE "exit"
           wl   == ctx.qos_ack1_wl
<1>0. /\ TypeOK /\ PoolInv /\ CallOK /\ Counted /\ app.pc = "sending" /\ app \in AppType /\ app.msg \in AnyMsg
      /\ app.call \in Calls /\ app.call.type \notin {"CONNECT", "DISCONNECT"} /\ ctx.tx \in Seq(AnyMsg)
      /\ wl \in Seq(Packets) /\ count.requests \in Nat
  BY DEF IInv, MsgSent, TypeOK, AppType, IsCtx, Once
<1>1. /\ UNCHANGED <<link, down, server, count, published>> /\ app' = After(pc) /\ pc \in {"wait", "exit"}
      /\ owed' = IF app.call.type = "PUBLISH" /\ app.call.qos > 0 THEN owed \cup {app.msg.body} ELSE owed
  BY DEF MsgSent, serverVars
<1>2. app.call \in Requests /\ app.call.qos \in 0..2 /\ app.call # ConnectCall /\ app.call # DisconnCall
  <2>1. app.call \in Requests
    BY <1>0, RequestCalls DEF Calls
  <2>. QED  BY <2>1, RequestCalls
<1>3. app.mqp \in Packets /\ app.msg.type = app.call.type /\ app.msg.qos = app.call.qos
  BY <1>0, <1>2 DEF CallOK
<1>4. Requesting /\ Numbered /\ app.msg.body = count.requests /\ count.requests \in 1..MaxMessages
  BY <1>0, <1>2 DEF Requesting, Numbered, Counted
<1>5. Ok(ctx, CallPacket)
  BY <1>0, CtxOk
<1>6. /\ Ok(sent, CallPacket) /\ SameBut(ctx, sent, {"n_refs", "free_list", "mqp", "tx_mqp", "tx_part", "tx"})
      /\ Kept(ctx, sent, CallPacket) /\ sent.tx = Append(ctx.tx, app.msg)
  BY <1>0, <1>5, PartSent
<1>7. ctx' = IF app.call.qos = 0 THEN sent ELSE [sent EXCEPT !.qos_ack1_wl = Append(@, app.mqp)]
  BY DEF MsgSent
<1>8. app'.pc \in {"wait", "exit"} /\ app'.call = app.call
  BY <1>0, <1>1, AfterType
<1> HIDE DEF sent, pc
<1>9. /\ sent.qos_ack1_wl = wl /\ sent.qos2_tx_cq = ctx.qos2_tx_cq /\ sent.msg_id = ctx.msg_id
      /\ sent.flags = ctx.flags /\ DOMAIN sent = CtxFields
  BY <1>6 DEF SameBut, CtxFields
<1>10. /\ ctx'.flags = ctx.flags /\ ctx'.tx = Append(ctx.tx, app.msg) /\ ctx'.msg_id = ctx.msg_id
       /\ ctx'.mqp = sent.mqp /\ ctx'.qos2_tx_cq = ctx.qos2_tx_cq
       /\ ctx'.qos_ack1_wl = IF app.call.qos = 0 THEN wl ELSE Append(wl, app.mqp)
  BY <1>6, <1>7, <1>9 DEF CtxFields
<1>11. ~Requesting' /\ assign_new_msg_id(ctx)' = assign_new_msg_id(ctx)
  BY <1>8, <1>10 DEF Requesting, assign_new_msg_id
<1>12. /\ Counted' /\ NextBody <= NextBody' /\ NextId <= NextId'
  BY <1>0, <1>1, <1>4, <1>11, RequestEnds
<1>13. /\ NextBody = count.requests /\ NextBody' = count.requests + 1 /\ NextId' = assign_new_msg_id(ctx)
  BY <1>1, <1>4, <1>11 DEF NextBody, NextId, Requesting, Numbered
<1>14. \A m \in Up' : m \in Up \/ m = app.msg
  BY <1>0, <1>1, <1>10, AppendItems DEF Up
<1>15. ConnectFirst'
  <2>1. link # "none" => "NOW_CONNECTED" \in ctx.flags
    BY <1>0, <1>2 DEF IInv, Handshake
  <2>2. app.msg.type # "CONNECT"
    BY <1>0, <1>3
  <2>. QED  BY <1>1, <1>8, <1>10, <1>14, <2>1, <2>2 DEF Once, ConnectFirst
<1>16. SameSession' = SameSession
  BY <1>10 DEF SameSession
<1>17. app.msg.type # "PUBREL"
  BY <1>2, <1>3, RequestCalls
<1>18. \A p \in Items(wl) : ctx'.mqp[p] = ctx.mqp[p]
  BY <1>6, <1>9, <1>10 DEF Kept
<1>19. PubrelIds' \subseteq PubrelIds
  BY <1>10, <1>14, <1>17 DEF PubrelIds
<1>20. \A id \in PubrelIds : id \in Nat /\ id < NextId /\ \A m \in Waiting : m.id # id
  <2>1. \A id \in PubrelIds : id \in Nat
    BY <1>0, WaitingTyped DEF PubrelIds, AnyMsg
  <2>. QED  BY <2>1 DEF Once, Retired
<1>21. /\ NextId \in Nat /\ NextId' \in Nat /\ NextBody \in Nat /\ NextBody' \in Nat
  BY <1>0, <1>12, NextNat, NextNatAgain DEF IInv
<1>22. CASE app.call.qos = 0
  <2>1. Items(ctx'.qos_ack1_wl) = Items(wl) /\ Kept(ctx, ctx', {}) /\ Waiting' = Waiting
    BY <1>10, <1>18, <1>22 DEF Kept, Waiting
  <2>2. owed' = owed
    BY <1>1, <1>22
  <2>3. Retired'
    <3>1. \A id \in PubrelIds' : id < NextId' /\ \A m \in Waiting' : m.id # id
      BY <1>12, <1>19, <1>20, <1>21, <2>1
    <3>. QED  BY <3>1 DEF Retired
  <2>4. OwedOK'
    BY <1>1, <2>1, <2>2 DEF Once, OwedOK
  <2>5. \A m \in Up' : IsQos0(m) =>
          m \in Up \/ (m.body > 0 /\ m.body < NextBody' /\ \A w \in Waiting' : w.body # m.body)
    <3>1. \A w \in Waiting : w.body \in Nat /\ w.body < NextBody
      BY <1>0, WaitingTyped DEF Once, Fresh, AnyMsg
    <3>2. \A w \in Waiting : w.body # app.msg.body
      BY <1>4, <1>13, <3>1
    <3>. QED  BY <1>4, <1>13, <1>14, <2>1, <3>2
  <2>. QED  BY <1>1, <1>12, <1>15, <1>16, <2>1, <2>3, <2>4, <2>5, Quiet
<1>23. CASE app.call.qos # 0
  <2> DEFINE p0 == app.mqp
             m0 == app.msg
  <2>1. /\ p0 \notin Items(wl) /\ ctx.mqp[p0] = m0 /\ CallPacket = {p0}
    BY <1>0, <1>2, <1>23, PacketOfCall
  <2>2. ctx'.mqp[p0] = m0
    BY <1>6, <1>10, <2>1 DEF Kept
  <2>3. Items(ctx'.qos_ack1_wl) = Items(wl) \cup {p0}
    BY <1>0, <1>3, <1>10, <1>23, AppendItems
  <2>4. \A p \in Items(ctx'.qos_ack1_wl) : p # p0 => ctx'.mqp[p] \in Waiting
    <3>1. \A p \in Items(wl) : ctx'.mqp[p] \in Waiting
      BY <1>18 DEF Waiting
    <3>. QED  BY <2>3, <3>1
  <2>5. Waiting' = Waiting \cup {m0}
    BY <1>18, <2>2, <2>3 DEF Waiting
  <2>6. m0.id = NextId /\ m0.id > 0 /\ m0.id < NextId' /\ m0.body = NextBody /\ m0.body > 0 /\ m0.body < NextBody'
        /\ m0.id \in Nat /\ m0.body \in Nat /\ m0.body \in 1..MaxMessages
    <3>1. app.call.qos > 0 /\ m0.id \in Nat
      BY <1>0, <1>2, <1>23 DEF AnyMsg
    <3>2. m0.id = NextId /\ m0.id > 0 /\ m0.id < assign_new_msg_id(ctx)
      BY <1>0, <1>4, <3>1 DEF NextId, Counted
    <3>. QED  BY <1>4, <1>13, <3>1, <3>2
  <2> HIDE DEF p0, m0, wl
  <2>7. \A m \in Waiting : m.id \in Nat /\ m.body \in Nat /\ m.id > 0 /\ m.id < NextId /\ m.body > 0 /\ m.body < NextBody
    BY <1>0, WaitingTyped DEF Once, Fresh, AnyMsg
  <2>8. \A m \in Waiting : m.id # m0.id /\ m.body # m0.body
    BY <1>21, <2>6, <2>7
  <2>9. \A id \in server.rcvd : id \in Nat /\ id < NextId /\ id # m0.id
    <3>1. \A id \in server.rcvd : id \in Nat /\ id < NextId
      BY <1>0, WaitingTyped DEF Once, Fresh
    <3>. QED  BY <1>21, <2>6, <3>1
  <2>10. published[m0.body].n = 0
    <3>1. DOMAIN published = 1..MaxMessages /\ published[m0.body].n \in Nat
      BY <1>0, <2>6 DEF Counted
    <3>2. published[m0.body].n > 0 => m0.body < NextBody
      BY <2>6, <3>1 DEF Once, Fresh
    <3>. QED  BY <1>21, <2>6, <3>1, <3>2
  <2>11. ~Given(m0) /\ \A m : Given(m)' <=> Given(m)
    BY <1>1, <2>10 DEF Given
  <2>12. Fresh'
    <3>1. \A m \in Waiting' : m.id > 0 /\ m.id < NextId' /\ m.body > 0 /\ m.body < NextBody'
      BY <1>12, <1>21, <2>5, <2>6, <2>7
    <3>2. \A p, q \in Items(ctx'.qos_ack1_wl) : p # q =>
            ctx'.mqp[p].id # ctx'.mqp[q].id /\ ctx'.mqp[p].body # ctx'.mqp[q].body
      <4> SUFFICES ASSUME NEW p \in Items(ctx'.qos_ack1_wl), NEW q \in Items(ctx'.qos_ack1_wl), p # q
                   PROVE  ctx'.mqp[p].id # ctx'.mqp[q].id /\ ctx'.mqp[p].body # ctx'.mqp[q].body
        OBVIOUS
      <4>1. CASE p \in Items(wl) /\ q \in Items(wl)
        BY <1>18, <4>1 DEF Once, Fresh, wl
      <4>2. CASE p = p0
        BY <2>1, <2>2, <2>4, <2>8, <4>2
      <4>3. CASE q = p0
        BY <2>1, <2>2, <2>4, <2>8, <4>3
      <4>. QED  BY <2>3, <4>1, <4>2, <4>3
    <3>3. \A m \in Up' : IsQos0(m) => m.body > 0 /\ m.body < NextBody' /\ \A w \in Waiting' : w.body # m.body
      <4>1. ~IsQos0(m0)
        BY <1>3, <1>23 DEF IsQos0, m0
      <4>2. \A m \in Up : IsQos0(m) => m.body \in Nat /\ m.body > 0 /\ m.body < NextBody /\ \A w \in Waiting : w.body # m.body
        BY <1>0, WaitingTyped DEF Once, Fresh, AnyMsg
      <4>3. \A m \in Up : IsQos0(m) => m.body < NextBody' /\ m.body # m0.body
        BY <1>12, <1>21, <2>6, <4>2
      <4>. QED  BY <1>14, <2>5, <4>1, <4>2, <4>3 DEF m0
    <3>4. \A id \in server'.rcvd : id < NextId'
      BY <1>1, <1>12, <1>21, <2>9
    <3>5. \A b \in DOMAIN published' : published'[b].n > 0 => b < NextBody'
      <4>1. \A b \in DOMAIN published : b \in Nat /\ (published[b].n > 0 => b < NextBody)
        BY <1>0 DEF Once, Fresh, Counted
      <4>. QED  BY <1>1, <1>12, <1>21, <4>1
    <3>. QED  BY <3>1, <3>2, <3>3, <3>4, <3>5 DEF Fresh
  <2>13. Retired'
    <3>1. \A id \in PubrelIds' : id < NextId' /\ \A m \in Waiting' : m.id # id
      BY <1>12, <1>19, <1>20, <1>21, <2>5, <2>6
    <3>. QED  BY <3>1 DEF Retired
  <2>14. Recorded'
    <3>1. SameSession' => \A m \in Waiting' : IsQos2(m) /\ Given(m) => m.id \in server'.rcvd
      BY <1>1, <1>16, <2>5, <2>11 DEF Once, Recorded
    <3>2. \A m \in Waiting' : IsQos2(m) /\ m.id \in server'.rcvd => Given(m)
      BY <1>1, <2>5, <2>9 DEF Once, Recorded
    <3>3. \A a \in Items(down) : a.type \in {"PUBACK", "PUBREC"} => a.id # m0.id
      BY <2>8, AckInList
    <3>4. \A a \in Items(down'), m \in Waiting' :
            a.type \in {"PUBACK", "PUBREC"} /\ a.id = m.id /\ m.type = "PUBLISH" => Given(m)
      BY <1>1, <2>5, <3>3 DEF Once, Recorded
    <3>. QED  BY <2>11, <3>1, <3>2, <3>4 DEF Recorded, IsQos2
  <2>15. OwedOK'
    <3>1. \A b \in owed : b \in 1..MaxMessages /\ (published[b].n > 0 \/ \E m \in Waiting : m.type = "PUBLISH" /\ m.body = b)
      BY DEF Once, OwedOK
    <3>2. \A b \in owed' : b \in owed \/ (b = m0.body /\ m0.type = "PUBLISH")
      BY <1>1, <1>3 DEF m0
    <3>. QED  BY <1>1, <2>5, <2>6, <3>1, <3>2 DEF OwedOK
  <2>16. ServerGetsOnce'
    BY <1>1 DEF Once, ServerGetsOnce
  <2>. QED  BY <1>12, <1>15, <2>12, <2>13, <2>14, <2>15, <2>16 DEF Once
<1>. QED  BY <1>22, <1>23

\* The application's task and its count of ids stay as they are.
LEMMA SameApp ==
  ASSUME TypeOK, Counted, app' = app, ctx'.msg_id = ctx.msg_id, count'.requests = count.requests,
         published' \in [1..MaxMessages -> [n : Nat, qos : Nat]]
  PROVE  /\ Counted' /\ NextBody' = NextBody /\ NextId' = NextId
         /\ NextBody <= NextBody' /\ NextId <= NextId'
<1>1. assign_new_msg_id(ctx)' = assign_new_msg_id(ctx)
  BY DEF assign_new_msg_id
<1>2. Requesting' = Requesting /\ Numbered' = Numbered /\ Assigned' = Assigned
  BY DEF Requesting, Numbered, Assigned
<1>3. Counted'
  BY <1>1, <1>2 DEF Counted
<1>4. NextBody' = NextBody /\ NextId' = NextId
  BY <1>1, <1>2 DEF NextBody, NextId
<1>. QED  BY <1>3, <1>4, NextNat

\* The server takes the first packet.
LEMMA TailUp ==
  ASSUME TypeOK, link # "none", ctx.tx # <<>>, ctx'.tx = Tail(ctx.tx)
  PROVE  /\ Up' \subseteq Up /\ Head(ctx.tx) \in Up
         /\ Len(ctx.tx) = 1 => ctx'.tx = <<>>
<1>1. ctx.tx \in Seq(AnyMsg)
  BY DEF TypeOK, IsCtx
<1>2. /\ Len(Tail(ctx.tx)) = Len(ctx.tx) - 1 /\ Tail(ctx.tx) \in Seq(AnyMsg) /\ Head(ctx.tx) = ctx.tx[1]
      /\ Items(ctx.tx) = {ctx.tx[1]} \cup Items(Tail(ctx.tx))
  BY <1>1, HeadTail
<1>3. Len(ctx.tx) = 1 => Tail(ctx.tx) = <<>>
  <2>1. \A t \in Seq(AnyMsg) : Len(t) = 0 => t = <<>>
    OBVIOUS
  <2> DEFINE t == Tail(ctx.tx)
  <2>2. t \in Seq(AnyMsg) /\ Len(t) = Len(ctx.tx) - 1
    BY <1>2
  <2> HIDE DEF t
  <2>3. Len(ctx.tx) = 1 => Len(t) = 0
    BY <2>2
  <2>4. Len(ctx.tx) = 1 => t = <<>>
    BY ONLY <2>1, <2>2, <2>3
  <2>. QED  BY <2>4 DEF t
<1>. QED  BY <1>2, <1>3 DEF Up

\* What the server and the network do to the connection
LEMMA NetStep ==
  ASSUME IInv, IInv', Once, SameBut(ctx, ctx', {"tx"}), app' = app, count'.requests = count.requests,
         UNCHANGED <<published, owed>>, server'.rcvd = server.rcvd, ConnectFirst', Up' \subseteq Up,
         \A a \in Items(down') : a.type \in {"PUBACK", "PUBREC"} => a \in Items(down)
  PROVE  Once'
<1>1. TypeOK /\ Counted /\ published \in [1..MaxMessages -> [n : Nat, qos : Nat]]
  BY DEF IInv, Once, Counted
<1>2. /\ ctx'.flags = ctx.flags /\ ctx'.qos_ack1_wl = ctx.qos_ack1_wl /\ ctx'.qos2_tx_cq = ctx.qos2_tx_cq
      /\ ctx'.msg_id = ctx.msg_id /\ ctx'.mqp = ctx.mqp
  BY DEF SameBut, CtxFields
<1>3. Counted' /\ NextBody <= NextBody' /\ NextId <= NextId'
  BY <1>1, <1>2, SameApp
<1>4. Items(ctx'.qos_ack1_wl) = Items(ctx.qos_ack1_wl) /\ Kept(ctx, ctx', {})
  BY <1>2 DEF Kept
<1>5. SameSession' => SameSession
  BY <1>2 DEF SameSession
<1>. QED  BY <1>2, <1>3, <1>4, <1>5, Calm

\* The server refuses the connection.
LEMMA ServerRefuseOnce ==
  ASSUME IInv, IInv', Once, ServerRefuse
  PROVE  Once'
<1>0. /\ TypeOK /\ link = "open" /\ ctx.tx # <<>> /\ "NOW_CONNECTED" \notin ctx.flags /\ DOMAIN ctx = CtxFields
      /\ count \in [requests : Nat, connects : Nat, msgs : Nat, pings : Nat, drops : Nat]
  BY DEF IInv, TypeOK, IsCtx, ServerRefuse, Handshake
<1>1. UNCHANGED <<app, server, link, published, owed>> /\ ctx' = [ctx EXCEPT !.tx = Tail(@)]
      /\ down' = <<VhMsg("CONNACK", 5)>> /\ count' = [count EXCEPT !.drops = @ + 1]
  BY DEF ServerRefuse, history
<1>2. SameBut(ctx, ctx', {"tx"}) /\ ctx'.tx = Tail(ctx.tx) /\ ctx'.flags = ctx.flags
  BY <1>0, <1>1 DEF SameBut, CtxFields
<1>3. Up' \subseteq Up /\ (Len(ctx.tx) = 1 => ctx'.tx = <<>>)
  BY <1>0, <1>2, TailUp
<1>4. ctx'.tx = <<>>
  BY <1>0, <1>3 DEF Once, ConnectFirst
<1>5. ConnectFirst'
  BY <1>0, <1>1, <1>2, <1>3, <1>4 DEF Once, ConnectFirst
<1>6. \A a \in Items(down') : a.type = "CONNACK"
  <2>1. VhMsg("CONNACK", 5).type = "CONNACK"
    BY DEF VhMsg, Msg
  <2>2. \A x : DOMAIN <<x>> = {1} /\ <<x>>[1] = x
    OBVIOUS
  <2> HIDE DEF VhMsg
  <2>. QED  BY <1>1, <2>1, <2>2 DEF Items
<1>7. count'.requests = count.requests
  BY <1>0, <1>1
<1>. QED  BY <1>1, <1>2, <1>3, <1>5, <1>6, <1>7, NetStep

\* The connection breaks: what was under way to the server is lost.
LEMMA DropLinkOnce ==
  ASSUME IInv, IInv', Once, DropLink
  PROVE  Once'
<1>0. /\ TypeOK /\ DOMAIN ctx = CtxFields /\ down \in Seq(AnyMsg)
      /\ count \in [requests : Nat, connects : Nat, msgs : Nat, pings : Nat, drops : Nat]
  BY DEF IInv, TypeOK, IsCtx
<1>1. PICK k \in 0..Len(down) : down' = SubSeq(down, 1, k)
  BY DEF DropLink
<1>2. UNCHANGED <<app, server, published, owed>> /\ link' = "none" /\ ctx' = [ctx EXCEPT !.tx = <<>>]
      /\ count' = [count EXCEPT !.drops = @ + 1]
  BY DEF DropLink, history
<1>3. SameBut(ctx, ctx', {"tx"}) /\ ctx'.flags = ctx.flags /\ count'.requests = count.requests
  BY <1>0, <1>2 DEF SameBut, CtxFields
<1>4. Up' = {}
  BY <1>2 DEF Up
<1>5. ConnectFirst'
  BY <1>2, <1>3, <1>4 DEF Once, ConnectFirst
<1>6. Items(down') \subseteq Items(down)
  BY <1>0, <1>1 DEF Items
<1>. QED  BY <1>2, <1>3, <1>4, <1>5, <1>6, NetStep

\* The server sends a message of its own.
LEMMA ServerPublishOnce ==
  ASSUME IInv, IInv', Once, NEW qos \in ServerQos, ServerPublish(qos)
  PROVE  Once'
<1> DEFINE body == count.msgs + 1
           id   == CHOOSE i \in 1..ServerInflight : \A j \in DOMAIN server.out : server.out[j].msg.id # i
           m    == Msg("PUBLISH", id, qos, body)
<1>0. /\ TypeOK /\ down \in Seq(AnyMsg) /\ DOMAIN ctx = CtxFields /\ server \in ServerType
      /\ count \in [requests : Nat, connects : Nat, msgs : Nat, pings : Nat, drops : Nat]
  BY DEF IInv, TypeOK, IsCtx, ServerType
<1>1. /\ count' = [count EXCEPT !.msgs = body] /\ down' = Append(down, m)
      /\ server' = [server EXCEPT !.out = Append(@, [msg |-> m, released |-> FALSE])]
      /\ UNCHANGED <<ctx, app, link, published, owed>>
  BY DEF ServerPublish, clientVars, history
<1>2. m.type = "PUBLISH"
  BY DEF Msg
<1> HIDE DEF m, body
<1>3. SameBut(ctx, ctx', {"tx"}) /\ Up' = Up
  BY <1>0, <1>1 DEF SameBut, Up
<1>4. count'.requests = count.requests /\ server'.rcvd = server.rcvd /\ server'.clean = server.clean
  BY <1>0, <1>1 DEF ServerType
<1>5. ConnectFirst'
  BY <1>1, <1>3, <1>4 DEF Once, ConnectFirst
<1>6. \A a \in Items(down') : a \in Items(down) \/ a = m
  BY <1>0, <1>1 DEF Items
<1>7. \A a \in Items(down') : a.type \in {"PUBACK", "PUBREC"} => a \in Items(down)
  BY <1>2, <1>6
<1>. QED  BY <1>1, <1>3, <1>4, <1>5, <1>7, NetStep

\* What a packet does to the session of the server
LEMMA ReplySession ==
  ASSUME NEW s \in ServerType, NEW msg \in AnyMsg, NEW r, r = ServerReply(s, msg)
  PROVE  /\ msg.type \notin {"CONNECT", "PUBREL"} /\ ~IsQos2(msg) =>
              r.session.rcvd = s.rcvd /\ r.session.clean = s.clean
         /\ IsQos2(msg) => r.session.rcvd = s.rcvd \cup {msg.id} /\ r.session.clean = s.clean
         /\ msg.type = "PUBREL" => r.session.rcvd = s.rcvd \ {msg.id} /\ r.session.clean = s.clean
         /\ msg.type = "CONNECT" =>
              /\ r.session.clean => msg.id = 1
              /\ r.session.rcvd = s.rcvd \/ (r.session.rcvd = {} /\ (msg.id = 1 \/ s.clean))
<1>0. DOMAIN s = {"clean", "rcvd", "out"}
  BY DEF ServerType
<1>1. CASE msg.type = "CONNECT"
  <2> DEFINE kept == IF msg.id = 1 \/ s.clean THEN [NoSession EXCEPT !.clean = (msg.id = 1)] ELSE s
  <2>1. r.session = kept
    BY <1>1 DEF ServerReply, Reply
  <2>2. CASE msg.id = 1 \/ s.clean
    BY <1>1, <2>1, <2>2 DEF NoSession, IsQos2
  <2>3. CASE ~(msg.id = 1 \/ s.clean)
    BY <1>1, <2>1, <2>3 DEF IsQos2
  <2>. QED  BY <2>2, <2>3
<1>2. CASE msg.type = "PUBREL"
  BY <1>0, <1>2 DEF ServerReply, Reply, IsQos2
<1>3. CASE IsQos2(msg)
  <2>1. r.session = [s EXCEPT !.rcvd = @ \cup {msg.id}]
    BY <1>3 DEF ServerReply, Reply, IsQos2
  <2>. QED  BY <1>0, <1>3, <2>1 DEF IsQos2
<1>4. CASE msg.type \notin {"CONNECT", "PUBREL"} /\ ~IsQos2(msg)
  <2>1. r.session = s \/ r.session = [s EXCEPT !.out = Finished(@, msg.id)] \/ r.session = [s EXCEPT !.out = Released(@, msg.id)]
    <3>1. CASE msg.type = "PUBLISH" /\ msg.qos = 1
      BY <3>1 DEF ServerReply, Reply
    <3>2. CASE msg.type \in {"SUBSCRIBE", "UNSUBSCRIBE", "PINGREQ"}
      BY <3>2 DEF ServerReply, Reply
    <3>3. CASE msg.type \in {"PUBACK", "PUBCOMP"}
      BY <3>3 DEF ServerReply, Reply
    <3>4. CASE msg.type = "PUBREC"
      BY <3>4 DEF ServerReply, Reply
    <3>5. CASE /\ msg.type \notin {"SUBSCRIBE", "UNSUBSCRIBE", "PINGREQ", "PUBACK", "PUBCOMP", "PUBREC"}
               /\ ~(msg.type = "PUBLISH" /\ msg.qos = 1)
      BY <1>4, <3>5 DEF ServerReply, Reply, IsQos2
    <3>. QED  BY <3>1, <3>2, <3>3, <3>4, <3>5
  <2>. QED  BY <1>0, <1>4, <2>1
<1>. QED  BY <1>1, <1>2, <1>3, <1>4

\* What a packet has in common with a packet of the wait list
LEMMA SameWaiting ==
  ASSUME TypeOK, Once, NEW m \in Waiting, NEW w \in Waiting, m.id = w.id \/ m.body = w.body
  PROVE  m = w
<1>1. PICK p \in Items(ctx.qos_ack1_wl) : m = ctx.mqp[p]
  BY DEF Waiting
<1>2. PICK q \in Items(ctx.qos_ack1_wl) : w = ctx.mqp[q]
  BY DEF Waiting
<1>. QED  BY <1>1, <1>2 DEF Once, Fresh

\* What the server's reading of a packet leaves as it is
LEMMA RecvParts ==
  ASSUME IInv, IInv', Once, ServerRecv, NEW msg, msg = Head(ctx.tx)
  PROVE  /\ TypeOK /\ Counted /\ link # "none" /\ ctx.tx # <<>> /\ msg \in AnyMsg /\ msg \in Up
         /\ server \in ServerType
         /\ SameBut(ctx, ctx', {"tx"}) /\ ctx'.tx = Tail(ctx.tx) /\ Up' \subseteq Up
         /\ (Len(ctx.tx) = 1 => ctx'.tx = <<>>)
         /\ app' = app /\ count' = count /\ owed' = owed
         /\ server' = ServerReply(server, msg).session
         /\ down' = down \o ServerReply(server, msg).msgs
         /\ link' = IF msg.type = "CONNECT" THEN "session" ELSE IF msg.type = "DISCONNECT" THEN "none" ELSE link
         /\ Waiting' = Waiting /\ SameSession' = SameSession
<1>1. /\ TypeOK /\ Counted /\ link # "none" /\ ctx.tx # <<>> /\ ctx.tx \in Seq(AnyMsg)
      /\ DOMAIN ctx = CtxFields /\ server \in ServerType
  BY DEF IInv, TypeOK, IsCtx, ServerRecv, Once, ServerType
<1>2. /\ ctx' = [ctx EXCEPT !.tx = Tail(@)] /\ app' = app /\ count' = count /\ owed' = owed
      /\ server' = ServerReply(server, msg).session
      /\ down' = down \o ServerReply(server, msg).msgs
      /\ link' = CASE msg.type = "CONNECT" -> "session" [] msg.type = "DISCONNECT" -> "none" [] OTHER -> link
  BY DEF ServerRecv
<1>3. SameBut(ctx, ctx', {"tx"}) /\ ctx'.tx = Tail(ctx.tx)
  BY <1>1, <1>2 DEF SameBut, CtxFields
<1>4. Items(ctx.tx) = {ctx.tx[1]} \cup Items(Tail(ctx.tx)) /\ msg \in AnyMsg /\ msg = ctx.tx[1]
  BY <1>1, HeadTail
<1>5. Up' \subseteq Up /\ msg \in Up /\ (Len(ctx.tx) = 1 => ctx'.tx = <<>>)
  BY <1>1, <1>3, TailUp
<1>6. Waiting' = Waiting /\ SameSession' = SameSession
  BY <1>3 DEF SameBut, CtxFields, Waiting, SameSession
<1>. QED  BY <1>1, <1>2, <1>3, <1>4, <1>5, <1>6

\* What holds again after the server has read a packet, whatever it was
LEMMA RecvKeeps ==
  ASSUME IInv, IInv', Once, ServerRecv, published' \in [1..MaxMessages -> [n : Nat, qos : Nat]],
         \A b \in 1..MaxMessages : published[b].n > 0 => published'[b].n > 0
  PROVE  /\ Counted' /\ NextBody' = NextBody /\ NextId' = NextId /\ Retired' /\ ConnectFirst' /\ OwedOK'
<1> DEFINE msg == Head(ctx.tx)
<1>0. /\ TypeOK /\ Counted /\ link # "none" /\ ctx.tx # <<>> /\ msg \in AnyMsg /\ msg \in Up
      /\ server \in ServerType
      /\ SameBut(ctx, ctx', {"tx"}) /\ ctx'.tx = Tail(ctx.tx) /\ Up' \subseteq Up
      /\ (Len(ctx.tx) = 1 => ctx'.tx = <<>>)
      /\ app' = app /\ count' = count /\ owed' = owed
      /\ server' = ServerReply(server, msg).session
      /\ down' = down \o ServerReply(server, msg).msgs
      /\ link' = IF msg.type = "CONNECT" THEN "session" ELSE IF msg.type = "DISCONNECT" THEN "none" ELSE link
      /\ Waiting' = Waiting /\ SameSession' = SameSession
  BY RecvParts
<1> HIDE DEF msg
<1>1. /\ ctx'.flags = ctx.flags /\ ctx'.qos_ack1_wl = ctx.qos_ack1_wl /\ ctx'.qos2_tx_cq = ctx.qos2_tx_cq
      /\ ctx'.msg_id = ctx.msg_id /\ ctx'.mqp = ctx.mqp
  BY <1>0 DEF SameBut, CtxFields
<1>2. Counted' /\ NextBody' = NextBody /\ NextId' = NextId
  BY <1>0, <1>1, SameApp
<1>3. Retired'
  <2>1. PubrelIds' \subseteq PubrelIds
    BY <1>0, <1>1 DEF PubrelIds
  <2>. QED  BY <1>0, <1>2, <2>1 DEF Once, Retired
<1>4. server'.clean => "CLEAN_SESSION" \in ctx.flags
  <2>1. (msg.type # "CONNECT" => server'.clean = server.clean)
        /\ (msg.type = "CONNECT" => (server'.clean => msg.id = 1))
    BY <1>0, ReplySession
  <2>. QED  BY <1>0, <2>1 DEF Once, ConnectFirst
<1>5. ConnectFirst'
  <2>1. "NOW_CONNECTED" \notin ctx.flags => ctx'.tx = <<>>
    BY <1>0 DEF Once, ConnectFirst
  <2>2. ~(app.pc = "sending" /\ app.call = ConnectCall)
    BY <1>0 DEF Once, ConnectFirst
  <2>3. "NOW_CONNECTED" \in ctx.flags => \A m \in Up' : m.type # "CONNECT"
    BY <1>0 DEF Once, ConnectFirst
  <2>4. app.pc \in {"composed", "sending"} /\ app.call = ConnectCall /\ app.msg.id = 1 => app.clean
    BY DEF Once, ConnectFirst
  <2>5. \A m \in Up' : m.type = "CONNECT" /\ m.id = 1 => "CLEAN_SESSION" \in ctx.flags
    BY <1>0 DEF Once, ConnectFirst
  <2>. QED  BY <1>0, <1>1, <1>4, <2>1, <2>2, <2>3, <2>4, <2>5 DEF ConnectFirst
<1>6. OwedOK'
  BY <1>0 DEF Once, OwedOK
<1>. QED  BY <1>2, <1>3, <1>5, <1>6

\* What the server answers, and what it may be for
LEMMA RecvAnswers ==
  ASSUME IInv, IInv', Once, ServerRecv, NEW msg, msg = Head(ctx.tx),
         NEW a \in Items(down'), a.type \in {"PUBACK", "PUBREC"}
  PROVE  a \in Items(down) \/ (msg \in ReqMsgs /\ msg.type = "PUBLISH" /\ a.id = msg.id)
<1>0. /\ TypeOK /\ msg \in AnyMsg /\ server \in ServerType /\ down \in Seq(AnyMsg)
      /\ down' = down \o ServerReply(server, msg).msgs
  <2>1. /\ TypeOK /\ Counted /\ link # "none" /\ ctx.tx # <<>> /\ msg \in AnyMsg /\ msg \in Up
        /\ server \in ServerType
        /\ SameBut(ctx, ctx', {"tx"}) /\ ctx'.tx = Tail(ctx.tx) /\ Up' \subseteq Up
        /\ (Len(ctx.tx) = 1 => ctx'.tx = <<>>)
        /\ app' = app /\ count' = count /\ owed' = owed
        /\ server' = ServerReply(server, msg).session
        /\ down' = down \o ServerReply(server, msg).msgs
        /\ link' = IF msg.type = "CONNECT" THEN "session" ELSE IF msg.type = "DISCONNECT" THEN "none" ELSE link
        /\ Waiting' = Waiting /\ SameSession' = SameSession
    BY RecvParts
  <2>. QED  BY <2>1 DEF TypeOK
<1> DEFINE r == ServerReply(server, msg)
<1>1. CASE msg \in ReqMsgs
  <2>1. r.msgs \in Seq(AnyMsg) /\ \E x \in AckMsgs : r.msgs = <<x>> /\ x.id = msg.id /\ x.type = AckType(msg)
    BY <1>0, <1>1, RequestReply DEF IsReply
  <2> HIDE DEF r
  <2>2. PICK x \in AckMsgs : r.msgs = <<x>> /\ x.id = msg.id /\ x.type = AckType(msg)
    BY <2>1
  <2>3. a \in Items(down) \/ a \in Items(r.msgs)
    BY <1>0, <2>1, JoinedItems DEF r
  <2>4. Items(<<x>>) = {x}
    BY DEF Items
  <2>5. a \in Items(down) \/ a = x
    BY <2>2, <2>3, <2>4
  <2>6. x.type \in {"PUBACK", "PUBREC"} => msg.type = "PUBLISH"
    BY <1>1, <2>2 DEF AckType, ReqMsgs
  <2>. QED  BY <1>1, <2>2, <2>5, <2>6
<1>2. CASE msg \notin ReqMsgs
  <2>1. r.msgs \in Seq(AnyMsg) /\ \A i \in DOMAIN r.msgs : r.msgs[i] \notin AckMsgs
    BY <1>0, <1>2, OtherReply DEF IsReply, NoAcks
  <2> HIDE DEF r
  <2>2. a \in Items(down) \/ a \in Items(r.msgs)
    BY <1>0, <2>1, JoinedItems DEF r
  <2>3. a \in Items(r.msgs) => a \in AnyMsg /\ a \notin AckMsgs
    BY <2>1 DEF Items
  <2>4. a \in AnyMsg => a \in AckMsgs
    BY DEF AnyMsg, AckMsgs
  <2>. QED  BY <2>2, <2>3, <2>4
<1>. QED  BY <1>1, <1>2

\* The server reads a packet that is no message.
LEMMA RecvOtherOnce ==
  ASSUME IInv, IInv', Once, ServerRecv, Head(ctx.tx).type # "PUBLISH"
  PROVE  Once'
<1> DEFINE msg == Head(ctx.tx)
<1>0. /\ TypeOK /\ Counted /\ link # "none" /\ ctx.tx # <<>> /\ msg \in AnyMsg /\ msg \in Up
      /\ server \in ServerType
      /\ SameBut(ctx, ctx', {"tx"}) /\ ctx'.tx = Tail(ctx.tx) /\ Up' \subseteq Up
      /\ (Len(ctx.tx) = 1 => ctx'.tx = <<>>)
      /\ app' = app /\ count' = count /\ owed' = owed
      /\ server' = ServerReply(server, msg).session
      /\ down' = down \o ServerReply(server, msg).msgs
      /\ link' = IF msg.type = "CONNECT" THEN "session" ELSE IF msg.type = "DISCONNECT" THEN "none" ELSE link
      /\ Waiting' = Waiting /\ SameSession' = SameSession
  BY RecvParts
<1>1. published' = published /\ msg.type # "PUBLISH"
  BY DEF ServerRecv
<1>2. published \in [1..MaxMessages -> [n : Nat, qos : Nat]]
  BY <1>0 DEF Counted
<1>3. Counted' /\ NextBody' = NextBody /\ NextId' = NextId /\ Retired' /\ ConnectFirst' /\ OwedOK'
  BY <1>1, <1>2, RecvKeeps
<1>4. \A a \in Items(down') : a.type \in {"PUBACK", "PUBREC"} => a \in Items(down)
  BY <1>1, RecvAnswers
<1> HIDE DEF msg
<1>5. /\ msg.type # "PUBREL" /\ msg.type # "CONNECT" => server'.rcvd = server.rcvd
      /\ msg.type = "PUBREL" => server'.rcvd = server.rcvd \ {msg.id}
      /\ msg.type = "CONNECT" =>
           server'.rcvd = server.rcvd \/ (server'.rcvd = {} /\ (msg.id = 1 \/ server.clean))
  BY <1>0, <1>1, ReplySession DEF IsQos2
<1>6. server'.rcvd \subseteq server.rcvd
  BY <1>5
<1>7. SameSession => \A m \in Waiting : m.id \in server.rcvd => m.id \in server'.rcvd
  <2>1. CASE msg.type = "PUBREL"
    <3>1. msg.id \in PubrelIds
      BY <1>0, <2>1 DEF PubrelIds
    <3>. QED  BY <1>5, <2>1, <3>1 DEF Once, Retired
  <2>2. CASE msg.type = "CONNECT"
    <3>1. "NOW_CONNECTED" \notin ctx.flags
      BY <1>0, <2>2 DEF Once, ConnectFirst
    <3>2. msg.id = 1 \/ server.clean => "CLEAN_SESSION" \in ctx.flags
      BY <1>0, <2>2 DEF Once, ConnectFirst
    <3>. QED  BY <1>5, <2>2, <3>1, <3>2 DEF SameSession
  <2>3. CASE msg.type # "PUBREL" /\ msg.type # "CONNECT"
    BY <1>5, <2>3
  <2>. QED  BY <2>1, <2>2, <2>3
<1>8. SameSession' => SameSession /\ \A m \in Waiting' : m.id \in server.rcvd => m.id \in server'.rcvd
  BY <1>0, <1>7
<1>9. NextBody <= NextBody' /\ NextId <= NextId'
  BY <1>0, <1>3, NextNat
<1>10. Items(ctx'.qos_ack1_wl) \subseteq Items(ctx.qos_ack1_wl) /\ Kept(ctx, ctx', {})
  BY <1>0 DEF SameBut, CtxFields, Kept
<1>11. \A m \in Up' : IsQos0(m) => m \in Up
  BY <1>0
<1>. QED  BY <1>1, <1>3, <1>4, <1>6, <1>8, <1>9, <1>10, <1>11, Quiet

\* The server reads a message: it is given to the subscribers unless its id is
\* known.
LEMMA RecvPublishOnce ==
  ASSUME IInv, IInv', Once, ServerRecv, Head(ctx.tx).type = "PUBLISH"
  PROVE  Once'
<1> DEFINE msg == Head(ctx.tx)
           new == msg.qos = 2 => msg.id \notin server.rcvd
<1>0. /\ TypeOK /\ Counted /\ link # "none" /\ ctx.tx # <<>> /\ msg \in AnyMsg /\ msg \in Up
      /\ server \in ServerType
      /\ SameBut(ctx, ctx', {"tx"}) /\ ctx'.tx = Tail(ctx.tx) /\ Up' \subseteq Up
      /\ (Len(ctx.tx) = 1 => ctx'.tx = <<>>)
      /\ app' = app /\ count' = count /\ owed' = owed
      /\ server' = ServerReply(server, msg).session
      /\ down' = down \o ServerReply(server, msg).msgs
      /\ link' = IF msg.type = "CONNECT" THEN "session" ELSE IF msg.type = "DISCONNECT" THEN "none" ELSE link
      /\ Waiting' = Waiting /\ SameSession' = SameSession
  BY RecvParts
<1>1. /\ published' = IF new THEN [published EXCEPT ![msg.body] = [n |-> @.n + 1, qos |-> msg.qos]] ELSE published
      /\ msg.type = "PUBLISH"
  BY DEF ServerRecv
<1>2. published \in [1..MaxMessages -> [n : Nat, qos : Nat]] /\ MaxMessages \in Nat
  BY <1>0, SlMqttAssumption DEF Counted
<1> HIDE DEF msg
<1>3. /\ msg.id \in Nat /\ msg.body \in Nat /\ msg.qos \in 0..2
      /\ Waiting \subseteq AnyMsg /\ \A w \in Waiting : w.body \in Nat /\ w.id \in Nat
  BY <1>0, WaitingTyped DEF AnyMsg
<1>4. /\ NextBody \in Nat /\ NextBody <= MaxMessages + 1 /\ NextId \in Nat
  BY <1>0, NextNat
<1>5. msg.qos > 0 => msg \in ReqMsgs
  BY <1>0, <1>1, <1>3 DEF AnyMsg, ReqMsgs
<1>6. msg.qos > 0 => msg \in Waiting /\ "NOW_CONNECTED" \in ctx.flags
  BY <1>0, <1>5, ReqInList
<1>7. msg.qos = 0 => IsQos0(msg)
  BY <1>1 DEF IsQos0
<1>8. msg.body > 0 /\ msg.body < NextBody
  BY <1>0, <1>3, <1>6, <1>7 DEF Once, Fresh
<1>9. msg.body \in 1..MaxMessages
  BY <1>2, <1>3, <1>4, <1>8
<1>10. \A w \in Waiting : w.body = msg.body => msg.qos > 0 /\ w = msg
  <2>1. CASE msg.qos = 0
    BY <1>0, <1>7, <2>1 DEF Once, Fresh
  <2>2. CASE msg.qos > 0
    BY <1>0, <1>6, <2>2, SameWaiting
  <2>. QED  BY <1>3, <2>1, <2>2
<1>11. \A w \in Waiting : w.type = "PUBLISH" => w.qos > 0 /\ w \in ReqMsgs
  <2>1. \A w \in Waiting : w \in ReqMsgs
    BY DEF IInv, ListOK, Waiting
  <2>. QED  BY <2>1 DEF ReqMsgs
<1>12. msg.qos = 2 => (msg.id \in server.rcvd <=> Given(msg))
  <2> HAVE msg.qos = 2
  <2>1. IsQos2(msg) /\ msg \in Waiting /\ SameSession
    BY <1>1, <1>6 DEF IsQos2, SameSession
  <2>. QED  BY <2>1 DEF Once, Recorded
<1>13. /\ published' \in [1..MaxMessages -> [n : Nat, qos : Nat]]
       /\ \A b \in 1..MaxMessages : b # msg.body => published'[b] = published[b]
       /\ new => published'[msg.body].n = published[msg.body].n + 1 /\ published'[msg.body].qos = msg.qos
       /\ ~new => published' = published
  <2>1. published[msg.body] \in [n : Nat, qos : Nat]
    BY <1>2, <1>9
  <2>2. CASE new
    <3>1. [n |-> published[msg.body].n + 1, qos |-> msg.qos] \in [n : Nat, qos : Nat]
      BY <1>3, <2>1
    <3>. QED  BY <1>1, <1>2, <1>9, <2>2, <3>1
  <2>3. CASE ~new
    BY <1>1, <1>2, <2>3
  <2>. QED  BY <2>2, <2>3
<1>14. \A b \in 1..MaxMessages : published[b].n \in Nat
  BY <1>2
<1> HIDE DEF new
<1>15. new <=> (msg.qos = 2 => msg.id \notin server.rcvd)
  BY DEF new
<1>16. \A b \in 1..MaxMessages : published'[b].n > 0 <=> (published[b].n > 0 \/ b = msg.body)
  <2>1. published'[msg.body].n > 0
    <3>1. CASE new
      BY <1>9, <1>13, <1>14, <3>1
    <3>2. CASE ~new
      BY <1>12, <1>13, <1>15, <3>2 DEF Given
    <3>. QED  BY <3>1, <3>2
  <2>. QED  BY <1>9, <1>13, <2>1
<1>17. Counted' /\ NextBody' = NextBody /\ NextId' = NextId /\ Retired' /\ ConnectFirst' /\ OwedOK'
  BY <1>13, <1>16, RecvKeeps
<1>18. /\ msg.qos = 2 => server'.rcvd = server.rcvd \cup {msg.id}
       /\ msg.qos # 2 => server'.rcvd = server.rcvd
  BY <1>0, <1>1, ReplySession DEF IsQos2
<1>19. \A w \in Waiting : (Given(w)' <=> (Given(w) \/ w = msg))
  <2> SUFFICES ASSUME NEW w \in Waiting PROVE Given(w)' <=> (Given(w) \/ w = msg)
    OBVIOUS
  <2>1. w.body \in 1..MaxMessages
    BY <1>2, <1>3, <1>4 DEF Once, Fresh
  <2>2. w.body = msg.body <=> w = msg
    BY <1>10
  <2>. QED  BY <1>16, <2>1, <2>2 DEF Given
<1>20. Fresh'
  <2>1. ctx'.qos_ack1_wl = ctx.qos_ack1_wl /\ ctx'.mqp = ctx.mqp
    BY <1>0 DEF SameBut, CtxFields
  <2>2. \A id \in server'.rcvd : id < NextId'
    BY <1>6, <1>17, <1>18 DEF Once, Fresh
  <2>3. DOMAIN published' = 1..MaxMessages /\ DOMAIN published = 1..MaxMessages
    BY <1>2, <1>13
  <2>4. \A b \in DOMAIN published' : published'[b].n > 0 => b < NextBody'
    BY <1>8, <1>16, <1>17, <2>3 DEF Once, Fresh
  <2>5. \A m \in Up' : IsQos0(m) => m.body > 0 /\ m.body < NextBody' /\ \A w \in Waiting' : w.body # m.body
    BY <1>0, <1>17 DEF Once, Fresh
  <2>6. \A m \in Waiting' : m.id > 0 /\ m.id < NextId' /\ m.body > 0 /\ m.body < NextBody'
    BY <1>0, <1>17 DEF Once, Fresh
  <2>7. \A p, q \in Items(ctx'.qos_ack1_wl) : p # q =>
          ctx'.mqp[p].id # ctx'.mqp[q].id /\ ctx'.mqp[p].body # ctx'.mqp[q].body
    BY <2>1 DEF Once, Fresh
  <2>. QED  BY <2>2, <2>4, <2>5, <2>6, <2>7 DEF Fresh
<1>21. Recorded'
  <2>1. SameSession' => \A m \in Waiting' : IsQos2(m) /\ Given(m)' => m.id \in server'.rcvd
    <3> SUFFICES ASSUME SameSession, NEW m \in Waiting, IsQos2(m), Given(m)' PROVE m.id \in server'.rcvd
      BY <1>0
    <3>1. CASE m = msg
      BY <1>18, <3>1 DEF IsQos2
    <3>2. CASE Given(m)
      BY <1>18, <3>2 DEF Once, Recorded
    <3>. QED  BY <1>19, <3>1, <3>2
  <2>2. \A m \in Waiting' : IsQos2(m) /\ m.id \in server'.rcvd => Given(m)'
    <3> SUFFICES ASSUME NEW m \in Waiting, IsQos2(m), m.id \in server'.rcvd PROVE Given(m)'
      BY <1>0
    <3>1. CASE m.id \in server.rcvd
      BY <1>19, <3>1 DEF Once, Recorded
    <3>2. CASE m.id \notin server.rcvd
      <4>1. msg.qos = 2 /\ m.id = msg.id
        BY <1>18, <3>2
      <4>2. m = msg
        BY <1>0, <1>6, <4>1, SameWaiting
      <4>. QED  BY <1>19, <4>2
    <3>. QED  BY <3>1, <3>2
  <2>3. \A a \in Items(down'), m \in Waiting' :
          a.type \in {"PUBACK", "PUBREC"} /\ a.id = m.id /\ m.type = "PUBLISH" => Given(m)'
    <3> SUFFICES ASSUME NEW a \in Items(down'), NEW m \in Waiting,
                        a.type \in {"PUBACK", "PUBREC"}, a.id = m.id, m.type = "PUBLISH"
                 PROVE  Given(m)'
      BY <1>0
    <3>1. CASE a \in Items(down)
      BY <1>19, <3>1 DEF Once, Recorded
    <3>2. CASE a \notin Items(down)
      <4>1. msg \in ReqMsgs /\ a.id = msg.id
        BY <3>2, RecvAnswers DEF msg
      <4>2. msg \in Waiting
        BY <1>0, <4>1, ReqInList
      <4>3. m = msg
        BY <1>0, <4>1, <4>2, SameWaiting
      <4>. QED  BY <1>19, <4>3
    <3>. QED  BY <3>1, <3>2
  <2>. QED  BY <2>1, <2>2, <2>3 DEF Recorded, IsQos2
<1>22. ServerGetsOnce'
  <2>1. DOMAIN published' = 1..MaxMessages /\ DOMAIN published = 1..MaxMessages
    BY <1>2, <1>13
  <2> SUFFICES ASSUME NEW b \in 1..MaxMessages, published'[b].qos = 2 PROVE published'[b].n <= 1
    BY <2>1 DEF ServerGetsOnce
  <2>2. CASE b = msg.body /\ new
    <3>1. msg.qos = 2 /\ ~Given(msg)
      BY <1>12, <1>13, <1>15, <2>2
    <3>2. published[b].n = 0
      BY <1>14, <2>2, <3>1 DEF Given
    <3>. QED  BY <1>13, <2>2, <3>2
  <2>3. CASE ~(b = msg.body /\ new)
    BY <1>13, <2>1, <2>3 DEF Once, ServerGetsOnce
  <2>. QED  BY <2>2, <2>3
<1>. QED  BY <1>17, <1>20, <1>21, <1>22 DEF Once

\* The server reads a packet.
LEMMA ServerRecvOnce ==
  ASSUME IInv, IInv', Once, ServerRecv
  PROVE  Once'
BY RecvOtherOnce, RecvPublishOnce

-----------------------------------------------------------------------------
\* An id that no packet of the list of d has and no later one will get
RetiredIn(d, id) == id < NextId /\ \A p \in Items(d.qos_ack1_wl) : ctx.mqp[p].id # id

\* A packet the receive task sends: no message at most once, no CONNECT, and
\* PUBREL only for what left the list.
MaySendNow(d, m) ==
  m.type # "CONNECT" /\ ~IsQos0(m) /\ (m.type = "PUBREL" => RetiredIn(d, m.id))

\* What the receive task does to the context before a closing
RxChange(d) ==
  /\ Items(d.qos_ack1_wl) \subseteq Items(ctx.qos_ack1_wl) /\ Kept(ctx, d, {})
  /\ d.msg_id = ctx.msg_id
  /\ "CLEAN_SESSION" \in d.flags <=> "CLEAN_SESSION" \in ctx.flags
  /\ \A i \in 0..LastIdx : RetiredIn(d, d.qos2_tx_cq.id_vec[i])
  /\ \A m \in Items(d.tx) : m \in Items(ctx.tx) \/ MaySendNow(d, m)
  /\ "NOW_CONNECTED" \in ctx.flags => "NOW_CONNECTED" \in d.flags
  /\ "NOW_CONNECTED" \notin d.flags => d.tx = ctx.tx
  /\ "NOW_CONNECTED" \in d.flags /\ link # "none" => \A m \in Items(d.tx) : m.type # "CONNECT"
  /\ "NOW_CONNECTED" \in d.flags => Items(d.qos_ack1_wl) = {} \/ SameSession

\* Messages that left the list are with the server.
LeftGiven(d) ==
  \A p \in Items(ctx.qos_ack1_wl) \ Items(d.qos_ack1_wl) :
    ctx.mqp[p].type = "PUBLISH" => Given(ctx.mqp[p])

\* What left the list is with the server, so what is owed is there or in the list.
LEMMA OwedAgain ==
  ASSUME TypeOK, Once, published' = published, LeftGiven(ctx'), Kept(ctx, ctx', {}), owed' \subseteq owed
  PROVE  OwedOK'
<1> SUFFICES ASSUME NEW b \in owed'
             PROVE  b \in 1..MaxMessages /\ (published[b].n > 0 \/ \E m \in Waiting' : m.type = "PUBLISH" /\ m.body = b)
  BY DEF OwedOK
<1>1. b \in 1..MaxMessages /\ (published[b].n > 0 \/ \E m \in Waiting : m.type = "PUBLISH" /\ m.body = b)
  BY DEF Once, OwedOK
<1>2. ASSUME NEW m \in Waiting, m.type = "PUBLISH", m.body = b
      PROVE  published[b].n > 0 \/ m \in Waiting'
  <2>1. PICK p \in Items(ctx.qos_ack1_wl) : m = ctx.mqp[p]
    BY DEF Waiting
  <2>2. CASE p \in Items(ctx'.qos_ack1_wl)
    BY <2>1, <2>2 DEF Waiting, Kept
  <2>3. CASE p \notin Items(ctx'.qos_ack1_wl)
    BY <1>2, <2>1, <2>3 DEF LeftGiven, Given
  <2>. QED  BY <2>2, <2>3
<1>. QED  BY <1>1, <1>2

\* A step of the receive task that keeps the connection
LEMMA ChangeOnce ==
  ASSUME IInv, IInv', Once, RxChange(ctx'), UNCHANGED <<app, link, server, published>>,
         count'.requests = count.requests, Items(down') \subseteq Items(down),
         owed' \subseteq owed, owed' = {} \/ LeftGiven(ctx'),
         ~(app.pc = "sending" /\ app.call = ConnectCall)
  PROVE  Once'
<1>1. TypeOK /\ Counted /\ published \in [1..MaxMessages -> [n : Nat, qos : Nat]]
  BY DEF IInv, Once, Counted
<1>2. /\ Counted' /\ NextBody' = NextBody /\ NextId' = NextId /\ NextBody <= NextBody' /\ NextId <= NextId'
  BY <1>1, SameApp DEF RxChange
<1>3. Items(ctx'.qos_ack1_wl) \subseteq Items(ctx.qos_ack1_wl) /\ Kept(ctx, ctx', {})
  BY DEF RxChange
<1>4. OwedOK'
  <2>1. owed' = {} => OwedOK'
    BY DEF OwedOK
  <2>. QED  BY <1>1, <1>3, <2>1, OwedAgain
<1>5. \A m \in Up' : m \in Up \/ MaySendNow(ctx', m)
  BY DEF Up, RxChange
<1>6. \A id : RetiredIn(ctx', id) => id < NextId' /\ \A m \in Waiting' : m.id # id
  BY <1>2, <1>3 DEF RetiredIn, Waiting, Kept
<1>7. Waiting' \subseteq Waiting
  BY <1>3 DEF Waiting, Kept
<1>8. Retired'
  <2> SUFFICES ASSUME NEW id \in PubrelIds' PROVE id < NextId' /\ \A m \in Waiting' : m.id # id
    BY DEF Retired
  <2>1. CASE id \in {ctx'.qos2_tx_cq.id_vec[i] : i \in 0..LastIdx}
    BY <1>6, <2>1 DEF RxChange
  <2>2. CASE id \notin {ctx'.qos2_tx_cq.id_vec[i] : i \in 0..LastIdx}
    <3>1. PICK m \in Up' : m.type = "PUBREL" /\ id = m.id
      BY <2>2 DEF PubrelIds
    <3>2. CASE m \in Up
      <4>1. id \in PubrelIds
        BY <3>1, <3>2 DEF PubrelIds
      <4>. QED  BY <1>2, <1>7, <4>1 DEF Once, Retired
    <3>3. CASE m \notin Up
      BY <1>5, <1>6, <3>1, <3>3 DEF MaySendNow
    <3>. QED  BY <3>2, <3>3
  <2>. QED  BY <2>1, <2>2
<1>9. ConnectFirst'
  <2>1. link # "none" /\ "NOW_CONNECTED" \notin ctx'.flags =>
          \/ ctx'.tx = <<>>
          \/ link = "open" /\ Len(ctx'.tx) = 1 /\ ctx'.tx[1].type = "CONNECT"
    BY DEF Once, ConnectFirst, RxChange
  <2>2. "NOW_CONNECTED" \in ctx'.flags => \A m \in Up' : m.type # "CONNECT"
    BY DEF RxChange, Up
  <2>3. server.clean => "CLEAN_SESSION" \in ctx'.flags
    BY DEF Once, ConnectFirst, RxChange
  <2>4. \A m \in Up' : m.type = "CONNECT" /\ m.id = 1 => "CLEAN_SESSION" \in ctx'.flags
    BY <1>5 DEF Once, ConnectFirst, RxChange, MaySendNow
  <2>5. app.pc \in {"composed", "sending"} /\ app.call = ConnectCall /\ app.msg.id = 1 => app.clean
    BY DEF Once, ConnectFirst
  <2>. QED  BY <2>1, <2>2, <2>3, <2>4, <2>5 DEF ConnectFirst
<1>10. \A m \in Up' : IsQos0(m) => m \in Up
  BY <1>5 DEF MaySendNow
<1>11. SameSession' => \/ Items(ctx'.qos_ack1_wl) = {}
                       \/ SameSession /\ \A m \in Waiting' : m.id \in server.rcvd => m.id \in server'.rcvd
  BY DEF SameSession, RxChange
<1>. QED  BY <1>2, <1>3, <1>4, <1>8, <1>9, <1>10, <1>11, Quiet

\* The receive task closes the connection.
LEMMA CloseOnce ==
  ASSUME IInv, IInv', Once, NEW c, Sound(c), RxChange(c), LeftGiven(c), ctx' = do_net_close(c),
         link' = "none", down' = <<>>, UNCHANGED <<app, server, published>>, count'.requests = count.requests,
         owed' = IF c.net /\ "CLEAN_SESSION" \in c.flags THEN {} ELSE owed
  PROVE  Once'
<1>1. TypeOK /\ Counted /\ published \in [1..MaxMessages -> [n : Nat, qos : Nat]] /\ Handshake'
  BY DEF IInv, Once, Counted
<1>2. Ok(c, CallPacket) /\ c.net = ctx.net /\ ("NOW_CONNECTED" \in c.flags => c.net)
  BY DEF Sound
<1>3. /\ Ok(ctx', CallPacket) /\ Kept(c, ctx', CallPacket) /\ ctx'.rx_mqp = c.rx_mqp /\ ctx'.msg_id = c.msg_id
      /\ Items(ctx'.qos_ack1_wl) \subseteq Items(c.qos_ack1_wl)
      /\ "CLEAN_SESSION" \notin c.flags \/ ~c.net =>
           \A p \in Items(c.qos_ack1_wl) : c.mqp[p].type = "PUBLISH" => p \in Items(ctx'.qos_ack1_wl)
      /\ c.net => ~ctx'.net /\ ctx'.tx = <<>> /\ ctx'.flags = c.flags \ ClosedFlags
      /\ ~c.net => ctx' = c
  BY <1>2, NetClosed
<1>4. ctx'.qos2_tx_cq = c.qos2_tx_cq \/ ctx'.qos2_tx_cq = qos2_pub_cq_reset
  BY <1>2, ClosedTxQueue
<1>5. Items(ctx'.qos_ack1_wl) \subseteq Items(ctx.qos_ack1_wl) /\ Kept(ctx, ctx', {})
  BY <1>3 DEF RxChange, Kept
<1>6. Waiting' \subseteq Waiting
  BY <1>5 DEF Waiting, Kept
<1>7. /\ Counted' /\ NextBody' = NextBody /\ NextId' = NextId /\ NextBody <= NextBody' /\ NextId <= NextId'
  BY <1>1, <1>3, SameApp DEF RxChange
<1>8. Up' = {} /\ Items(down') = {}
  BY DEF Up, Items
<1>9. "CLEAN_SESSION" \in ctx'.flags <=> "CLEAN_SESSION" \in ctx.flags
  <2>1. "CLEAN_SESSION" \in ctx'.flags <=> "CLEAN_SESSION" \in c.flags
    BY <1>3 DEF ClosedFlags
  <2>. QED  BY <2>1 DEF RxChange
<1>10. "NOW_CONNECTED" \notin ctx'.flags
  BY <1>2, <1>3 DEF ClosedFlags
<1>11. OwedOK'
  <2>1. CASE owed' = {}
    BY <2>1 DEF OwedOK
  <2>2. CASE owed' # {}
    <3>1. owed' \subseteq owed
      BY <2>2
    <3>2. \A p \in Items(c.qos_ack1_wl) : c.mqp[p].type = "PUBLISH" => p \in Items(ctx'.qos_ack1_wl)
      BY <1>3, <2>2
    <3>3. \A p \in Items(c.qos_ack1_wl) : c.mqp[p] = ctx.mqp[p]
      BY DEF RxChange, Kept
    <3>4. LeftGiven(ctx')
      BY <3>2, <3>3 DEF LeftGiven
    <3>. QED  BY <1>1, <1>5, <3>1, <3>4, OwedAgain
  <2>. QED  BY <2>1, <2>2
<1>12. Retired'
  <2> SUFFICES ASSUME NEW id \in PubrelIds' PROVE id < NextId' /\ \A m \in Waiting' : m.id # id
    BY DEF Retired
  <2>1. PICK i \in 0..LastIdx : id = ctx'.qos2_tx_cq.id_vec[i]
    BY <1>8 DEF PubrelIds
  <2>2. CASE ctx'.qos2_tx_cq = c.qos2_tx_cq
    <3>1. RetiredIn(c, id)
      BY <2>1, <2>2 DEF RxChange
    <3>. QED  BY <1>3, <1>5, <1>7, <3>1 DEF RetiredIn, Waiting, Kept
  <2>3. CASE ctx'.qos2_tx_cq = qos2_pub_cq_reset
    <3>1. id = 0
      BY <2>1, <2>3 DEF qos2_pub_cq_reset, LastIdx
    <3>2. 0 < NextId'
      BY <1>1, <1>7, NextNat
    <3>3. \A m \in Waiting : m.id # 0
      BY DEF Once, Fresh
    <3>. QED  BY <1>6, <3>1, <3>2, <3>3
  <2>. QED  BY <1>4, <2>2, <2>3
<1>13. ConnectFirst'
  BY <1>8, <1>9 DEF Once, ConnectFirst
<1>14. SameSession' => SameSession
  BY <1>9, <1>10 DEF SameSession
<1>15. \A m \in Up' : IsQos0(m) => m \in Up
  BY <1>8
<1>16. \A a \in Items(down') : a.type \in {"PUBACK", "PUBREC"} => a \in Items(down)
  BY <1>8
<1>17. server'.rcvd = server.rcvd
  OBVIOUS
<1>18. SameSession' => \/ Items(ctx'.qos_ack1_wl) = {}
                       \/ SameSession /\ \A m \in Waiting' : m.id \in server.rcvd => m.id \in server'.rcvd
  BY <1>14, <1>17
<1>. QED  BY <1>5, <1>7, <1>11, <1>12, <1>13, <1>15, <1>16, <1>17, <1>18, Quiet

\* A context with the connection, the list and the queue of before
LEMMA SameChange ==
  ASSUME Once, NEW d, d.qos_ack1_wl = ctx.qos_ack1_wl, Kept(ctx, d, {}),
         d.msg_id = ctx.msg_id, d.qos2_tx_cq.id_vec = ctx.qos2_tx_cq.id_vec,
         "CLEAN_SESSION" \in d.flags <=> "CLEAN_SESSION" \in ctx.flags,
         "NOW_CONNECTED" \in d.flags <=> "NOW_CONNECTED" \in ctx.flags,
         \A m \in Items(d.tx) : m \in Items(ctx.tx) \/ (MaySendNow(d, m) /\ "NOW_CONNECTED" \in ctx.flags),
         "NOW_CONNECTED" \notin ctx.flags => d.tx = ctx.tx
  PROVE  RxChange(d) /\ LeftGiven(d)
<1>1. \A i \in 0..LastIdx : RetiredIn(d, d.qos2_tx_cq.id_vec[i])
  BY DEF Once, Retired, PubrelIds, RetiredIn, Waiting
<1>2. "NOW_CONNECTED" \in d.flags /\ link # "none" => \A m \in Items(d.tx) : m.type # "CONNECT"
  BY DEF Once, ConnectFirst, MaySendNow, Up
<1>3. "NOW_CONNECTED" \in d.flags => SameSession
  BY DEF SameSession
<1>. QED  BY <1>1, <1>2, <1>3 DEF RxChange, LeftGiven

\* The receive task closes the connection before it receives.
LEMMA RxCloseOnce ==
  ASSUME IInv, IInv', Once, RxClose \/ RxError \/ RxMisread \/ RxPingFails
  PROVE  Once'
<1>1. PICK c : /\ c = ctx \/ c = do_net_close_tx(ctx)
               /\ ctx' = do_net_close(c) /\ link' = "none" /\ down' = <<>>
               /\ UNCHANGED <<app, server, published, count>>
               /\ owed' = IF c.net /\ "CLEAN_SESSION" \in c.flags THEN {} ELSE owed
  BY DEF RxClose, RxError, RxMisread, RxPingFails, NetCloseRx, NetClose
<1>2. Sound(c) /\ SameBut(ctx, c, {"flags"}) /\ (c.flags = ctx.flags \/ c.flags = ctx.flags \cup {"NETWORK_CLOSE"})
  BY <1>1, ClosingSound
<1>3. c.qos_ack1_wl = ctx.qos_ack1_wl /\ c.mqp = ctx.mqp /\ c.msg_id = ctx.msg_id
      /\ c.qos2_tx_cq = ctx.qos2_tx_cq /\ c.tx = ctx.tx
  BY <1>2 DEF SameBut, CtxFields
<1>4. Kept(ctx, c, {})
  BY <1>3 DEF Kept
<1>5. RxChange(c) /\ LeftGiven(c)
  BY <1>2, <1>3, <1>4, SameChange
<1>6. count'.requests = count.requests
  BY <1>1
<1>. QED  BY <1>1, <1>2, <1>5, <1>6, CloseOnce

\* A PINGREQ is set up.
LEMMA RxPingOnce ==
  ASSUME IInv, IInv', Once, RxPing
  PROVE  Once'
<1>0. /\ Handshake /\ Ok(ctx, CallPacket) /\ "NOW_CONNECTED" \in ctx.flags
      /\ count \in [requests : Nat, connects : Nat, msgs : Nat, pings : Nat, drops : Nat]
  BY CtxOk DEF IInv, TypeOK, RxPing, MaySend, is_connected
<1>1. /\ ctx' = tx_part_setup(ctx, NULL) /\ count' = [count EXCEPT !.pings = @ + 1]
      /\ UNCHANGED <<app, link, down, server, owed, published>>
  BY DEF RxPing, serverVars, history
<1>2. SameBut(ctx, ctx', {"tx_mqp", "tx_part"})
  BY <1>0, <1>1, TxSetup
<1>3. /\ ctx'.qos_ack1_wl = ctx.qos_ack1_wl /\ ctx'.qos2_tx_cq = ctx.qos2_tx_cq /\ ctx'.mqp = ctx.mqp
      /\ ctx'.msg_id = ctx.msg_id /\ ctx'.tx = ctx.tx /\ ctx'.flags = ctx.flags
  BY <1>2 DEF SameBut, CtxFields
<1>4. Kept(ctx, ctx', {})
  BY <1>3 DEF Kept
<1>5. RxChange(ctx') /\ LeftGiven(ctx')
  BY <1>3, <1>4, SameChange
<1>6. ~(app.pc = "sending" /\ app.call = ConnectCall)
  BY <1>0 DEF Handshake
<1>7. count'.requests = count.requests
  BY <1>0, <1>1
<1>. QED  BY <1>1, <1>5, <1>6, <1>7, ChangeOnce

\* A PINGREQ is sent.
LEMMA RxPingSentOnce ==
  ASSUME IInv, IInv', Once, RxPingSent
  PROVE  Once'
<1> DEFINE m == VhMsg("PINGREQ", 0)
<1>0. /\ TypeOK /\ Handshake /\ Ok(ctx, CallPacket) /\ "NOW_CONNECTED" \in ctx.flags
      /\ ctx.tx \in Seq(AnyMsg)
  BY CtxOk DEF IInv, RxOK, TypeOK, IsCtx, RxPingSent
<1>1. /\ Kept(ctx, ctx', CallPacket)
      /\ SameBut(ctx, ctx', {"n_refs", "free_list", "mqp", "tx_mqp", "tx_part", "tx", "flags"})
      /\ ctx'.tx = Append(ctx.tx, m) /\ ctx'.flags = ctx.flags \cup {"KA_PINGER_RSP"}
      /\ m \in AnyMsg /\ m.type = "PINGREQ"
  BY <1>0, PingSent
<1>2. UNCHANGED <<app, link, down, server, count, owed, published>>
  BY DEF RxPingSent, serverVars, history
<1>3. /\ ctx'.qos_ack1_wl = ctx.qos_ack1_wl /\ ctx'.qos2_tx_cq = ctx.qos2_tx_cq /\ ctx'.msg_id = ctx.msg_id
  BY <1>1 DEF SameBut, CtxFields
<1>4. Kept(ctx, ctx', {})
  BY <1>1 DEF Kept
<1> HIDE DEF m
<1>5. \A x \in Items(ctx'.tx) : x \in Items(ctx.tx) \/ x = m
  BY <1>0, <1>1 DEF Items
<1>6. MaySendNow(ctx', m)
  BY <1>1 DEF MaySendNow, IsQos0
<1>7. RxChange(ctx') /\ LeftGiven(ctx')
  BY <1>0, <1>1, <1>3, <1>4, <1>5, <1>6, SameChange
<1>8. ~(app.pc = "sending" /\ app.call = ConnectCall)
  BY <1>0 DEF Handshake
<1>9. count'.requests = count.requests
  BY <1>2
<1>. QED  BY <1>2, <1>7, <1>8, <1>9, ChangeOnce

\* The receive task takes a packet from the pool, or gives it back.
LEMMA RxPacketOnce ==
  ASSUME IInv, IInv', Once, UNCHANGED <<app, link, down, server, count, published, owed>>,
         SameBut(ctx, ctx', {"n_refs", "free_list", "mqp", "rx_mqp"}), Kept(ctx, ctx', {})
  PROVE  Once'
<1>1. /\ ctx'.qos_ack1_wl = ctx.qos_ack1_wl /\ ctx'.qos2_tx_cq = ctx.qos2_tx_cq /\ ctx'.flags = ctx.flags
      /\ ctx'.msg_id = ctx.msg_id /\ ctx'.tx = ctx.tx
  BY DEF SameBut, CtxFields
<1>2. TypeOK /\ Counted /\ published \in [1..MaxMessages -> [n : Nat, qos : Nat]]
  BY DEF IInv, Once, Counted
<1>3. Counted' /\ NextBody <= NextBody' /\ NextId <= NextId'
  BY <1>1, <1>2, SameApp
<1>4. SameConnection
  BY <1>1 DEF SameConnection
<1>5. app.pc \in {"composed", "sending"} /\ app.call = ConnectCall /\ app.msg.id = 1 => app.clean
  BY DEF Once, ConnectFirst
<1>. QED  BY <1>3, <1>4, <1>5, SameConnectionOnce

\* The receive task takes a packet from the pool.
LEMMA RxAllocOnce ==
  ASSUME IInv, IInv', Once, RxAlloc
  PROVE  Once'
<1> DEFINE p   == Head(ctx.free_list)
           new == mqp_client_alloc(ctx, NoMsg)
<1>0. TypeOK /\ Ok(ctx, CallPacket) /\ DOMAIN ctx = CtxFields /\ Items(ctx.qos_ack1_wl) \subseteq Packets
  BY CtxOk, WaitingTyped DEF IInv, TypeOK, IsCtx
<1>1. UNCHANGED <<app, link, down, server, count, published, owed>>
  BY DEF RxAlloc, serverVars, history
<1>2. CASE ctx' = ctx
  BY <1>1, <1>2, SameOnce
<1>3. CASE ctx.free_list # <<>> /\ ctx' = [new EXCEPT !.rx_mqp = p]
  <2>1. NoMsg \in AnyMsg
    BY MsgTypes
  <2>2. /\ p \in Packets /\ p \notin Items(ctx.qos_ack1_wl) \cup CallPacket \cup {ctx.tx_mqp, ctx.rx_mqp}
        /\ IsCtx(new) /\ SameBut(ctx, new, {"n_refs", "free_list", "mqp"})
        /\ new.n_refs = [ctx.n_refs EXCEPT ![p] = 1] /\ new.free_list = Tail(ctx.free_list)
        /\ \A q \in Packets : new.mqp[q] = IF q = p THEN NoMsg ELSE ctx.mqp[q]
    BY <1>0, <1>3, <2>1, AllocCtx
  <2> HIDE DEF new, p
  <2>3. SameBut(new, ctx', {"rx_mqp"})
    BY <1>3, <2>2 DEF SameBut, CtxFields
  <2>4. SameBut(ctx, ctx', {"n_refs", "free_list", "mqp", "rx_mqp"}) /\ ctx'.mqp = new.mqp
        /\ ctx'.qos_ack1_wl = ctx.qos_ack1_wl
    BY <2>2, <2>3 DEF SameBut, CtxFields
  <2>5. Kept(ctx, ctx', {})
    BY <1>0, <2>2, <2>4 DEF Kept
  <2>. QED  BY <1>1, <2>4, <2>5, RxPacketOnce
<1>. QED  BY <1>2, <1>3 DEF RxAlloc

\* The receive times out.
LEMMA RxTimeoutOnce ==
  ASSUME IInv, IInv', Once, RxTimeout
  PROVE  Once'
<1>1. UNCHANGED <<app, link, down, server, count, published, owed>>
  BY DEF RxTimeout, serverVars, history
<1>2. Kept(ctx, ctx', CallPacket) /\ SameBut(ctx, ctx', {"mqp"})
  BY CtxOk, TimedOut DEF IInv
<1>3. Kept(ctx, ctx', {}) /\ SameBut(ctx, ctx', {"n_refs", "free_list", "mqp", "rx_mqp"})
  BY <1>2 DEF Kept, SameBut
<1>. QED  BY <1>1, <1>3, RxPacketOnce

\* The receive task gives its packet back.
LEMMA RxFreeOnce ==
  ASSUME IInv, IInv', Once, RxFree
  PROVE  Once'
<1> DEFINE p     == ctx.rx_mqp
           freed == mqp_free(ctx, p)
<1>0. /\ TypeOK /\ PoolInv /\ DOMAIN ctx = CtxFields /\ Items(ctx.qos_ack1_wl) \subseteq Packets
      /\ ctx.mqp \in [Packets -> AnyMsg]
  BY WaitingTyped DEF IInv, TypeOK, IsCtx
<1>1. UNCHANGED <<app, link, down, server, count, published, owed>> /\ ctx' = [freed EXCEPT !.rx_mqp = NULL]
  BY DEF RxFree, serverVars, history
<1>2. p \notin Items(ctx.qos_ack1_wl)
  BY <1>0 DEF PoolInv, PoolOK
<1>3. SameBut(ctx, freed, {"n_refs", "free_list", "mqp"}) /\ Kept(ctx, freed, {})
  BY <1>0, <1>2, FreeKeeps
<1> HIDE DEF freed
<1>4. SameBut(freed, ctx', {"rx_mqp"})
  BY <1>1, <1>3 DEF SameBut, CtxFields
<1>5. SameBut(ctx, ctx', {"n_refs", "free_list", "mqp", "rx_mqp"}) /\ ctx'.mqp = freed.mqp
      /\ ctx'.qos_ack1_wl = freed.qos_ack1_wl
  BY <1>3, <1>4 DEF SameBut, CtxFields
<1>6. Kept(ctx, ctx', {})
  BY <1>3, <1>5 DEF Kept
<1>. QED  BY <1>1, <1>5, <1>6, RxPacketOnce

-----------------------------------------------------------------------------
\* The acknowledgement that is read takes the head of the list, whose message
\* the server has.
LEMMA AckedChange ==
  ASSUME IInv, Once, down # <<>>, Head(down) \in AckMsgs,
         NEW d, d.qos_ack1_wl = Tail(ctx.qos_ack1_wl), Kept(ctx, d, {}), d.msg_id = ctx.msg_id,
         d.flags = ctx.flags, d.tx = ctx.tx,
         \A i \in 0..LastIdx : d.qos2_tx_cq.id_vec[i] \in {ctx.qos2_tx_cq.id_vec[i], Head(down).id}
  PROVE  RxChange(d) /\ LeftGiven(d) /\ RetiredIn(d, Head(down).id)
<1> DEFINE a == Head(down)
           wl == ctx.qos_ack1_wl
<1>0. TypeOK /\ down \in Seq(AnyMsg) /\ wl \in Seq(Packets) /\ InOrder(Acks, Reqs, wl, ctx.mqp)
      /\ NoRepeats(wl)
  BY DEF IInv, TypeOK, IsCtx, OrderOK, PoolInv, PoolOK
<1>1. wl # <<>> /\ a.id = ctx.mqp[wl[1]].id /\ "NOW_CONNECTED" \in ctx.flags
  BY FirstAck
<1>2. /\ wl[1] \in Items(wl) /\ Items(wl) = {wl[1]} \cup Items(Tail(wl)) /\ wl[1] \notin Items(Tail(wl))
  BY <1>0, <1>1, HeadTail
<1>3. a \in Items(down)
  <2>1. down[1] = a /\ Items(down) = {down[1]} \cup Items(Tail(down))
    BY <1>0, HeadTail
  <2>. QED  BY <2>1
<1>4. a.type = AckType(ctx.mqp[wl[1]])
  <2>1. Acks = <<a>> \o Sift(Tail(down), AckMsgs)
    BY <1>0, SiftTail DEF Acks
  <2>2. Sift(Tail(down), AckMsgs) \in Seq(AnyMsg)
    BY FirstAck
  <2>3. a \in AnyMsg
    BY <1>0
  <2> DEFINE t == Sift(Tail(down), AckMsgs)
  <2> HIDE DEF t, a
  <2>4. Acks[1] = a /\ 1 \in 1..Len(Acks)
    BY <2>1, <2>2, <2>3 DEF t
  <2>. QED  BY <1>0, <2>4 DEF InOrder
<1> HIDE DEF wl
<1>5. Items(d.qos_ack1_wl) \subseteq Items(wl) /\ d.qos_ack1_wl = Tail(wl)
  BY <1>2 DEF wl
<1>6. \A i \in 0..LastIdx : RetiredIn(d, ctx.qos2_tx_cq.id_vec[i])
  BY <1>5 DEF Once, Retired, PubrelIds, RetiredIn, Waiting, wl
<1>7. RetiredIn(d, a.id)
  <2>1. a.id < NextId
    BY <1>1, <1>2 DEF Once, Fresh, Waiting, wl
  <2>2. \A p \in Items(Tail(wl)) : ctx.mqp[p].id # a.id
    <3> TAKE p \in Items(Tail(wl))
    <3>1. p \in Items(wl) /\ p # wl[1]
      BY <1>2
    <3>. QED  BY <1>1, <1>2, <3>1 DEF Once, Fresh, wl
  <2>. QED  BY <1>5, <2>1, <2>2 DEF RetiredIn
<1>8. LeftGiven(d)
  <2>1. ASSUME ctx.mqp[wl[1]].type = "PUBLISH" PROVE Given(ctx.mqp[wl[1]])
    <3>1. a.type \in {"PUBACK", "PUBREC"}
      BY <1>4, <2>1 DEF AckType
    <3>2. ctx.mqp[wl[1]] \in Waiting
      BY <1>2 DEF Waiting, wl
    <3>. QED  BY <1>1, <1>3, <2>1, <3>1, <3>2 DEF Once, Recorded
  <2>2. \A p \in Items(wl) \ Items(d.qos_ack1_wl) : p = wl[1]
    BY <1>2, <1>5
  <2>. QED  BY <2>1, <2>2 DEF LeftGiven, wl
<1>9. link # "none" => \A m \in Items(ctx.tx) : m.type # "CONNECT"
  BY <1>1 DEF Once, ConnectFirst, Up
<1>10. SameSession
  BY <1>1 DEF SameSession
<1>11. RxChange(d)
  BY <1>1, <1>5, <1>6, <1>7, <1>9, <1>10 DEF RxChange, wl
<1>. QED  BY <1>7, <1>8, <1>11

\* What is not connected sends nothing.
LEMMA NoAnswer ==
  ASSUME NEW c, NEW t, NEW id, NEW d, Answered(c, t, id, d), "NOW_CONNECTED" \notin c.flags
  PROVE  d = c
<1>1. ~MaySend(c, FALSE)
  BY DEF MaySend, is_connected
<1>. QED  BY <1>1 DEF Answered, vh_msg_send, cl_ctx_seg1_send

\* The receive task answers what it has read.
LEMMA AnswerChange ==
  ASSUME IInv, Once, NEW e, Sound(e), RxChange(e), LeftGiven(e),
         NEW t \in PacketTypes, t \notin {"PUBLISH", "CONNECT"}, NEW id \in Nat,
         t = "PUBREL" => RetiredIn(e, id), NEW d, Answered(e, t, id, d)
  PROVE  RxChange(d) /\ LeftGiven(d)
<1>0. TypeOK /\ Ok(e, CallPacket) /\ e.tx \in Seq(AnyMsg)
  BY DEF IInv, Sound, Ok, IsCtx
<1>1. /\ Ok(d, CallPacket) /\ SameBut(e, d, {"tx", "flags", "tx_mqp", "tx_part"})
      /\ TxMore(e, d, VhMsg(t, id)) /\ FlagsMore(e, d) /\ (MaySend(d, FALSE) => MaySend(e, FALSE))
  BY <1>0, VhSent DEF Answered
<1>2. /\ d.qos_ack1_wl = e.qos_ack1_wl /\ d.mqp = e.mqp /\ d.qos2_tx_cq = e.qos2_tx_cq /\ d.msg_id = e.msg_id
  BY <1>1 DEF SameBut, CtxFields
<1>3. /\ "NOW_CONNECTED" \in d.flags <=> "NOW_CONNECTED" \in e.flags
      /\ "CLEAN_SESSION" \in d.flags <=> "CLEAN_SESSION" \in e.flags
  BY <1>1 DEF FlagsMore
<1>4. VhMsg(t, id) \in AnyMsg /\ VhMsg(t, id).type = t /\ VhMsg(t, id).id = id
  BY MsgTypes
<1> DEFINE m == VhMsg(t, id)
<1>5. \A x \in Items(d.tx) : x \in Items(e.tx) \/ x = m
  <2>1. \A x \in Items(Append(e.tx, m)) : x \in Items(e.tx) \/ x = m
    <3>1. m \in AnyMsg
      BY <1>4
    <3> HIDE DEF m
    <3>. QED  BY <1>0, <3>1 DEF Items
  <2>. QED  BY <1>1, <2>1 DEF TxMore
<1> HIDE DEF m
<1>6. \A x : RetiredIn(e, x) <=> RetiredIn(d, x)
  BY <1>2 DEF RetiredIn
<1>7. MaySendNow(d, m)
  BY <1>4, <1>6 DEF MaySendNow, IsQos0, m
<1>8. \A x : MaySendNow(e, x) => MaySendNow(d, x)
  BY <1>6 DEF MaySendNow
<1>9. "NOW_CONNECTED" \notin d.flags => d.tx = e.tx
  BY <1>3, NoAnswer
<1>10. /\ Items(d.qos_ack1_wl) \subseteq Items(ctx.qos_ack1_wl) /\ Kept(ctx, d, {})
       /\ d.msg_id = ctx.msg_id
       /\ "CLEAN_SESSION" \in d.flags <=> "CLEAN_SESSION" \in ctx.flags
       /\ "NOW_CONNECTED" \in ctx.flags => "NOW_CONNECTED" \in d.flags
  BY <1>2, <1>3 DEF RxChange, Kept
<1>11. \A i \in 0..LastIdx : RetiredIn(d, d.qos2_tx_cq.id_vec[i])
  BY <1>2, <1>6 DEF RxChange
<1>12. \A x \in Items(d.tx) : x \in Items(ctx.tx) \/ MaySendNow(d, x)
  BY <1>5, <1>7, <1>8 DEF RxChange
<1>13. "NOW_CONNECTED" \notin d.flags => d.tx = ctx.tx
  BY <1>3, <1>9 DEF RxChange
<1>14. "NOW_CONNECTED" \in d.flags /\ link # "none" => \A x \in Items(d.tx) : x.type # "CONNECT"
  BY <1>3, <1>5, <1>7 DEF RxChange, MaySendNow
<1>15. "NOW_CONNECTED" \in d.flags => Items(d.qos_ack1_wl) = {} \/ SameSession
  BY <1>2, <1>3 DEF RxChange
<1>16. LeftGiven(d)
  BY <1>2 DEF LeftGiven
<1>. QED  BY <1>10, <1>11, <1>12, <1>13, <1>14, <1>15, <1>16 DEF RxChange

\* What a step of the receive task needs of the result of process_recv
Booked(r, msg) ==
  /\ RxChange(r.c)
  /\ LeftGiven(r.c) \/ (r.rv /\ r.ack = "CONNACK" /\ msg.id = 0 /\ "CLEAN_SESSION" \in r.c.flags)

\* A result in which everything that left the list is with the server
LEMMA BookedResult ==
  ASSUME NEW c, RxChange(c), LeftGiven(c), NEW msg, NEW rv, NEW ack, NEW body
  PROVE  Booked(Result(c, rv, ack, body), msg) /\ Booked(Good(c), msg) /\ Booked(Bad(c), msg)
BY DEF Booked, Good, Bad, Result

\* A context in which only a queue changes, and in qos2_tx_cq no id
LEMMA QueueBooked ==
  ASSUME IInv, Once, NEW d, SameBut(ctx, d, {"qos2_rx_cq", "qos2_tx_cq"}),
         d.qos2_tx_cq.id_vec = ctx.qos2_tx_cq.id_vec
  PROVE  RxChange(d) /\ LeftGiven(d)
<1>1. /\ d.qos_ack1_wl = ctx.qos_ack1_wl /\ d.mqp = ctx.mqp /\ d.msg_id = ctx.msg_id
      /\ d.flags = ctx.flags /\ d.tx = ctx.tx
  BY DEF SameBut, CtxFields
<1>2. Kept(ctx, d, {})
  BY <1>1 DEF Kept
<1>. QED  BY <1>1, <1>2, SameChange

\* The context as it is
LEMMA CtxBooked ==
  ASSUME Once
  PROVE  RxChange(ctx) /\ LeftGiven(ctx)
<1>1. Kept(ctx, ctx, {})
  BY DEF Kept
<1>. QED  BY <1>1, SameChange

\* proc_pub_rec_rx
LEMMA PubRecBooked ==
  ASSUME IInv, Once, down # <<>>, NEW n \in Nat, Head(down).type = "PUBREC"
  PROVE  Booked(proc_pub_rec_rx(ctx, Head(down).id, n > 0), Head(down))
<1> DEFINE id == Head(down).id
<1>0. TypeOK /\ Sound(ctx) /\ Head(down) \in AnyMsg /\ DOMAIN ctx = CtxFields
      /\ ctx.qos2_rx_cq \in CqType /\ ctx.qos2_tx_cq \in CqType
  BY BeforeRecv
<1>1. Head(down) \in AckMsgs /\ id \in Nat
  BY <1>0 DEF AnyMsg, AckMsgs
<1>2. ctx.qos_ack1_wl # <<>> /\ id = ctx.mqp[ctx.qos_ack1_wl[1]].id
  BY <1>1, FirstAck
<1>3. CASE ~(ctx.qos2_tx_cq.n_free > 0)
  <2>1. proc_pub_rec_rx(ctx, id, n > 0) = Bad(ctx)
    BY <1>3 DEF proc_pub_rec_rx
  <2>. QED  BY <2>1, CtxBooked, BookedResult
<1>4. CASE ctx.qos2_tx_cq.n_free > 0
  <2> DEFINE logged == [ctx EXCEPT !.qos2_tx_cq = qos2_pub_cq_logup(@, id)]
             rm     == ack1_wl_rmfree(logged, id)
             d      == vh_msg_send(rm, "PUBREL", id, n > 0)
  <2>1. SameBut(ctx, logged, {"qos2_rx_cq", "qos2_tx_cq"}) /\ logged.qos2_rx_cq = ctx.qos2_rx_cq
        /\ logged.qos2_tx_cq = qos2_pub_cq_logup(ctx.qos2_tx_cq, id)
    BY <1>0 DEF SameBut, CtxFields
  <2>2. qos2_pub_cq_logup(ctx.qos2_tx_cq, id) \in CqType
    BY <1>0, <1>1, <1>4, QueueTypes
  <2>3. proc_pub_rec_rx(ctx, id, n > 0) = Good(d)
    <3>1. ctx.qos_ack1_wl \in Seq(Packets)
      BY <1>0 DEF TypeOK, IsCtx
    <3>2. id = ctx.mqp[Head(ctx.qos_ack1_wl)].id
      BY <1>2, <3>1
    <3>. QED  BY <1>4, <3>2 DEF proc_pub_rec_rx
  <2> HIDE DEF logged
  <2>4. /\ Sound(logged) /\ logged.tx = ctx.tx /\ logged.flags = ctx.flags /\ logged.tx_part = ctx.tx_part
        /\ logged.qos_ack1_wl = ctx.qos_ack1_wl /\ logged.mqp = ctx.mqp
    BY <1>0, <2>1, <2>2, QueueChanged
  <2>5. /\ Ok(rm, CallPacket) /\ SameBut(logged, rm, {"n_refs", "free_list", "mqp", "qos_ack1_wl"})
        /\ rm.qos_ack1_wl = Tail(logged.qos_ack1_wl) /\ Kept(logged, rm, CallPacket)
    <3>1. /\ Ok(logged, CallPacket) /\ logged.qos_ack1_wl # <<>> /\ id = logged.mqp[logged.qos_ack1_wl[1]].id
          /\ rm = ack1_wl_rmfree(logged, id)
      BY <1>2, <2>4 DEF Sound
    <3> HIDE DEF rm, id
    <3>. QED  BY ONLY <3>1, RmFree
  <2> HIDE DEF rm
  <2>6. /\ rm.tx = ctx.tx /\ rm.flags = ctx.flags /\ rm.tx_part = ctx.tx_part /\ rm.net = logged.net
        /\ rm.rx_mqp = logged.rx_mqp /\ rm.qos2_rx_cq = logged.qos2_rx_cq /\ rm.qos2_tx_cq = logged.qos2_tx_cq
        /\ rm.msg_id = logged.msg_id /\ logged.msg_id = ctx.msg_id
    BY <2>1, <2>4, <2>5 DEF SameBut, CtxFields
  <2>7. Items(Tail(ctx.qos_ack1_wl)) \subseteq Items(ctx.qos_ack1_wl)
    <3>1. ctx.qos_ack1_wl \in Seq(Packets)
      BY <1>0 DEF TypeOK, IsCtx
    <3>. QED  BY <1>2, <3>1, HeadTail
  <2>8. Sound(rm)
    BY <2>4, <2>5, <2>6, <2>7 DEF Sound, Kept
  <2>9. \A i \in 0..LastIdx : rm.qos2_tx_cq.id_vec[i] \in {ctx.qos2_tx_cq.id_vec[i], id}
    <3>1. rm.qos2_tx_cq = qos2_pub_cq_logup(ctx.qos2_tx_cq, id)
      BY <2>1, <2>6
    <3>2. rm.qos2_tx_cq.id_vec = [ctx.qos2_tx_cq.id_vec EXCEPT ![ctx.qos2_tx_cq.wr_idx] = id]
      BY <1>0, <3>1 DEF qos2_pub_cq_logup, CqType
    <3>. QED  BY <1>0, <3>2 DEF CqType
  <2>10. rm.qos_ack1_wl = Tail(ctx.qos_ack1_wl) /\ Kept(ctx, rm, {})
    BY <2>4, <2>5 DEF Kept
  <2>11. RxChange(rm) /\ LeftGiven(rm) /\ RetiredIn(rm, id)
    BY <1>1, <2>6, <2>9, <2>10, AckedChange
  <2>12. "PUBREL" \in PacketTypes /\ "PUBREL" \notin {"PUBLISH", "CONNECT"} /\ Answered(rm, "PUBREL", id, d)
    BY SentOrNot DEF PacketTypes
  <2> HIDE DEF d, id
  <2>13. RxChange(d) /\ LeftGiven(d)
    <3>1. IInv /\ Once /\ id \in Nat
      BY <1>1
    <3>. QED  BY ONLY <2>8, <2>11, <2>12, <3>1, AnswerChange
  <2>. QED  BY <2>3, <2>13, BookedResult DEF id
<1>. QED  BY <1>3, <1>4

\* _proc_ack_msg_rx
LEMMA AckMsgBooked ==
  ASSUME IInv, Once, down # <<>>, Head(down).type \in {"PUBACK", "SUBACK", "UNSUBACK"}
  PROVE  Booked(proc_ack_msg_rx(ctx, Head(down).type, Head(down).id), Head(down))
<1> DEFINE id == Head(down).id
           wl == ctx.qos_ack1_wl
           rm == ack1_wl_rmfree(ctx, id)
<1>0. TypeOK /\ Sound(ctx) /\ Head(down) \in AnyMsg /\ wl \in Seq(Packets)
  BY BeforeRecv
<1>1. Head(down) \in AckMsgs
  BY <1>0 DEF AnyMsg, AckMsgs
<1>2. wl # <<>> /\ id = ctx.mqp[wl[1]].id
  BY <1>1, FirstAck
<1>3. \/ proc_ack_msg_rx(ctx, Head(down).type, id) = Result(rm, TRUE, Head(down).type, 0)
      \/ proc_ack_msg_rx(ctx, Head(down).type, id) = Bad(ctx)
  BY DEF proc_ack_msg_rx
<1>4. /\ Ok(rm, CallPacket) /\ SameBut(ctx, rm, {"n_refs", "free_list", "mqp", "qos_ack1_wl"})
      /\ rm.qos_ack1_wl = Tail(ctx.qos_ack1_wl) /\ Kept(ctx, rm, CallPacket)
  <2>1. /\ Ok(ctx, CallPacket) /\ ctx.qos_ack1_wl # <<>> /\ id = ctx.mqp[ctx.qos_ack1_wl[1]].id
        /\ rm = ack1_wl_rmfree(ctx, id)
    BY <1>0, <1>2 DEF Sound
  <2> HIDE DEF rm, id
  <2>. QED  BY ONLY <2>1, RmFree
<1> HIDE DEF rm
<1>5. /\ rm.tx = ctx.tx /\ rm.flags = ctx.flags /\ rm.qos2_tx_cq = ctx.qos2_tx_cq /\ rm.msg_id = ctx.msg_id
  BY <1>4 DEF SameBut, CtxFields
<1>6. Kept(ctx, rm, {})
  BY <1>4 DEF Kept
<1>7. RxChange(rm) /\ LeftGiven(rm)
  BY <1>1, <1>4, <1>5, <1>6, AckedChange
<1>. QED  BY <1>3, <1>7, CtxBooked, BookedResult

\* _proc_pub_rel_rx
LEMMA PubRelBooked ==
  ASSUME IInv, Once, down # <<>>, NEW n \in Nat, Head(down).type = "PUBREL"
  PROVE  Booked(proc_pub_rel_rx(ctx, Head(down).id, n > 0), Head(down))
<1> DEFINE id   == Head(down).id
           sent == vh_msg_send(ctx, "PUBCOMP", id, n > 0)
           d    == IF qos2_pub_cq_check(sent.qos2_rx_cq, id)
                   THEN [sent EXCEPT !.qos2_rx_cq = qos2_pub_cq_unlog(@, id)] ELSE sent
<1>0. Sound(ctx) /\ id \in Nat /\ Ok(ctx, CallPacket)
  BY BeforeRecv DEF Sound
<1>1. "PUBCOMP" \in PacketTypes /\ "PUBCOMP" \notin {"PUBLISH", "CONNECT"} /\ Answered(ctx, "PUBCOMP", id, sent)
  BY SentOrNot DEF PacketTypes
<1>2. proc_pub_rel_rx(ctx, id, n > 0) = Good(d)
  BY DEF proc_pub_rel_rx
<1> HIDE DEF sent, id
<1>3. RxChange(sent) /\ LeftGiven(sent)
  <2>1. IInv /\ Once /\ RxChange(ctx) /\ LeftGiven(ctx) /\ "PUBCOMP" # "PUBREL"
    BY CtxBooked
  <2>. QED  BY ONLY <1>0, <1>1, <2>1, AnswerChange
<1>4. DOMAIN sent = CtxFields
  <2>1. SameBut(ctx, sent, {"tx", "flags", "tx_mqp", "tx_part"})
    BY ONLY <1>0, <1>1, VhSent DEF Answered
  <2>. QED  BY <2>1 DEF SameBut
<1>5. /\ d.qos_ack1_wl = sent.qos_ack1_wl /\ d.mqp = sent.mqp /\ d.msg_id = sent.msg_id
      /\ d.flags = sent.flags /\ d.tx = sent.tx /\ d.qos2_tx_cq = sent.qos2_tx_cq
  BY <1>4 DEF CtxFields
<1> HIDE DEF d
<1>6. \A x : (RetiredIn(sent, x) <=> RetiredIn(d, x)) /\ (MaySendNow(sent, x) <=> MaySendNow(d, x))
  BY <1>5 DEF RetiredIn, MaySendNow
<1>7. RxChange(d)
  BY <1>3, <1>5, <1>6 DEF RxChange, Kept
<1>8. LeftGiven(d)
  BY <1>3, <1>5 DEF LeftGiven
<1>. QED  BY <1>2, <1>7, <1>8, BookedResult DEF id

\* ack2_msg_id_unlog
LEMMA PubCompBooked ==
  ASSUME IInv, Once, down # <<>>, Head(down).type = "PUBCOMP"
  PROVE  Booked(proc_pub_comp_rx(ctx, Head(down).id), Head(down))
<1> DEFINE id == Head(down).id
           d  == [ctx EXCEPT !.qos2_tx_cq = qos2_pub_cq_unlog(@, id)]
<1>0. DOMAIN ctx = CtxFields /\ ctx.qos2_tx_cq \in CqType
  BY BeforeRecv
<1>1. qos2_pub_cq_unlog(ctx.qos2_tx_cq, id).id_vec = ctx.qos2_tx_cq.id_vec
  BY <1>0 DEF qos2_pub_cq_unlog, CqType
<1>2. SameBut(ctx, d, {"qos2_rx_cq", "qos2_tx_cq"}) /\ d.qos2_tx_cq.id_vec = ctx.qos2_tx_cq.id_vec
  BY <1>0, <1>1 DEF SameBut, CtxFields
<1>3. proc_pub_comp_rx(ctx, id) = Result(d, TRUE, "PUBCOMP", 0) \/ proc_pub_comp_rx(ctx, id) = Bad(d)
  BY DEF proc_pub_comp_rx
<1> HIDE DEF d
<1>4. RxChange(d) /\ LeftGiven(d)
  BY <1>2, QueueBooked
<1>. QED  BY <1>3, <1>4, BookedResult

\* proc_pingrsp_rx
LEMMA PingRspBooked ==
  ASSUME IInv, Once, down # <<>>, Head(down).type = "PINGRSP"
  PROVE  Booked(proc_pingrsp_rx(ctx), Head(down))
<1> DEFINE d == [ctx EXCEPT !.flags = @ \ {"KA_PINGER_RSP"}]
<1>0. DOMAIN ctx = CtxFields
  BY BeforeRecv
<1>1. SameBut(ctx, d, {"flags"}) /\ d.flags = ctx.flags \ {"KA_PINGER_RSP"}
  BY <1>0 DEF SameBut, CtxFields
<1>2. proc_pingrsp_rx(ctx) = Good(d) \/ proc_pingrsp_rx(ctx) = Bad(ctx)
  BY DEF proc_pingrsp_rx
<1> HIDE DEF d
<1>3. /\ d.qos_ack1_wl = ctx.qos_ack1_wl /\ d.mqp = ctx.mqp /\ d.msg_id = ctx.msg_id
      /\ d.tx = ctx.tx /\ d.qos2_tx_cq = ctx.qos2_tx_cq
  BY <1>1 DEF SameBut, CtxFields
<1>4. Kept(ctx, d, {})
  BY <1>3 DEF Kept
<1>5. RxChange(d) /\ LeftGiven(d)
  BY <1>1, <1>3, <1>4, SameChange
<1>. QED  BY <1>2, <1>5, CtxBooked, BookedResult

\* proc_pub_msg_rx
LEMMA PubMsgBooked ==
  ASSUME IInv, Once, down # <<>>, NEW n \in Nat, Head(down).type = "PUBLISH"
  PROVE  Booked(proc_pub_msg_rx(ctx, Head(down), n > 0), Head(down))
<1> DEFINE msg == Head(down)
           id  == msg.id
           cq  == ctx.qos2_rx_cq
           r   == proc_pub_msg_rx(ctx, msg, n > 0)
<1>0. /\ Sound(ctx) /\ id \in Nat /\ msg.qos \in 0..2 /\ DOMAIN ctx = CtxFields
      /\ ctx.qos2_rx_cq \in CqType /\ ctx.qos2_tx_cq \in CqType
  BY BeforeRecv
<1>1. RxChange(ctx) /\ LeftGiven(ctx) /\ IInv /\ Once
  BY CtxBooked
<1>2. CASE msg.qos = 0
  <2>1. r = Result(ctx, TRUE, "", msg.body)
    BY <1>2, PubMsgCases
  <2>. QED  BY <1>1, <2>1, BookedResult
<1>3. CASE msg.qos = 1
  <2> DEFINE d == vh_msg_send(ctx, "PUBACK", id, n > 0)
  <2>1. r = Result(d, TRUE, "", msg.body)
    BY <1>3, PubMsgCases DEF vh_msg_send, cl_ctx_seg1_send, cl_ctx_part_send
  <2>2. "PUBACK" \in PacketTypes /\ "PUBACK" \notin {"PUBLISH", "CONNECT"} /\ "PUBACK" # "PUBREL"
        /\ Answered(ctx, "PUBACK", id, d)
    BY SentOrNot DEF PacketTypes
  <2> HIDE DEF d, id
  <2>3. RxChange(d) /\ LeftGiven(d)
    BY ONLY <1>0, <1>1, <2>2, AnswerChange
  <2>. QED  BY <2>1, <2>3, BookedResult
<1>4. CASE msg.qos = 2 /\ qos2_pub_cq_check(cq, id)
  <2>1. r = Good(ctx)
    BY <1>4, PubMsgCases
  <2>. QED  BY <1>1, <2>1, BookedResult
<1>5. CASE msg.qos = 2 /\ ~qos2_pub_cq_check(cq, id) /\ cq.n_free = 0
  <2>1. r = Bad(ctx)
    BY <1>5, PubMsgCases
  <2>. QED  BY <1>1, <2>1, BookedResult
<1>6. CASE msg.qos = 2 /\ ~qos2_pub_cq_check(cq, id) /\ cq.n_free # 0
  <2> DEFINE logged == [ctx EXCEPT !.qos2_rx_cq = qos2_pub_cq_logup(@, id)]
             d      == vh_msg_send(logged, "PUBREC", id, n > 0)
  <2>1. r = Result(d, TRUE, "", msg.body)
    BY <1>6, PubMsgCases DEF vh_msg_send, cl_ctx_seg1_send, cl_ctx_part_send
  <2>2. SameBut(ctx, logged, {"qos2_rx_cq", "qos2_tx_cq"})
        /\ logged.qos2_rx_cq = qos2_pub_cq_logup(ctx.qos2_rx_cq, id) /\ logged.qos2_tx_cq = ctx.qos2_tx_cq
    BY <1>0 DEF SameBut, CtxFields
  <2>3. qos2_pub_cq_logup(ctx.qos2_rx_cq, id) \in CqType
    <3>1. cq.n_free \in 0..MAX_PUBREL_INFLT
      BY <1>0 DEF CqType
    <3>2. cq.n_free > 0
      BY <1>6, <3>1, CapacityNat
    <3>. QED  BY <1>0, <3>2, QueueTypes
  <2>4. "PUBREC" \in PacketTypes /\ "PUBREC" \notin {"PUBLISH", "CONNECT"} /\ "PUBREC" # "PUBREL"
        /\ Answered(logged, "PUBREC", id, d)
    BY SentOrNot DEF PacketTypes
  <2> HIDE DEF logged, d
  <2>5. Sound(logged)
    BY <1>0, <2>2, <2>3, QueueChanged
  <2>6. RxChange(logged) /\ LeftGiven(logged)
    BY <1>1, <2>2, QueueBooked
  <2> HIDE DEF id
  <2>7. RxChange(d) /\ LeftGiven(d)
    BY ONLY <1>0, <1>1, <2>4, <2>5, <2>6, AnswerChange
  <2>. QED  BY <2>1, <2>7, BookedResult
<1>. QED  BY <1>0, <1>2, <1>3, <1>4, <1>5, <1>6

\* The packets a resumed session sends are no CONNECT and no message at most
\* once; their PUBRELs have ids of the queue.
LEMMA SentNow ==
  ASSUME NEW c, IsCtx(c), c.qos2_tx_cq \in CqType, NEW k \in 0..Len(ToResend(c)),
         \A p \in Items(c.qos_ack1_wl) : c.mqp[p] \in ReqMsgs,
         NEW m \in Items(Sent(c, k))
  PROVE  /\ m.type # "CONNECT" /\ ~IsQos0(m)
         /\ m.type = "PUBREL" => \E j \in 0..LastIdx : m.id = c.qos2_tx_cq.id_vec[j]
<1> DEFINE wl == c.qos_ack1_wl
           items == ToResend(c)
<1>1. /\ items \in Seq(ItemType(wl)) /\ Len(wl) \in Nat /\ Len(items) \in Nat
      /\ Len(wl) <= Len(items)
      /\ \A i \in 1..Len(items) :
           IF i <= Len(wl) THEN items[i].msg = c.mqp[wl[i]] ELSE items[i].msg.type = "PUBREL"
  BY ResendItems
<1> HIDE DEF items
<1>2. Sent(c, k) = [i \in 1..k |-> items[i].msg]
  BY DEF Sent, items
<1>3. k \in Nat /\ k <= Len(items)
  BY <1>1 DEF items
<1>4. PICK i \in 1..k : m = items[i].msg
  <2>1. Len(Sent(c, k)) = k
    BY <1>2, <1>3
  <2>. QED  BY <1>2, <2>1 DEF Items
<1>5. i \in 1..Len(items)
  BY <1>1, <1>3, <1>4
<1>6. CASE i <= Len(wl)
  <2>1. wl \in Seq(Packets)
    BY DEF IsCtx
  <2>2. wl[i] \in Items(wl)
    BY <1>1, <1>5, <1>6, <2>1 DEF Items
  <2>3. m \in ReqMsgs
    BY <1>1, <1>4, <1>5, <1>6, <2>2
  <2>. QED  BY <2>3 DEF ReqMsgs, IsQos0
<1>7. CASE ~(i <= Len(wl))
  <2>1. m.type = "PUBREL"
    BY <1>1, <1>4, <1>5, <1>7
  <2>2. i > Len(wl)
    BY <1>1, <1>5, <1>7
  <2>3. \E j \in 0..LastIdx : ToResend(c)[i].msg.id = c.qos2_tx_cq.id_vec[j]
    BY <1>5, <2>2, ResendIds DEF items
  <2>. QED  BY <1>4, <2>1, <2>3 DEF IsQos0, items
<1>. QED  BY <1>6, <1>7

\* proc_connack_rx: the session that starts is empty, or it is the old one and
\* what waits in it is sent again.
LEMMA ConnackBooked ==
  ASSUME IInv, Once, down # <<>>, NEW n \in Nat, Head(down).type = "CONNACK", "CONNACK_AWAIT" \in ctx.flags
  PROVE  Booked(proc_connack_rx(ctx, Head(down), n), Head(down))
<1> DEFINE msg       == Head(down)
           answered  == [ctx EXCEPT !.flags = @ \ {"CONNACK_AWAIT"}]
           connected == [answered EXCEPT !.flags = @ \cup {"NOW_CONNECTED"}]
           deleted   == session_delete(connected)
           resumed   == session_resume(connected, n)
           r         == proc_connack_rx(ctx, msg, n)
<1>0. /\ Sound(ctx) /\ TypeOK /\ Handshake /\ DOMAIN ctx = CtxFields /\ ctx.tx \in Seq(AnyMsg)
      /\ ctx.qos_ack1_wl \in Seq(Packets) /\ Counted
  BY BeforeRecv DEF IInv, TypeOK, IsCtx, Once
<1>1. /\ DOMAIN answered = CtxFields /\ DOMAIN connected = CtxFields
      /\ SameBut(ctx, answered, {"flags"}) /\ answered.flags = ctx.flags \ {"CONNACK_AWAIT"}
      /\ SameBut(ctx, connected, {"flags"}) /\ connected.flags = answered.flags \cup {"NOW_CONNECTED"}
  BY <1>0 DEF SameBut, CtxFields
<1>2. /\ msg.id # 0 => r = Result(answered, TRUE, "CONNACK", 0)
      /\ msg.id = 0 /\ "CLEAN_SESSION" \in ctx.flags => r = Result(deleted, TRUE, "CONNACK", 0)
      /\ msg.id = 0 /\ "CLEAN_SESSION" \notin ctx.flags => r = Result(resumed, TRUE, "CONNACK", 0)
  <2>1. msg.id # 0 => r = Result(answered, TRUE, "CONNACK", 0)
    BY DEF proc_connack_rx
  <2>2. msg.id = 0 /\ "CLEAN_SESSION" \in ctx.flags => r = Result(deleted, TRUE, "CONNACK", 0)
    BY DEF proc_connack_rx
  <2>3. msg.id = 0 /\ "CLEAN_SESSION" \notin ctx.flags => r = Result(resumed, TRUE, "CONNACK", 0)
    BY DEF proc_connack_rx
  <2>. QED  BY <2>1, <2>2, <2>3
<1>3. "NOW_CONNECTED" \notin ctx.flags
  BY <1>0 DEF Handshake
<1>4. msg.id = 0 /\ link # "none" => ctx.tx = <<>>
  <2>1. msg \in Items(down)
    <3>1. down \in Seq(AnyMsg)
      BY <1>0 DEF TypeOK
    <3>2. msg = down[1] /\ 1 \in DOMAIN down
      BY <3>1
    <3>. QED  BY <3>2 DEF Items
  <2>2. msg.id = 0 => link # "open"
    BY <1>0, <2>1 DEF Handshake
  <2>. QED  BY <1>3, <2>2 DEF Once, ConnectFirst
<1> HIDE DEF answered, connected
<1>5. /\ answered.qos_ack1_wl = ctx.qos_ack1_wl /\ answered.mqp = ctx.mqp
      /\ answered.tx = ctx.tx /\ answered.msg_id = ctx.msg_id /\ answered.qos2_tx_cq = ctx.qos2_tx_cq
      /\ connected.qos_ack1_wl = ctx.qos_ack1_wl /\ connected.mqp = ctx.mqp
      /\ connected.tx = ctx.tx /\ connected.msg_id = ctx.msg_id /\ connected.qos2_tx_cq = ctx.qos2_tx_cq
  BY <1>1 DEF SameBut, CtxFields
<1>6. Ok(connected, CallPacket)
  <2>1. SameBut(ctx, connected, {"tx", "flags", "net", "qos2_rx_cq", "qos2_tx_cq", "msg_id", "tx_part"})
    BY <1>1 DEF SameBut
  <2>2. Ok(ctx, CallPacket) /\ ctx.tx \in Seq(AnyMsg) /\ ctx.msg_id \in Nat
    BY <1>0 DEF Sound, Ok, IsCtx
  <2>3. connected.tx \in Seq(AnyMsg) /\ connected.msg_id \in Nat
    BY <1>5, <2>2
  <2>. QED  BY ONLY <2>1, <2>2, <2>3, PlainChange
<1>7. CASE msg.id # 0
  <2>1. Kept(ctx, answered, {})
    BY <1>5 DEF Kept
  <2>2. RxChange(answered) /\ LeftGiven(answered)
    BY <1>1, <1>3, <1>5, <2>1, SameChange
  <2>. QED  BY <1>2, <1>7, <2>2, BookedResult
<1>8. CASE msg.id = 0 /\ "CLEAN_SESSION" \in ctx.flags
  <2>1. /\ deleted.qos_ack1_wl = <<>> /\ Kept(connected, deleted, CallPacket)
        /\ SameBut(connected, deleted, {"n_refs", "free_list", "mqp", "qos_ack1_wl", "qos2_rx_cq", "qos2_tx_cq"})
        /\ \A i \in 0..LastIdx : deleted.qos2_tx_cq.id_vec[i] = 0
    BY <1>6, SessionDeleted, DeletedIds
  <2> HIDE DEF deleted
  <2>2. /\ deleted.flags = connected.flags /\ deleted.tx = ctx.tx /\ deleted.msg_id = ctx.msg_id
    BY <1>5, <2>1 DEF SameBut, CtxFields
  <2>3. Items(deleted.qos_ack1_wl) = {}
    BY <2>1 DEF Items
  <2>4. Kept(ctx, deleted, {})
    BY <2>3 DEF Kept
  <2>5. \A i \in 0..LastIdx : RetiredIn(deleted, deleted.qos2_tx_cq.id_vec[i])
    <3>1. 0 < NextId
      BY <1>0, NextNat
    <3>. QED  BY <2>1, <2>3, <3>1 DEF RetiredIn
  <2>6. "CLEAN_SESSION" \in deleted.flags /\ "NOW_CONNECTED" \in deleted.flags
    BY <1>1, <1>8, <2>2
  <2>7. link # "none" => Items(deleted.tx) = {}
    BY <1>4, <1>8, <2>2 DEF Items
  <2>8. RxChange(deleted)
    BY <1>8, <2>2, <2>3, <2>4, <2>5, <2>6, <2>7 DEF RxChange
  <2>. QED  BY <1>2, <1>8, <2>6, <2>8 DEF Booked, Result
<1>9. CASE msg.id = 0 /\ "CLEAN_SESSION" \notin ctx.flags
  <2>1. connected.qos2_tx_cq \in CqType /\ \A p \in Items(connected.qos_ack1_wl) : connected.mqp[p] \in ReqMsgs
    BY <1>0, <1>5 DEF Sound
  <2>2. /\ Ok(resumed, CallPacket) /\ SameBut(connected, resumed, {"n_refs", "tx", "flags", "tx_mqp", "tx_part"})
        /\ FlagsMore(connected, resumed) /\ SomeSent(connected, resumed)
    BY <1>6, <2>1, Resumed
  <2> HIDE DEF resumed
  <2>3. /\ resumed.mqp = ctx.mqp /\ resumed.msg_id = ctx.msg_id
        /\ resumed.qos_ack1_wl = ctx.qos_ack1_wl /\ resumed.qos2_tx_cq = ctx.qos2_tx_cq
    BY <1>5, <2>2 DEF SameBut, CtxFields
  <2>4. Kept(ctx, resumed, {})
    BY <2>3 DEF Kept
  <2>5. \A i \in 0..LastIdx : RetiredIn(resumed, ctx.qos2_tx_cq.id_vec[i])
    BY <2>3 DEF Once, Retired, PubrelIds, RetiredIn, Waiting
  <2>6. PICK k \in 0..Len(ToResend(connected)) : resumed.tx = connected.tx \o Sent(connected, k)
    BY <2>2 DEF SomeSent
  <2>7. IsCtx(connected)
    BY <1>6 DEF Ok
  <2>8. Sent(connected, k) \in Seq(AnyMsg)
    BY <2>1, <2>7, SentReqs
  <2>9. \A m \in Items(Sent(connected, k)) : MaySendNow(resumed, m)
    <3> TAKE m \in Items(Sent(connected, k))
    <3>1. /\ m.type # "CONNECT" /\ ~IsQos0(m)
          /\ m.type = "PUBREL" => \E j \in 0..LastIdx : m.id = connected.qos2_tx_cq.id_vec[j]
      BY <2>1, <2>7, SentNow
    <3>. QED  BY <1>5, <2>5, <3>1 DEF MaySendNow
  <2>10. \A m \in Items(resumed.tx) : m \in Items(ctx.tx) \/ MaySendNow(resumed, m)
    <3> DEFINE s == Sent(connected, k)
    <3> HIDE DEF s
    <3>1. s \in Seq(AnyMsg) /\ ctx.tx \in Seq(AnyMsg)
      BY <1>0, <2>8 DEF s
    <3>2. Items(ctx.tx \o s) \subseteq Items(ctx.tx) \cup Items(s)
      BY <3>1, JoinedItems
    <3>3. resumed.tx = ctx.tx \o s
      BY <1>5, <2>6 DEF s
    <3>. QED  BY <2>9, <3>2, <3>3 DEF s
  <2>11. "CLEAN_SESSION" \notin resumed.flags /\ "NOW_CONNECTED" \in resumed.flags
    BY <1>1, <1>9, <2>2 DEF FlagsMore
  <2>12. link # "none" => \A m \in Items(resumed.tx) : m.type # "CONNECT"
    <3>1. link # "none" => Items(ctx.tx) = {}
      BY <1>4, <1>9 DEF Items
    <3>. QED  BY <2>10, <3>1 DEF MaySendNow
  <2>13. SameSession
    BY <1>9 DEF SameSession
  <2>14. RxChange(resumed)
    BY <1>9, <2>3, <2>4, <2>5, <2>10, <2>11, <2>12, <2>13 DEF RxChange
  <2>15. LeftGiven(resumed)
    BY <2>3 DEF LeftGiven
  <2>. QED  BY <1>2, <1>9, <2>14, <2>15, BookedResult
<1>. QED  BY <1>7, <1>8, <1>9

\* process_recv
LEMMA ProcessBooked ==
  ASSUME IInv, Once, down # <<>>, NEW n \in Nat
  PROVE  Booked(process_recv(ctx, Head(down), n), Head(down))
<1> DEFINE msg == Head(down)
           r   == process_recv(ctx, msg, n)
<1>0. Booked(Bad(ctx), msg)
  BY CtxBooked, BookedResult
<1>1. CASE "CONNACK_AWAIT" \in ctx.flags /\ msg.type = "CONNACK"
  <2>1. r = proc_connack_rx(ctx, msg, n)
    BY <1>1 DEF process_recv
  <2>. QED  BY <1>1, <2>1, ConnackBooked
<1>2. CASE "CONNACK_AWAIT" \notin ctx.flags /\ msg.type = "PUBREC"
  <2>1. r = proc_pub_rec_rx(ctx, msg.id, n > 0)
    BY <1>2 DEF process_recv
  <2>. QED  BY <1>2, <2>1, PubRecBooked
<1>3. CASE "CONNACK_AWAIT" \notin ctx.flags /\ msg.type = "PUBREL"
  <2>1. r = proc_pub_rel_rx(ctx, msg.id, n > 0)
    BY <1>3 DEF process_recv
  <2>. QED  BY <1>3, <2>1, PubRelBooked
<1>4. CASE "CONNACK_AWAIT" \notin ctx.flags /\ msg.type = "PUBCOMP"
  <2>1. r = proc_pub_comp_rx(ctx, msg.id)
    BY <1>4 DEF process_recv
  <2>. QED  BY <1>4, <2>1, PubCompBooked
<1>5. CASE "CONNACK_AWAIT" \notin ctx.flags /\ msg.type \in {"PUBACK", "SUBACK", "UNSUBACK"}
  <2>1. r = proc_ack_msg_rx(ctx, msg.type, msg.id)
    BY <1>5 DEF process_recv
  <2>. QED  BY <1>5, <2>1, AckMsgBooked
<1>6. CASE "CONNACK_AWAIT" \notin ctx.flags /\ msg.type = "PINGRSP"
  <2>1. r = proc_pingrsp_rx(ctx)
    BY <1>6 DEF process_recv
  <2>. QED  BY <1>6, <2>1, PingRspBooked
<1>7. CASE "CONNACK_AWAIT" \notin ctx.flags /\ msg.type = "PUBLISH"
  <2>1. r = proc_pub_msg_rx(ctx, msg, n > 0)
    BY <1>7 DEF process_recv
  <2>. QED  BY <1>7, <2>1, PubMsgBooked
<1>8. CASE "CONNACK_AWAIT" \in ctx.flags /\ msg.type # "CONNACK"
  <2>1. r = Bad(ctx)
    BY <1>8 DEF process_recv
  <2>. QED  BY <1>0, <2>1
<1>9. CASE /\ "CONNACK_AWAIT" \notin ctx.flags
           /\ msg.type \notin {"PUBREC", "PUBREL", "PUBCOMP", "PUBACK", "SUBACK", "UNSUBACK", "PINGRSP", "PUBLISH"}
  <2>1. r = Bad(ctx)
    BY <1>9 DEF process_recv
  <2>. QED  BY <1>0, <2>1
<1>. QED  BY <1>1, <1>2, <1>3, <1>4, <1>5, <1>6, <1>7, <1>8, <1>9

\* The receive task processes any message.
LEMMA RxProcessOnce ==
  ASSUME IInv, IInv', Once, RxProcess
  PROVE  Once'
<1>0. down # <<>> /\ app.pc # "sending" /\ UNCHANGED <<app, server, count, published>>
  BY DEF RxProcess
<1>1. SentCounts \subseteq Nat
  <2>1. Len(ToResend(ctx)) \in Nat
    BY ResendItems DEF IInv, TypeOK
  <2>. QED  BY <2>1 DEF SentCounts
<1>2. PICK n \in Nat :
        LET r == process_recv(ctx, Head(down), n)
            ack == IF Notified(r.ack) THEN "" ELSE awaited_ack
            sig == ack_sync_obj \/ Notified(r.ack)
            refused == r.ack = "CONNACK" /\ Head(down).id # 0
        IN IF ~r.rv \/ refused
           THEN NetCloseRx(r.c, ack, sig)
           ELSE /\ ctx' = r.c /\ down' = Tail(down) /\ link' = link
                /\ owed' = IF r.ack = "CONNACK" /\ "CLEAN_SESSION" \in r.c.flags THEN {} ELSE owed
  BY <1>1 DEF RxProcess
<1> DEFINE r == process_recv(ctx, Head(down), n)
           refused == r.ack = "CONNACK" /\ Head(down).id # 0
<1>3. Handled(r, Head(down)) /\ Booked(r, Head(down))
  BY <1>0, ProcessOk, ProcessBooked
<1> HIDE DEF r
<1>4. count'.requests = count.requests
  BY <1>0
<1>5. CASE ~r.rv \/ refused
  <2>1. /\ ctx' = do_net_close(r.c) /\ link' = "none" /\ down' = <<>>
        /\ owed' = IF r.c.net /\ "CLEAN_SESSION" \in r.c.flags THEN {} ELSE owed
    BY <1>2, <1>5 DEF r, NetCloseRx, NetClose
  <2>2. Sound(r.c)
    BY <1>3 DEF Handled
  <2>3. RxChange(r.c) /\ LeftGiven(r.c)
    BY <1>3, <1>5 DEF Booked
  <2>. QED  BY <1>0, <1>4, <2>1, <2>2, <2>3, CloseOnce
<1>6. CASE r.rv /\ ~refused
  <2>1. /\ ctx' = r.c /\ down' = Tail(down) /\ link' = link
        /\ owed' = IF r.ack = "CONNACK" /\ "CLEAN_SESSION" \in r.c.flags THEN {} ELSE owed
    BY <1>2, <1>6 DEF r
  <2>2. RxChange(ctx')
    BY <1>3, <2>1 DEF Booked
  <2>3. owed' \subseteq owed /\ (owed' = {} \/ LeftGiven(ctx'))
    BY <1>3, <2>1 DEF Booked
  <2>4. Items(down') \subseteq Items(down)
    <3>1. down \in Seq(AnyMsg)
      BY DEF IInv, TypeOK
    <3>. QED  BY <1>0, <2>1, <3>1, HeadTail
  <2>. QED  BY <1>0, <1>4, <2>1, <2>2, <2>3, <2>4, ChangeOnce
<1>. QED  BY <1>5, <1>6

-----------------------------------------------------------------------------
\* The first id is 1.
LEMMA FirstId == assign_new_msg_id(InitCtx) = 1
<1>1. (65535 + 2) % 65536 = 1
  OBVIOUS
<1>. QED  BY <1>1 DEF assign_new_msg_id, InitCtx

\* At first nothing is under way, waits or has an id.
LEMMA OnceInit ==
  ASSUME Init
  PROVE  Once
<1>0. MaxMessages \in Nat /\ TypeOK
  BY SlMqttAssumption, InitOk DEF IInv
<1>1. /\ ctx = InitCtx /\ app = Idle /\ link = "none" /\ down = <<>> /\ server = NoSession
      /\ count.requests = 0 /\ owed = {}
      /\ published = [m \in 1..MaxMessages |-> [n |-> 0, qos |-> 0]]
  BY DEF Init
<1>2. /\ ctx.flags = {} /\ ctx.qos_ack1_wl = <<>> /\ ctx.qos2_tx_cq = qos2_pub_cq_reset
      /\ app.pc = "idle" /\ server.rcvd = {} /\ server.clean = FALSE
  BY <1>1 DEF InitCtx, Idle, NoSession
<1>3. assign_new_msg_id(ctx) = 1
  BY <1>1, FirstId
<1>4. Items(<<>>) = {}
  BY DEF Items
<1>5. Up = {} /\ Waiting = {} /\ Items(down) = {}
  BY <1>1, <1>2, <1>4 DEF Up, Waiting
<1>6. ~Requesting /\ ~Numbered
  BY <1>2 DEF Requesting, Numbered
<1>7. NextId = 1 /\ Assigned = 0
  BY <1>1, <1>2, <1>3, <1>6 DEF NextId, Assigned
<1>8. \A b \in DOMAIN published : published[b].n = 0 /\ published[b].qos = 0
  BY <1>1
<1>9. Counted
  <2>1. published \in [1..MaxMessages -> [n : Nat, qos : Nat]]
    BY <1>1
  <2>. QED  BY <1>0, <1>1, <1>3, <1>6, <1>7, <2>1 DEF Counted
<1>10. Fresh
  BY <1>2, <1>4, <1>5, <1>8 DEF Fresh
<1>11. Retired
  <2>1. \A id \in PubrelIds : id = 0
    BY <1>2, <1>5 DEF PubrelIds, qos2_pub_cq_reset, LastIdx
  <2>. QED  BY <1>5, <1>7, <2>1 DEF Retired
<1>12. ConnectFirst
  BY <1>1, <1>2, <1>5 DEF ConnectFirst
<1>13. Recorded /\ OwedOK
  BY <1>1, <1>5 DEF Recorded, OwedOK
<1>14. ServerGetsOnce
  BY <1>8 DEF ServerGetsOnce
<1>. QED  BY <1>9, <1>10, <1>11, <1>12, <1>13, <1>14 DEF Once

\* Every step keeps the book-keeping.
LEMMA OnceNext ==
  ASSUME FewMessages, IInv, IInv', Once, [Next]_vars
  PROVE  Once'
<1>1. ASSUME NEW clean \in CleanChoices, StartConnect(clean) PROVE Once'
  BY <1>1, StartConnectOnce
<1>2. ASSUME NEW call \in Requests \cup {DisconnCall}, StartCall(call) PROVE Once'
  BY <1>2, StartCallOnce
<1>3. CASE AppStep
  BY <1>3, ComposeOnce, NetConnectOnce, DispatchOnce, ConnectSentOnce, MsgSentOnce, DisconnSentOnce,
     SendFailsOnce, CallEndsOnce DEF AppStep
<1>4. CASE RxStep
  BY <1>4, RxMovesOnce, RxCloseOnce, RxPingOnce, RxPingSentOnce, RxAllocOnce, RxTimeoutOnce,
     RxProcessOnce, RxFreeOnce DEF RxStep
<1>5. CASE ServerRecv
  BY <1>5, ServerRecvOnce
<1>6. CASE ServerRefuse
  BY <1>6, ServerRefuseOnce
<1>7. CASE DropLink
  BY <1>7, DropLinkOnce
<1>8. ASSUME NEW qos \in ServerQos, ServerPublish(qos) PROVE Once'
  BY <1>8, ServerPublishOnce
<1>9. CASE UNCHANGED vars
  BY <1>9, SameOnce DEF vars, clientVars, serverVars, history
<1>. QED  BY <1>1, <1>2, <1>3, <1>4, <1>5, <1>6, <1>7, <1>8, <1>9 DEF Next

\* The book-keeping holds in every state.
LEMMA OnceInductive ==
  ASSUME FewMessages
  PROVE  Spec => []Once
<1>1. Init => Once
  BY OnceInit
<1>2. IInv /\ IInv' /\ Once /\ [Next]_vars => Once'
  BY OnceNext
<1>. QED  BY <1>1, <1>2, Inductive, PTL DEF Spec

\* As long as no id is used again, a QoS 2 message reaches the server's
\* subscribers at most once: connections that break, resent packets and
\* unanswered PUBRELs never make the server take it for a new one.
THEOREM Qos2GivenOnce ==
  ASSUME FewMessages
  PROVE  Spec => []ServerGetsOnce
<1>1. Once => ServerGetsOnce
  BY DEF Once
<1>. QED  BY <1>1, OnceInductive, PTL

\* As long as no id is used again, what the library accepted is with the server
\* or waits to be sent again: no step takes a packet out of the list whose
\* message the server has not got, unless the session ends.
THEOREM AcceptedKept ==
  ASSUME FewMessages
  PROVE  Spec => []NothingLost
<1>1. Once => NothingLost
  <2> SUFFICES ASSUME Once, NEW b \in owed, ~(published[b].n > 0)
               PROVE  \E p \in ToSet(ctx.qos_ack1_wl) : ctx.mqp[p].body = b
    BY DEF NothingLost
  <2>1. PICK m \in Waiting : m.body = b
    BY DEF Once, OwedOK
  <2>2. PICK p \in Items(ctx.qos_ack1_wl) : m = ctx.mqp[p]
    BY DEF Waiting
  <2>3. p \in ToSet(ctx.qos_ack1_wl)
    BY <2>2 DEF ToSet, Items
  <2>. QED  BY <2>1, <2>2, <2>3
<1>. QED  BY <1>1, OnceInductive, PTL

-----------------------------------------------------------------------------
(***************************************************************************)
(* A server that has one QoS 2 message under way, and a session that is    *)
(* kept: the client gives each message to the application once.  At most   *)
(* one packet is under way for the message of the server, in one direction *)
(* or the other, and it tells how far the exchange has got.                *)
(***************************************************************************)

\* What mqtt_only_once and a clean session would break
OneAtATime == CleanChoices \subseteq {FALSE} /\ ServerQos \subseteq {2} /\ ServerInflight <= 1

\* What hands the server's message over, what answers it, and what starts a session
OfferMsgs == [type : {"PUBLISH", "PUBREL"}, id : Nat, qos : 0..2, body : Nat]
ReplyMsgs == [type : {"PUBREC", "PUBCOMP", "PUBACK"}, id : Nat, qos : 0..2, body : Nat]
HelloMsgs == [type : {"CONNECT"}, id : Nat, qos : 0..2, body : Nat]

Offers  == Sift(down, OfferMsgs)
Replies == IF link = "none" THEN <<>> ELSE Sift(ctx.tx, ReplyMsgs)
Hellos  == IF link = "none" THEN <<>> ELSE Sift(ctx.tx, HelloMsgs)

\* The message of the server, without and with the client's PUBREC
TheMsg   == Msg("PUBLISH", 1, 2, count.msgs)
Offered  == count.msgs > 0 /\ server.out = <<[msg |-> TheMsg, released |-> FALSE]>>
Accepted == count.msgs > 0 /\ server.out = <<[msg |-> TheMsg, released |-> TRUE]>>

\* Nobody asks for a clean session.
NeverClean ==
  /\ ~server.clean /\ "CLEAN_SESSION" \notin ctx.flags /\ ~app.clean
  /\ app.pc \in {"composed", "sending"} /\ app.call = ConnectCall => app.msg.id # 1

\* A connection has one CONNECT; before the server has read it nothing of its
\* message is under way.
Greeting == app.pc = "sending" /\ app.call = ConnectCall

OneHello ==
  /\ Hellos = <<>> \/ (Len(Hellos) = 1 /\ Hellos[1].id # 1)
  /\ link = "session" => Hellos = <<>>
  /\ link # "none" /\ Greeting => link = "open" /\ Hellos = <<>>
  /\ link = "open" => Offers = <<>> /\ Replies = <<>>

\* The exchange for the server's message
Exchange ==
  \/ Offers = <<>> /\ Replies = <<>> /\ (server.out = <<>> \/ Offered \/ Accepted)
  \/ Offered  /\ Offers = <<TheMsg>> /\ Replies = <<>>
  \/ Offered  /\ Offers = <<>> /\ Replies = <<VhMsg("PUBREC", 1)>>
  \/ Accepted /\ Offers = <<VhMsg("PUBREL", 1)>> /\ Replies = <<>>
  \/ Accepted /\ Offers = <<>> /\ Replies = <<VhMsg("PUBCOMP", 1)>>

\* The client's queue of received ids has at most the server's only id.
QueueFits(cq) == CqOK(cq) /\ Logged(cq) \subseteq {1}

\* A message that may come again and was given is noted.
GivenNoted ==
  /\ count.msgs \in 0..MaxMessages /\ received \in [1..MaxMessages -> {0, 1}]
  /\ \A b \in 1..MaxMessages : b > count.msgs => received[b] = 0
  /\ Offered /\ received[count.msgs] = 1 => 1 \in Logged(ctx.qos2_rx_cq)

\* The invariant
RecvOnce ==
  NeverClean /\ OneHello /\ Exchange /\ QueueFits(ctx.qos2_rx_cq) /\ GivenNoted

-----------------------------------------------------------------------------
\* Of what is sent only a CONNECT and the answers to the server's message count.
LEMMA PlainSend ==
  ASSUME NEW s \in Seq(AnyMsg), NEW m \in AnyMsg, m.type \notin {"CONNECT", "PUBREC", "PUBCOMP", "PUBACK"}
  PROVE  Sift(Append(s, m), ReplyMsgs) = Sift(s, ReplyMsgs) /\ Sift(Append(s, m), HelloMsgs) = Sift(s, HelloMsgs)
<1>1. m \notin ReplyMsgs /\ m \notin HelloMsgs
  BY DEF ReplyMsgs, HelloMsgs
<1>. QED  BY <1>1, SiftAppend

\* What is under way of the exchange is made of messages.
LEMMA UnderWayTyped ==
  ASSUME TypeOK
  PROVE  /\ Offers \in Seq(AnyMsg) /\ Replies \in Seq(AnyMsg) /\ Hellos \in Seq(AnyMsg)
         /\ down \in Seq(AnyMsg) /\ ctx.tx \in Seq(AnyMsg) /\ DOMAIN ctx = CtxFields
         /\ Sift(ctx.tx, ReplyMsgs) \in Seq(AnyMsg) /\ Sift(ctx.tx, HelloMsgs) \in Seq(AnyMsg)
<1>1. down \in Seq(AnyMsg) /\ ctx.tx \in Seq(AnyMsg) /\ DOMAIN ctx = CtxFields
  BY DEF TypeOK, IsCtx
<1>2. /\ Sift(down, OfferMsgs) \in Seq(AnyMsg) /\ Sift(ctx.tx, ReplyMsgs) \in Seq(AnyMsg)
      /\ Sift(ctx.tx, HelloMsgs) \in Seq(AnyMsg)
  BY <1>1, SiftMembers
<1>. QED  BY <1>1, <1>2 DEF Offers, Replies, Hellos

\* The call asks for no clean session, and it starts no CONNECT.
CallHarmless ==
  /\ ~app'.clean
  /\ app'.pc \in {"composed", "sending"} /\ app'.call = ConnectCall => app'.msg.id # 1

\* A step that only loses packets keeps the invariant, and so does one that opens
\* a connection with nothing under way.
LEMMA LosingOnce ==
  ASSUME RecvOnce, CallHarmless, UNCHANGED received, count'.msgs = count.msgs,
         server'.out = server.out, server'.clean = server.clean,
         "CLEAN_SESSION" \notin ctx'.flags, ctx'.qos2_rx_cq = ctx.qos2_rx_cq,
         Offers' \in {Offers, <<>>}, Replies' \in {Replies, <<>>}, Hellos' \in {Hellos, <<>>},
         link' \in {link, "none"} \/ (Offers' = <<>> /\ Replies' = <<>> /\ Hellos' = <<>>),
         link' # "none" /\ Greeting' => link' = "open" /\ Hellos' = <<>>
  PROVE  RecvOnce'
<1>1. TheMsg' = TheMsg /\ (Offered' <=> Offered) /\ (Accepted' <=> Accepted)
  BY DEF TheMsg, Offered, Accepted
<1>2. NeverClean'
  BY DEF RecvOnce, NeverClean, CallHarmless
<1>3. OneHello'
  BY DEF RecvOnce, OneHello
<1>4. Exchange'
  BY <1>1 DEF RecvOnce, Exchange
<1>5. GivenNoted'
  BY <1>1 DEF RecvOnce, GivenNoted
<1>. QED  BY <1>2, <1>3, <1>4, <1>5 DEF RecvOnce

\* What a routine does that neither answers the server nor forgets an id
Harmless(d) ==
  /\ "CLEAN_SESSION" \in d.flags => "CLEAN_SESSION" \in ctx.flags
  /\ d.qos2_rx_cq = ctx.qos2_rx_cq
  /\ Sift(d.tx, ReplyMsgs) = Sift(ctx.tx, ReplyMsgs) /\ Sift(d.tx, HelloMsgs) = Sift(ctx.tx, HelloMsgs)

\* A step of the client that does no more
LEMMA HarmlessOnce ==
  ASSUME RecvOnce, Harmless(ctx'), CallHarmless, UNCHANGED <<server, received, link>>,
         count'.msgs = count.msgs, Offers' = Offers, Greeting' => Greeting
  PROVE  RecvOnce'
<1>1. Replies' = Replies /\ Hellos' = Hellos
  BY DEF Harmless, Replies, Hellos
<1>2. "CLEAN_SESSION" \notin ctx'.flags /\ ctx'.qos2_rx_cq = ctx.qos2_rx_cq
  BY DEF Harmless, RecvOnce, NeverClean
<1>3. link' # "none" /\ Greeting' => link' = "open" /\ Hellos' = <<>>
  BY <1>1 DEF RecvOnce, OneHello
<1>. QED  BY <1>1, <1>2, <1>3, LosingOnce

\* The context sends one packet that does not count.
LEMMA SendHarmless ==
  ASSUME TypeOK, NEW d, NEW m \in AnyMsg, m.type \notin {"CONNECT", "PUBREC", "PUBCOMP", "PUBACK"},
         d.tx = ctx.tx \/ d.tx = Append(ctx.tx, m), d.qos2_rx_cq = ctx.qos2_rx_cq,
         "CLEAN_SESSION" \in d.flags => "CLEAN_SESSION" \in ctx.flags
  PROVE  Harmless(d)
<1>1. ctx.tx \in Seq(AnyMsg)
  BY UnderWayTyped
<1>2. /\ Sift(Append(ctx.tx, m), ReplyMsgs) = Sift(ctx.tx, ReplyMsgs)
      /\ Sift(Append(ctx.tx, m), HelloMsgs) = Sift(ctx.tx, HelloMsgs)
  BY <1>1, PlainSend
<1>. QED  BY <1>2 DEF Harmless

-----------------------------------------------------------------------------
\* The call is done with its packet.
LEMMA AfterHarmless ==
  ASSUME TypeOK, NEW pc \in {"wait", "exit", "failed"}, app' = After(pc)
  PROVE  CallHarmless /\ ~Greeting' /\ app'.pc = pc
<1>1. app'.pc = pc
  BY AfterType
<1>2. ~app'.clean
  BY DEF After, Idle
<1>. QED  BY <1>1, <1>2 DEF CallHarmless, Greeting

\* The application's task does nothing that counts.
LEMMA SameCallHarmless ==
  ASSUME RecvOnce, app' = app
  PROVE  CallHarmless /\ (Greeting' => Greeting)
BY DEF RecvOnce, NeverClean, CallHarmless, Greeting

\* A call starts, or ends.
LEMMA CallRecvOnce ==
  ASSUME OneAtATime, IInv, RecvOnce,
         \/ \E clean \in CleanChoices : StartConnect(clean)
         \/ \E call \in Requests \cup {DisconnCall} : StartCall(call)
         \/ AckSignalWait \/ Return
  PROVE  RecvOnce'
<1>1. count \in [requests : Nat, connects : Nat, msgs : Nat, pings : Nat, drops : Nat] /\ TypeOK
  BY DEF IInv, TypeOK
<1>2. UNCHANGED <<ctx, link, down, server, received>> /\ count'.msgs = count.msgs
  BY <1>1 DEF StartConnect, StartCall, AckSignalWait, Return, serverVars, history
<1>3. CallHarmless /\ ~Greeting'
  <2>1. CASE \E clean \in CleanChoices : StartConnect(clean)
    <3>1. app' = [Idle EXCEPT !.pc = "checked", !.clean = FALSE]
      BY <2>1 DEF OneAtATime, StartConnect
    <3>. QED  BY <3>1 DEF Idle, CallHarmless, Greeting
  <2>2. CASE \E call \in Requests \cup {DisconnCall} : StartCall(call)
    BY <2>2 DEF StartCall, Idle, CallHarmless, Greeting
  <2>3. CASE AckSignalWait
    <3>1. \E pc \in {"failed", "exit"} : app' = After(pc)
      BY <2>3 DEF AckSignalWait
    <3>. QED  BY <1>1, <3>1, AfterHarmless
  <2>4. CASE Return
    BY <2>4 DEF Return, Idle, CallHarmless, Greeting
  <2>. QED  BY <2>1, <2>2, <2>3, <2>4
<1>4. Harmless(ctx') /\ Offers' = Offers
  BY <1>2 DEF Harmless, Offers
<1>. QED  BY <1>2, <1>3, <1>4, HarmlessOnce

\* A packet gets its contents.
LEMMA ComposeRecvOnce ==
  ASSUME IInv, RecvOnce, Compose
  PROVE  RecvOnce'
<1>0. TypeOK /\ app.pc = "checked" /\ app \in AppType /\ DOMAIN ctx = CtxFields /\ ~app.clean
  BY DEF IInv, Compose, TypeOK, IsCtx, RecvOnce, NeverClean
<1> DEFINE call == app.call
           id   == CASE call = ConnectCall -> IF app.clean THEN 1 ELSE 0
                     [] call = Publish(0)  -> 0
                     [] OTHER              -> assign_new_msg_id(ctx)
           msg  == Msg(call.type, id, call.qos, count.requests)
           new  == mqp_client_alloc(ctx, msg)
<1>1. UNCHANGED <<link, down, server, received, count>>
  BY DEF Compose, serverVars, history
<1>2. Offers' = Offers
  BY <1>1 DEF Offers
<1>3. msg.id = id
  BY DEF Msg
<1>4. call = ConnectCall => id = 0
  BY <1>0
<1> HIDE DEF id, msg
<1>5. CASE call.type # "DISCONNECT" /\ ctx.free_list = <<>>
  <2>1. app' = After("failed") /\ ctx' = ctx
    BY <1>5 DEF Compose
  <2>2. CallHarmless /\ ~Greeting' /\ Harmless(ctx')
    BY <1>0, <2>1, AfterHarmless DEF Harmless
  <2>. QED  BY <1>1, <1>2, <2>2, HarmlessOnce
<1>6. CASE call.type = "DISCONNECT" \/ ctx.free_list # <<>>
  <2>1. \E p : app' = [app EXCEPT !.pc = "composed", !.msg = msg, !.mqp = p]
    BY <1>6 DEF Compose, id, msg
  <2>2. app'.pc = "composed" /\ app'.msg = msg /\ app'.call = call /\ app'.clean = app.clean
    BY <1>0, <2>1 DEF AppType
  <2>3. CallHarmless /\ ~Greeting'
    BY <1>0, <1>3, <1>4, <2>2 DEF CallHarmless, Greeting
  <2>4. Harmless(ctx')
    <3>1. CASE call.type = "DISCONNECT"
      BY <3>1 DEF Compose, Harmless
    <3>2. CASE call.type # "DISCONNECT"
      <4>1. ctx' = [new EXCEPT !.msg_id = IF call.qos = 0 THEN @ ELSE id] /\ ctx.free_list # <<>>
        BY <1>6, <3>2 DEF Compose, id, msg
      <4>2. DOMAIN new = CtxFields /\ new.tx = ctx.tx /\ new.flags = ctx.flags /\ new.qos2_rx_cq = ctx.qos2_rx_cq
        BY <1>0 DEF mqp_client_alloc, CtxFields
      <4> HIDE DEF new
      <4>3. ctx'.tx = ctx.tx /\ ctx'.flags = ctx.flags /\ ctx'.qos2_rx_cq = ctx.qos2_rx_cq
        BY <4>1, <4>2
      <4>. QED  BY <4>3 DEF Harmless
    <3>. QED  BY <3>1, <3>2
  <2>. QED  BY <1>1, <1>2, <2>3, <2>4, HarmlessOnce
<1>. QED  BY <1>5, <1>6

\* A connection is opened, with nothing under way, or not.
LEMMA NetConnectRecvOnce ==
  ASSUME IInv, RecvOnce, NetConnect
  PROVE  RecvOnce'
<1>0. /\ TypeOK /\ app.pc = "composed" /\ app \in AppType /\ app.call = ConnectCall /\ DOMAIN ctx = CtxFields
      /\ ~app.clean /\ app.msg.id # 1 /\ "CLEAN_SESSION" \notin ctx.flags
  BY DEF IInv, NetConnect, TypeOK, IsCtx, RecvOnce, NeverClean
<1>1. UNCHANGED <<server, received, count>>
  BY DEF NetConnect, history
<1> DEFINE opened == [ctx EXCEPT !.net = TRUE, !.tx = <<>>]
           may    == "CONNACK_AWAIT" \notin ctx.flags /\ MaySend(ctx, TRUE)
<1>2. CASE app' = After("failed") /\ UNCHANGED <<ctx, link, down>>
  <2>1. CallHarmless /\ ~Greeting'
    BY <1>0, <1>2, AfterHarmless
  <2>2. Harmless(ctx') /\ Offers' = Offers
    BY <1>2 DEF Harmless, Offers
  <2>. QED  BY <1>1, <1>2, <2>1, <2>2, HarmlessOnce
<1>3. CASE /\ ctx' = IF may THEN tx_part_setup(opened, app.mqp) ELSE opened
           /\ app' = IF may THEN [app EXCEPT !.pc = "sending"] ELSE After("failed")
           /\ link' = "open" /\ down' = <<>>
  <2>1. ctx'.tx = <<>> /\ ctx'.flags = ctx.flags /\ ctx'.qos2_rx_cq = ctx.qos2_rx_cq
    <3>1. CASE may
      BY <1>0, <1>3, <3>1 DEF tx_part_setup, CtxFields
    <3>2. CASE ~may
      BY <1>0, <1>3, <3>2 DEF CtxFields
    <3>. QED  BY <3>1, <3>2
  <2>2. CallHarmless
    <3>1. CASE may
      <4>1. app'.clean = app.clean /\ app'.msg = app.msg
        BY <1>0, <1>3, <3>1 DEF AppType
      <4>. QED  BY <1>0, <4>1 DEF CallHarmless
    <3>2. CASE ~may
      BY <1>0, <1>3, <3>2, AfterHarmless
    <3>. QED  BY <3>1, <3>2
  <2> HIDE DEF opened, may
  <2>3. Offers' = <<>> /\ Replies' = <<>> /\ Hellos' = <<>>
    BY <1>3, <2>1, SiftEmpty DEF Offers, Replies, Hellos
  <2>. QED  BY <1>0, <1>1, <1>3, <2>1, <2>2, <2>3, LosingOnce
<1>. QED  BY <1>2, <1>3 DEF NetConnect

\* A reference to a packet more or less
LEMMA CountedHarmless ==
  ASSUME NEW c, DOMAIN c = CtxFields, NEW p, NEW d, d \in {Hold(c, p), mqp_free(c, p), mqp_free(Hold(c, p), p), c}
  PROVE  d.tx = c.tx /\ d.flags = c.flags /\ d.qos2_rx_cq = c.qos2_rx_cq /\ DOMAIN d = CtxFields
BY DEF Hold, mqp_free, CtxFields

\* A call hands its packet to the connection, or gives it back.
LEMMA DispatchRecvOnce ==
  ASSUME IInv, RecvOnce, Dispatch
  PROVE  RecvOnce'
<1>0. /\ TypeOK /\ app.pc = "composed" /\ app \in AppType /\ app.call # ConnectCall
      /\ DOMAIN ctx = CtxFields /\ ~app.clean
  BY DEF IInv, Dispatch, TypeOK, IsCtx, RecvOnce, NeverClean
<1>1. UNCHANGED <<link, server, received, count>> /\ Offers' = Offers
  BY DEF Dispatch, serverVars, history, Offers
<1> DEFINE held == IF app.call.qos = 0 THEN ctx ELSE Hold(ctx, app.mqp)
<1>2. held.tx = ctx.tx /\ held.flags = ctx.flags /\ held.qos2_rx_cq = ctx.qos2_rx_cq /\ DOMAIN held = CtxFields
  BY <1>0, CountedHarmless
<1>3. CASE MaySend(ctx, FALSE)
  <2>1. ctx' = tx_part_setup(held, app.mqp) /\ app' = [app EXCEPT !.pc = "sending"]
    BY <1>3 DEF Dispatch
  <2> HIDE DEF held
  <2>2. Harmless(ctx')
    BY <1>2, <2>1 DEF tx_part_setup, Harmless, CtxFields
  <2>3. app'.call = app.call /\ app'.clean = app.clean
    BY <1>0, <2>1 DEF AppType
  <2>4. CallHarmless /\ ~Greeting'
    BY <1>0, <2>3 DEF CallHarmless, Greeting
  <2>. QED  BY <1>1, <2>2, <2>4, HarmlessOnce
<1>4. CASE ~MaySend(ctx, FALSE)
  <2>1. CallHarmless /\ ~Greeting'
    BY <1>0, <1>4, AfterHarmless, NotSentPc DEF Dispatch
  <2>2. ctx' \in {mqp_free(Hold(ctx, app.mqp), app.mqp), ctx}
    BY <1>4 DEF Dispatch
  <2>3. Harmless(ctx')
    BY <1>0, <2>2, CountedHarmless DEF Harmless
  <2>. QED  BY <1>1, <2>1, <2>3, HarmlessOnce
<1>. QED  BY <1>3, <1>4

\* A request or a DISCONNECT is sent, or any packet is not.
LEMMA SentRecvOnce ==
  ASSUME IInv, RecvOnce, MsgSent \/ DisconnSent \/ SendFails
  PROVE  RecvOnce'
<1>0. TypeOK /\ app.pc = "sending" /\ app \in AppType /\ DOMAIN ctx = CtxFields
  BY DEF IInv, MsgSent, DisconnSent, SendFails, TypeOK, IsCtx
<1>1. UNCHANGED <<link, server, received, count>> /\ Offers' = Offers
  BY DEF MsgSent, DisconnSent, SendFails, serverVars, history, Offers
<1>2. CallHarmless /\ ~Greeting'
  <2>1. \E pc \in {"wait", "exit", "failed"} : app' = After(pc)
    BY NotSentPc DEF MsgSent, DisconnSent, SendFails
  <2>. QED  BY <1>0, <2>1, AfterHarmless
<1>3. Ok(ctx, CallPacket)
  BY CtxOk DEF IInv
<1>4. CASE MsgSent \/ DisconnSent
  <2>1. PICK m, sent :
               /\ m \in AnyMsg /\ sent = cl_ctx_part_send(ctx, m, TRUE) /\ m.type \notin {"CONNECT", "PUBREC", "PUBCOMP", "PUBACK"}
               /\ \/ ctx' = sent \/ ctx' = do_net_close_tx(sent)
                  \/ ctx' = [sent EXCEPT !.qos_ack1_wl = Append(@, app.mqp)]
    <3>1. CASE MsgSent
      <4>1. app.call \in Requests
        BY <1>0, <3>1 DEF MsgSent, AppType, Calls, ConnectCall, DisconnCall
      <4>2. app.msg \in AnyMsg /\ app.msg.type \in {"PUBLISH", "SUBSCRIBE", "UNSUBSCRIBE"}
        BY <1>0, <4>1, RequestCalls, SlMqttAssumption
           DEF IInv, CallOK, AppType, Publish, Subscribe, Unsubscribe
      <4>3. \/ ctx' = cl_ctx_part_send(ctx, app.msg, TRUE)
            \/ ctx' = [cl_ctx_part_send(ctx, app.msg, TRUE) EXCEPT !.qos_ack1_wl = Append(@, app.mqp)]
        BY <3>1 DEF MsgSent
      <4>. QED  BY <4>2, <4>3
    <3>2. CASE DisconnSent
      <4>1. VhMsg("DISCONNECT", 0) \in AnyMsg /\ VhMsg("DISCONNECT", 0).type = "DISCONNECT"
        BY MsgTypes DEF PacketTypes
      <4>2. ctx' = do_net_close_tx(cl_ctx_part_send(ctx, VhMsg("DISCONNECT", 0), TRUE))
        BY <3>2 DEF DisconnSent
      <4>. QED  BY <4>1, <4>2
    <3>. QED  BY <1>4, <3>1, <3>2
  <2>2. SameBut(ctx, sent, {"n_refs", "free_list", "mqp", "tx_mqp", "tx_part", "tx"}) /\ sent.tx = Append(ctx.tx, m)
    BY <1>3, <2>1, PartSent
  <2>3. DOMAIN sent = CtxFields /\ sent.flags = ctx.flags /\ sent.qos2_rx_cq = ctx.qos2_rx_cq
    BY <2>2 DEF SameBut, CtxFields
  <2>4. /\ ctx'.tx = sent.tx /\ ctx'.qos2_rx_cq = sent.qos2_rx_cq
        /\ ctx'.flags = sent.flags \/ ctx'.flags = sent.flags \cup {"NETWORK_CLOSE"}
    BY <2>1, <2>3 DEF do_net_close_tx, CtxFields
  <2>5. Harmless(ctx')
    BY <1>0, <2>1, <2>2, <2>3, <2>4, SendHarmless
  <2>. QED  BY <1>1, <1>2, <2>5, HarmlessOnce
<1>5. CASE SendFails
  <2> DEFINE failed == do_net_close_tx(ctx)
  <2>1. ctx' \in {mqp_free(failed, app.mqp), failed}
    BY <1>5 DEF SendFails
  <2>2. /\ failed.tx = ctx.tx /\ failed.qos2_rx_cq = ctx.qos2_rx_cq /\ DOMAIN failed = CtxFields
        /\ failed.flags = ctx.flags \cup {"NETWORK_CLOSE"}
    BY <1>0 DEF do_net_close_tx, CtxFields
  <2> HIDE DEF failed
  <2>3. ctx'.tx = ctx.tx /\ ctx'.flags = ctx.flags \cup {"NETWORK_CLOSE"} /\ ctx'.qos2_rx_cq = ctx.qos2_rx_cq
    BY <2>1, <2>2, CountedHarmless
  <2>4. Harmless(ctx')
    BY <2>3 DEF Harmless
  <2>. QED  BY <1>1, <1>2, <2>4, HarmlessOnce
<1>. QED  BY <1>4, <1>5

\* The CONNECT goes out, the only one of its connection.
LEMMA ConnectSentRecvOnce ==
  ASSUME IInv, RecvOnce, ConnectSent
  PROVE  RecvOnce'
<1>0. /\ TypeOK /\ app.pc = "sending" /\ app \in AppType /\ app.call = ConnectCall /\ DOMAIN ctx = CtxFields
      /\ ~app.clean /\ app.msg.id # 1 /\ app.msg \in AnyMsg /\ app.msg.type = "CONNECT"
      /\ ctx.tx \in Seq(AnyMsg) /\ "CLEAN_SESSION" \notin ctx.flags
  BY DEF IInv, ConnectSent, TypeOK, IsCtx, RecvOnce, NeverClean, AppType, CallOK, ConnectCall, DisconnCall
<1>1. UNCHANGED <<link, down, server, received, count>> /\ Offers' = Offers
  BY DEF ConnectSent, serverVars, history, Offers
<1>2. CallHarmless /\ ~Greeting'
  BY <1>0, AfterHarmless DEF ConnectSent
<1> DEFINE sent == cl_ctx_part_send(ctx, app.msg, TRUE)
<1>3. SameBut(ctx, sent, {"n_refs", "free_list", "mqp", "tx_mqp", "tx_part", "tx"}) /\ sent.tx = Append(ctx.tx, app.msg)
  <2>1. Ok(ctx, CallPacket)
    BY CtxOk DEF IInv
  <2>. QED  BY <1>0, <2>1, PartSent
<1>4. ctx' = [sent EXCEPT !.flags = @ \cup {"CONNACK_AWAIT"}]
  BY <1>0 DEF ConnectSent
<1> HIDE DEF sent
<1>5. /\ ctx'.tx = Append(ctx.tx, app.msg) /\ ctx'.flags = ctx.flags \cup {"CONNACK_AWAIT"}
      /\ ctx'.qos2_rx_cq = ctx.qos2_rx_cq
  BY <1>3, <1>4 DEF SameBut, CtxFields
<1>6. /\ Sift(Append(ctx.tx, app.msg), ReplyMsgs) = Sift(ctx.tx, ReplyMsgs)
      /\ Sift(Append(ctx.tx, app.msg), HelloMsgs) = Append(Sift(ctx.tx, HelloMsgs), app.msg)
  <2>1. app.msg \notin ReplyMsgs /\ app.msg \in HelloMsgs
    BY <1>0 DEF ReplyMsgs, HelloMsgs, AnyMsg
  <2>. QED  BY <1>0, <2>1, SiftAppend
<1>7. Replies' = Replies /\ Hellos' = IF link = "none" THEN <<>> ELSE Append(Hellos, app.msg)
  BY <1>1, <1>5, <1>6 DEF Replies, Hellos
<1>8. link # "none" => link = "open" /\ Hellos = <<>>
  BY <1>0 DEF RecvOnce, OneHello, Greeting
<1>9. OneHello'
  <2>1. Hellos' = <<>> \/ Hellos' = <<app.msg>>
    <3>1. Append(<<>>, app.msg) = <<app.msg>>
      OBVIOUS
    <3>. QED  BY <1>7, <1>8, <3>1
  <2>2. link' = "session" => Hellos' = <<>>
    BY <1>1, <1>7, <1>8
  <2>3. link' = "open" => Offers' = <<>> /\ Replies' = <<>>
    BY <1>1, <1>7 DEF RecvOnce, OneHello
  <2>4. Len(<<app.msg>>) = 1 /\ <<app.msg>>[1] = app.msg
    OBVIOUS
  <2>. QED  BY <1>0, <1>2, <2>1, <2>2, <2>3, <2>4 DEF OneHello
<1>10. TheMsg' = TheMsg /\ (Offered' <=> Offered) /\ (Accepted' <=> Accepted)
  BY <1>1 DEF TheMsg, Offered, Accepted
<1>11. NeverClean'
  BY <1>1, <1>2, <1>5 DEF RecvOnce, NeverClean, CallHarmless
<1>12. Exchange'
  BY <1>1, <1>7, <1>10 DEF RecvOnce, Exchange
<1>13. GivenNoted' /\ QueueFits(ctx'.qos2_rx_cq)
  BY <1>1, <1>5, <1>10 DEF RecvOnce, GivenNoted
<1>. QED  BY <1>9, <1>11, <1>12, <1>13 DEF RecvOnce

-----------------------------------------------------------------------------
\* The receive task neither reads nor closes.
LEMMA RxQuietOnce ==
  ASSUME IInv, RecvOnce,
         \/ RxSignalWait \/ RxNotConn \/ RxClosed \/ RxOnTime
         \/ RxAlloc \/ RxTimeout \/ RxFree \/ RxPing \/ RxPingSent
  PROVE  RecvOnce'
<1>0. TypeOK /\ DOMAIN ctx = CtxFields /\ Ok(ctx, CallPacket)
      /\ count \in [requests : Nat, connects : Nat, msgs : Nat, pings : Nat, drops : Nat]
  BY CtxOk DEF IInv, TypeOK, IsCtx
<1>1. UNCHANGED <<link, down, server, received, app>> /\ Offers' = Offers /\ count'.msgs = count.msgs
  BY <1>0 DEF RxSignalWait, RxNotConn, RxClosed, RxOnTime, RxAlloc, RxTimeout, RxFree, RxPing, RxPingSent,
              serverVars, history, Offers
<1>2. CallHarmless /\ (Greeting' => Greeting)
  BY <1>1, SameCallHarmless
<1>3. Harmless(ctx')
  <2>1. CASE ctx' = ctx
    BY <2>1 DEF Harmless
  <2>2. CASE RxAlloc /\ ctx' # ctx
    <3> DEFINE new == mqp_client_alloc(ctx, NoMsg)
    <3>1. ctx' = [new EXCEPT !.rx_mqp = Head(ctx.free_list)]
      BY <2>2 DEF RxAlloc
    <3>2. DOMAIN new = CtxFields /\ new.tx = ctx.tx /\ new.flags = ctx.flags /\ new.qos2_rx_cq = ctx.qos2_rx_cq
      BY <1>0 DEF mqp_client_alloc, CtxFields
    <3> HIDE DEF new
    <3>. QED  BY <3>1, <3>2 DEF Harmless, CtxFields
  <2>3. CASE RxFree
    <3> DEFINE freed == mqp_free(ctx, ctx.rx_mqp)
    <3>1. ctx' = [freed EXCEPT !.rx_mqp = NULL]
      BY <2>3 DEF RxFree
    <3>2. /\ freed.tx = ctx.tx /\ freed.flags = ctx.flags /\ freed.qos2_rx_cq = ctx.qos2_rx_cq
          /\ DOMAIN freed = CtxFields
      BY <1>0, CountedHarmless
    <3> HIDE DEF freed
    <3>. QED  BY <3>1, <3>2 DEF Harmless, CtxFields
  <2>4. CASE RxPing
    <3>1. ctx' = tx_part_setup(ctx, NULL)
      BY <2>4 DEF RxPing
    <3>. QED  BY <1>0, <3>1 DEF Harmless, tx_part_setup, CtxFields
  <2>5. CASE RxPingSent
    <3>1. /\ SameBut(ctx, ctx', {"n_refs", "free_list", "mqp", "tx_mqp", "tx_part", "tx", "flags"})
          /\ ctx'.tx = Append(ctx.tx, VhMsg("PINGREQ", 0)) /\ ctx'.flags = ctx.flags \cup {"KA_PINGER_RSP"}
          /\ VhMsg("PINGREQ", 0) \in AnyMsg /\ VhMsg("PINGREQ", 0).type = "PINGREQ"
      BY <1>0, <2>5, PingSent
    <3>2. ctx'.qos2_rx_cq = ctx.qos2_rx_cq
      BY <3>1 DEF SameBut, CtxFields
    <3>. QED  BY <1>0, <3>1, <3>2, SendHarmless
  <2>6. CASE RxTimeout
    <3>1. SameBut(ctx, ctx', {"mqp"})
      BY <1>0, <2>6, TimedOut DEF IInv
    <3>. QED  BY <3>1 DEF Harmless, SameBut, CtxFields
  <2>. QED  BY <2>1, <2>2, <2>3, <2>4, <2>5, <2>6 DEF RxSignalWait, RxNotConn, RxClosed, RxOnTime
<1>. QED  BY <1>1, <1>2, <1>3, HarmlessOnce

\* do_net_close forgets no id while no clean session is asked for.
LEMMA ClosedRxQueue ==
  ASSUME NEW c, NEW own, Ok(c, own), "CLEAN_SESSION" \notin c.flags, NEW d, d = do_net_close(c)
  PROVE  d.qos2_rx_cq = c.qos2_rx_cq /\ "CLEAN_SESSION" \notin d.flags
<1>1. CASE ~c.net
  BY <1>1 DEF do_net_close
<1>2. CASE c.net
  <2> DEFINE s == IF PROTO_V31 THEN c ELSE session_311fix(c)
             r == tx_part_reset(s)
  <2>1. d = [r EXCEPT !.flags = @ \ ClosedFlags, !.net = FALSE, !.tx = <<>>]
    BY <1>2 DEF do_net_close
  <2>2. Ok(s, own) /\ SameBut(c, s, {"qos_ack1_wl"})
    <3>1. CASE PROTO_V31
      BY <3>1 DEF Ok, IsCtx, SameBut
    <3>2. CASE ~PROTO_V31
      <4>1. s = session_311fix(c)
        BY <3>2
      <4> HIDE DEF s
      <4>. QED  BY <4>1, SessionFixed
    <3>. QED  BY <3>1, <3>2
  <2> HIDE DEF s
  <2>3. Ok(r, own) /\ SameBut(s, r, {"n_refs", "free_list", "mqp", "tx_mqp", "tx_part"})
    <3>1. r = tx_part_reset(s)
      OBVIOUS
    <3> HIDE DEF r
    <3>. QED  BY <2>2, <3>1, TxReset
  <2> HIDE DEF r
  <2>4. r.qos2_rx_cq = c.qos2_rx_cq /\ r.flags = c.flags
    BY <2>2, <2>3 DEF SameBut, CtxFields
  <2>. QED  BY <2>1, <2>3, <2>4 DEF SameBut, CtxFields
<1>. QED  BY <1>1, <1>2

\* The receive task closes the connection after it has processed a packet, or
\* without.
LEMMA ClosedRecvOnce ==
  ASSUME IInv, RecvOnce, NEW c, Sound(c), "CLEAN_SESSION" \notin c.flags, c.qos2_rx_cq = ctx.qos2_rx_cq,
         ctx' = do_net_close(c), link' = "none", down' = <<>>, UNCHANGED <<app, server, received, count>>
  PROVE  RecvOnce'
<1>1. ctx'.qos2_rx_cq = ctx.qos2_rx_cq /\ "CLEAN_SESSION" \notin ctx'.flags
  <2>1. Ok(c, CallPacket)
    BY DEF Sound
  <2>. QED  BY <2>1, ClosedRxQueue
<1>2. Offers' = <<>> /\ Replies' = <<>> /\ Hellos' = <<>>
  BY SiftEmpty DEF Offers, Replies, Hellos
<1>3. CallHarmless
  BY SameCallHarmless
<1>. QED  BY <1>1, <1>2, <1>3, LosingOnce

\* The receive task closes the connection.
LEMMA RxCloseRecvOnce ==
  ASSUME IInv, RecvOnce, RxClose \/ RxError \/ RxMisread \/ RxPingFails
  PROVE  RecvOnce'
<1>1. PICK c : /\ c = ctx \/ c = do_net_close_tx(ctx)
               /\ ctx' = do_net_close(c) /\ link' = "none" /\ down' = <<>>
               /\ UNCHANGED <<app, server, received, count>>
  BY DEF RxClose, RxError, RxMisread, RxPingFails, NetCloseRx, NetClose
<1>2. Sound(c) /\ SameBut(ctx, c, {"flags"}) /\ (c.flags = ctx.flags \/ c.flags = ctx.flags \cup {"NETWORK_CLOSE"})
  BY <1>1, ClosingSound
<1>3. "CLEAN_SESSION" \notin c.flags /\ c.qos2_rx_cq = ctx.qos2_rx_cq
  BY <1>2 DEF RecvOnce, NeverClean, SameBut, CtxFields
<1>. QED  BY <1>1, <1>2, <1>3, ClosedRecvOnce

-----------------------------------------------------------------------------
\* A result that gives the application nothing
Plain(r) == Harmless(r.c) /\ r.body = 0

\* Results of the context as it is, and of one that does not count
LEMMA PlainResult ==
  ASSUME NEW c, Harmless(c), NEW rv, NEW ack
  PROVE  Plain(Bad(c)) /\ Plain(Good(c)) /\ Plain(Result(c, rv, ack, 0))
BY DEF Plain, Bad, Good, Result

\* What a resumed session sends is no CONNECT and no answer.
LEMMA ResentPlain ==
  ASSUME NEW c, IsCtx(c), c.qos2_tx_cq \in CqType, NEW k \in 0..Len(ToResend(c)),
         \A p \in Items(c.qos_ack1_wl) : c.mqp[p] \in ReqMsgs
  PROVE  /\ Sent(c, k) \in Seq(AnyMsg)
         /\ Sift(Sent(c, k), ReplyMsgs) = <<>> /\ Sift(Sent(c, k), HelloMsgs) = <<>>
<1> DEFINE wl == c.qos_ack1_wl
           items == ToResend(c)
<1>1. /\ items \in Seq(ItemType(wl)) /\ Len(wl) \in Nat /\ Len(items) \in Nat
      /\ Len(wl) <= Len(items)
      /\ \A i \in 1..Len(items) :
           IF i <= Len(wl) THEN items[i].msg = c.mqp[wl[i]] ELSE items[i].msg.type = "PUBREL"
  BY ResendItems
<1> HIDE DEF items
<1>2. Sent(c, k) = [i \in 1..k |-> items[i].msg] /\ k \in Nat /\ k <= Len(items)
  BY <1>1 DEF Sent, items
<1>3. Sent(c, k) \in Seq(AnyMsg)
  BY SentReqs
<1>4. ASSUME NEW i \in DOMAIN Sent(c, k)
      PROVE  Sent(c, k)[i].type \in {"PUBLISH", "SUBSCRIBE", "UNSUBSCRIBE", "PUBREL"}
  <2>1. i \in 1..Len(items) /\ Sent(c, k)[i] = items[i].msg
    BY <1>1, <1>2
  <2>2. CASE i <= Len(wl)
    <3>1. wl \in Seq(Packets)
      BY DEF IsCtx
    <3>2. wl[i] \in Items(wl)
      BY <1>1, <2>1, <2>2, <3>1 DEF Items
    <3>3. Sent(c, k)[i] \in ReqMsgs
      BY <1>1, <2>1, <2>2, <3>2
    <3>. QED  BY <3>3 DEF ReqMsgs
  <2>3. CASE ~(i <= Len(wl))
    BY <1>1, <2>1, <2>3
  <2>. QED  BY <2>2, <2>3
<1>5. \A i \in DOMAIN Sent(c, k) : Sent(c, k)[i] \notin ReplyMsgs /\ Sent(c, k)[i] \notin HelloMsgs
  BY <1>4 DEF ReplyMsgs, HelloMsgs
<1>. QED  BY <1>3, <1>5, SiftNone

\* proc_connack_rx
LEMMA ConnackPlain ==
  ASSUME IInv, RecvOnce, down # <<>>, NEW n \in Nat
  PROVE  Plain(proc_connack_rx(ctx, Head(down), n))
<1> DEFINE msg       == Head(down)
           answered  == [ctx EXCEPT !.flags = @ \ {"CONNACK_AWAIT"}]
           connected == [answered EXCEPT !.flags = @ \cup {"NOW_CONNECTED"}]
           resumed   == session_resume(connected, n)
           r         == proc_connack_rx(ctx, msg, n)
<1>0. /\ Sound(ctx) /\ DOMAIN ctx = CtxFields /\ ctx.tx \in Seq(AnyMsg) /\ "CLEAN_SESSION" \notin ctx.flags
      /\ Ok(ctx, CallPacket)
  BY BeforeRecv DEF IInv, TypeOK, IsCtx, RecvOnce, NeverClean, Sound
<1>1. /\ SameBut(ctx, answered, {"flags"}) /\ answered.flags = ctx.flags \ {"CONNACK_AWAIT"}
      /\ SameBut(ctx, connected, {"flags"}) /\ connected.flags = answered.flags \cup {"NOW_CONNECTED"}
  BY <1>0 DEF SameBut, CtxFields
<1>2. r = Result(answered, TRUE, "CONNACK", 0) \/ r = Result(resumed, TRUE, "CONNACK", 0)
  BY <1>0 DEF proc_connack_rx
<1> HIDE DEF answered, connected
<1>3. Harmless(answered)
  BY <1>1 DEF SameBut, CtxFields, Harmless
<1>4. /\ connected.tx = ctx.tx /\ connected.qos2_rx_cq = ctx.qos2_rx_cq /\ connected.qos2_tx_cq = ctx.qos2_tx_cq
      /\ connected.qos_ack1_wl = ctx.qos_ack1_wl /\ connected.mqp = ctx.mqp /\ connected.msg_id = ctx.msg_id
      /\ "CLEAN_SESSION" \notin connected.flags
  BY <1>0, <1>1 DEF SameBut, CtxFields
<1>5. Ok(connected, CallPacket)
  <2>1. SameBut(ctx, connected, {"tx", "flags", "net", "qos2_rx_cq", "qos2_tx_cq", "msg_id", "tx_part"})
    BY <1>1 DEF SameBut
  <2>2. connected.tx \in Seq(AnyMsg) /\ connected.msg_id \in Nat
    BY <1>0, <1>4 DEF Ok, IsCtx
  <2>. QED  BY ONLY <1>0, <2>1, <2>2, PlainChange
<1>6. connected.qos2_tx_cq \in CqType /\ \A p \in Items(connected.qos_ack1_wl) : connected.mqp[p] \in ReqMsgs
  BY <1>0, <1>4 DEF Sound
<1>7. /\ Ok(resumed, CallPacket) /\ SameBut(connected, resumed, {"n_refs", "tx", "flags", "tx_mqp", "tx_part"})
      /\ FlagsMore(connected, resumed) /\ SomeSent(connected, resumed)
  BY <1>5, <1>6, Resumed
<1> HIDE DEF resumed
<1>8. PICK k \in 0..Len(ToResend(connected)) : resumed.tx = ctx.tx \o Sent(connected, k)
  BY <1>4, <1>7 DEF SomeSent
<1>9. IsCtx(connected)
  BY <1>5 DEF Ok
<1>10. /\ Sent(connected, k) \in Seq(AnyMsg)
       /\ Sift(Sent(connected, k), ReplyMsgs) = <<>> /\ Sift(Sent(connected, k), HelloMsgs) = <<>>
  BY <1>6, <1>9, ResentPlain
<1>11. /\ Sift(resumed.tx, ReplyMsgs) = Sift(ctx.tx, ReplyMsgs) \o <<>>
       /\ Sift(resumed.tx, HelloMsgs) = Sift(ctx.tx, HelloMsgs) \o <<>>
  <2> DEFINE s == Sent(connected, k)
  <2> HIDE DEF s
  <2>1. s \in Seq(AnyMsg) /\ ctx.tx \in Seq(AnyMsg) /\ resumed.tx = ctx.tx \o s
    BY <1>0, <1>8, <1>10 DEF s
  <2>2. \A keep : Sift(ctx.tx \o s, keep) = Sift(ctx.tx, keep) \o Sift(s, keep)
    BY ONLY SMTT(30), <2>1, SiftConcat
  <2>. QED  BY <1>10, <2>1, <2>2 DEF s
<1>12. /\ Sift(ctx.tx, ReplyMsgs) \o <<>> = Sift(ctx.tx, ReplyMsgs)
       /\ Sift(ctx.tx, HelloMsgs) \o <<>> = Sift(ctx.tx, HelloMsgs)
  BY <1>0, SiftMembers
<1>13. Harmless(resumed)
  BY <1>0, <1>4, <1>7, <1>11, <1>12 DEF Harmless, FlagsMore, SameBut, CtxFields
<1>. QED  BY <1>2, <1>3, <1>13, PlainResult

\* proc_pub_rec_rx and _proc_ack_msg_rx: the client's own requests
LEMMA AckPlain ==
  ASSUME IInv, down # <<>>, NEW n \in Nat
  PROVE  /\ Head(down).type = "PUBREC" => Plain(proc_pub_rec_rx(ctx, Head(down).id, n > 0))
         /\ Head(down).type \in {"PUBACK", "SUBACK", "UNSUBACK"} =>
              Plain(proc_ack_msg_rx(ctx, Head(down).type, Head(down).id))
<1> DEFINE id == Head(down).id
           wl == ctx.qos_ack1_wl
<1>0. TypeOK /\ Sound(ctx) /\ Head(down) \in AnyMsg /\ DOMAIN ctx = CtxFields /\ wl \in Seq(Packets)
      /\ ctx.qos2_rx_cq \in CqType /\ ctx.qos2_tx_cq \in CqType /\ id \in Nat /\ Ok(ctx, CallPacket)
  BY BeforeRecv DEF Sound
<1>1. Harmless(ctx)
  BY DEF Harmless
<1>2. Head(down).type \in {"PUBREC", "PUBACK", "SUBACK", "UNSUBACK"} => wl # <<>> /\ id = ctx.mqp[wl[1]].id
  <2>1. Head(down).type \in {"PUBREC", "PUBACK", "SUBACK", "UNSUBACK"} => Head(down) \in AckMsgs
    BY <1>0 DEF AnyMsg, AckMsgs
  <2>. QED  BY <2>1, FirstAck
<1>3. ASSUME Head(down).type \in {"PUBACK", "SUBACK", "UNSUBACK"}
      PROVE  Plain(proc_ack_msg_rx(ctx, Head(down).type, id))
  <2> DEFINE rm == ack1_wl_rmfree(ctx, id)
  <2>1. \/ proc_ack_msg_rx(ctx, Head(down).type, id) = Result(rm, TRUE, Head(down).type, 0)
        \/ proc_ack_msg_rx(ctx, Head(down).type, id) = Bad(ctx)
    BY DEF proc_ack_msg_rx
  <2>2. SameBut(ctx, rm, {"n_refs", "free_list", "mqp", "qos_ack1_wl"})
    <3>1. wl # <<>> /\ id = ctx.mqp[wl[1]].id /\ rm = ack1_wl_rmfree(ctx, id)
      BY <1>2, <1>3
    <3> HIDE DEF rm, id
    <3>. QED  BY ONLY <1>0, <3>1, RmFree
  <2> HIDE DEF rm
  <2>3. Harmless(rm)
    BY <2>2 DEF SameBut, CtxFields, Harmless
  <2>. QED  BY <1>1, <2>1, <2>3, PlainResult
<1>4. ASSUME Head(down).type = "PUBREC"
      PROVE  Plain(proc_pub_rec_rx(ctx, id, n > 0))
  <2> DEFINE logged == [ctx EXCEPT !.qos2_tx_cq = qos2_pub_cq_logup(@, id)]
             rm     == ack1_wl_rmfree(logged, id)
             d      == vh_msg_send(rm, "PUBREL", id, n > 0)
  <2>1. CASE ~(ctx.qos2_tx_cq.n_free > 0)
    <3>1. proc_pub_rec_rx(ctx, id, n > 0) = Bad(ctx)
      BY <2>1 DEF proc_pub_rec_rx
    <3>. QED  BY <1>1, <3>1, PlainResult
  <2>2. CASE ctx.qos2_tx_cq.n_free > 0
    <3>1. proc_pub_rec_rx(ctx, id, n > 0) = Good(d)
      <4>1. id = ctx.mqp[Head(wl)].id
        BY <1>0, <1>2, <1>4
      <4>. QED  BY <2>2, <4>1 DEF proc_pub_rec_rx
    <3>2. /\ SameBut(ctx, logged, {"qos2_rx_cq", "qos2_tx_cq"}) /\ logged.qos2_rx_cq = ctx.qos2_rx_cq
          /\ logged.qos2_tx_cq = qos2_pub_cq_logup(ctx.qos2_tx_cq, id)
      BY <1>0 DEF SameBut, CtxFields
    <3>3. qos2_pub_cq_logup(ctx.qos2_tx_cq, id) \in CqType
      BY <1>0, <2>2, QueueTypes
    <3> HIDE DEF logged
    <3>4. /\ Sound(logged) /\ logged.tx = ctx.tx /\ logged.flags = ctx.flags /\ logged.tx_part = ctx.tx_part
          /\ logged.qos_ack1_wl = wl /\ logged.mqp = ctx.mqp
      BY <1>0, <3>2, <3>3, QueueChanged
    <3>5. Ok(rm, CallPacket) /\ SameBut(logged, rm, {"n_refs", "free_list", "mqp", "qos_ack1_wl"})
      <4>1. /\ Ok(logged, CallPacket) /\ logged.qos_ack1_wl # <<>> /\ id = logged.mqp[logged.qos_ack1_wl[1]].id
            /\ rm = ack1_wl_rmfree(logged, id)
        BY <1>2, <1>4, <3>4 DEF Sound
      <4> HIDE DEF rm, id
      <4>. QED  BY ONLY <4>1, RmFree
    <3> HIDE DEF rm
    <3>6. "PUBREL" \in PacketTypes /\ Answered(rm, "PUBREL", id, d)
      BY SentOrNot DEF PacketTypes
    <3> HIDE DEF d, id
    <3>7. /\ SameBut(rm, d, {"tx", "flags", "tx_mqp", "tx_part"})
          /\ TxMore(rm, d, VhMsg("PUBREL", id)) /\ FlagsMore(rm, d)
      <4>1. id \in Nat
        BY <1>0
      <4>. QED  BY ONLY <3>5, <3>6, <4>1, VhSent DEF Answered
    <3>8. rm.tx = ctx.tx /\ rm.flags = ctx.flags /\ rm.qos2_rx_cq = ctx.qos2_rx_cq /\ d.qos2_rx_cq = rm.qos2_rx_cq
      BY <3>2, <3>4, <3>5, <3>7 DEF SameBut, CtxFields
    <3>9. VhMsg("PUBREL", id) \in AnyMsg /\ VhMsg("PUBREL", id).type = "PUBREL"
      BY <1>0, <3>6, MsgTypes DEF id
    <3>10. Harmless(d)
      BY <1>0, <3>7, <3>8, <3>9, SendHarmless DEF TxMore, FlagsMore
    <3>. QED  BY <3>1, <3>10, PlainResult DEF id
  <2>. QED  BY <2>1, <2>2
<1>. QED  BY <1>3, <1>4

\* process_recv, of all but the server's message and its PUBREL
LEMMA ProcessPlain ==
  ASSUME IInv, RecvOnce, down # <<>>, NEW n \in Nat,
         Head(down).type \in {"PUBLISH", "PUBREL"} => "CONNACK_AWAIT" \in ctx.flags
  PROVE  Plain(process_recv(ctx, Head(down), n))
<1> DEFINE msg == Head(down)
           r   == process_recv(ctx, msg, n)
<1>0. Harmless(ctx) /\ DOMAIN ctx = CtxFields
  BY BeforeRecv DEF Harmless
<1>1. Plain(Bad(ctx))
  BY <1>0, PlainResult
<1>2. CASE "CONNACK_AWAIT" \in ctx.flags /\ msg.type = "CONNACK"
  <2>1. r = proc_connack_rx(ctx, msg, n)
    BY <1>2 DEF process_recv
  <2>. QED  BY <2>1, ConnackPlain
<1>3. CASE "CONNACK_AWAIT" \notin ctx.flags /\ msg.type \in {"PUBREC", "PUBACK", "SUBACK", "UNSUBACK"}
  <2>1. /\ msg.type = "PUBREC" => r = proc_pub_rec_rx(ctx, msg.id, n > 0)
        /\ msg.type \in {"PUBACK", "SUBACK", "UNSUBACK"} => r = proc_ack_msg_rx(ctx, msg.type, msg.id)
    BY <1>3 DEF process_recv
  <2>. QED  BY <1>3, <2>1, AckPlain
<1>4. CASE "CONNACK_AWAIT" \notin ctx.flags /\ msg.type = "PUBCOMP"
  <2> DEFINE d == [ctx EXCEPT !.qos2_tx_cq = qos2_pub_cq_unlog(@, msg.id)]
  <2>1. r = Result(d, TRUE, "PUBCOMP", 0) \/ r = Bad(d)
    BY <1>4 DEF process_recv, proc_pub_comp_rx
  <2>2. Harmless(d)
    BY <1>0 DEF Harmless, CtxFields
  <2> HIDE DEF d
  <2>. QED  BY <2>1, <2>2, PlainResult
<1>5. CASE "CONNACK_AWAIT" \notin ctx.flags /\ msg.type = "PINGRSP"
  <2> DEFINE d == [ctx EXCEPT !.flags = @ \ {"KA_PINGER_RSP"}]
  <2>1. r = Good(d) \/ r = Bad(ctx)
    BY <1>5 DEF process_recv, proc_pingrsp_rx
  <2>2. Harmless(d)
    BY <1>0 DEF Harmless, CtxFields
  <2> HIDE DEF d
  <2>. QED  BY <1>1, <2>1, <2>2, PlainResult
<1>6. CASE r = Bad(ctx)
  BY <1>1, <1>6
<1>7. "CONNACK_AWAIT" \in ctx.flags /\ msg.type # "CONNACK" => r = Bad(ctx)
  BY DEF process_recv
<1>8. "CONNACK_AWAIT" \notin ctx.flags
      /\ msg.type \notin {"PUBREC", "PUBREL", "PUBCOMP", "PUBACK", "SUBACK", "UNSUBACK", "PINGRSP", "PUBLISH"}
        => r = Bad(ctx)
  BY DEF process_recv
<1>. QED  BY <1>2, <1>3, <1>4, <1>5, <1>6, <1>7, <1>8

\* What is at the head of what the server sent, and what it means for the exchange
LEMMA OfferRead ==
  ASSUME TypeOK, RecvOnce, down # <<>>
  PROVE  /\ Head(down) \in AnyMsg /\ Sift(Tail(down), OfferMsgs) \in {Offers, <<>>}
         /\ Head(down).type \in {"PUBLISH", "PUBREL"} =>
              /\ Sift(Tail(down), OfferMsgs) = <<>> /\ Replies = <<>> /\ link # "open"
              /\ \/ Offered /\ Head(down) = TheMsg
                 \/ Accepted /\ Head(down) = VhMsg("PUBREL", 1)
<1> DEFINE s == Sift(Tail(down), OfferMsgs)
<1>1. down \in Seq(AnyMsg) /\ Head(down) \in AnyMsg /\ Tail(down) \in Seq(AnyMsg)
  BY DEF TypeOK
<1>2. Offers = (IF Head(down) \in OfferMsgs THEN <<Head(down)>> \o s ELSE s) /\ s \in Seq(AnyMsg)
  BY <1>1, SiftTail, SiftMembers DEF Offers
<1>3. Head(down) \in OfferMsgs <=> Head(down).type \in {"PUBLISH", "PUBREL"}
  BY <1>1 DEF OfferMsgs, AnyMsg
<1>4. CASE Head(down) \notin OfferMsgs
  BY <1>1, <1>2, <1>3, <1>4
<1>5. CASE Head(down) \in OfferMsgs
  <2> HIDE DEF s
  <2>1. Offers # <<>> /\ Offers[1] = Head(down) /\ Len(Offers) = Len(s) + 1 /\ Len(s) \in Nat
    BY <1>1, <1>2, <1>5
  <2>2. \/ Offered /\ Offers = <<TheMsg>> /\ Replies = <<>>
        \/ Accepted /\ Offers = <<VhMsg("PUBREL", 1)>> /\ Replies = <<>>
    BY <2>1 DEF RecvOnce, Exchange
  <2>3. \A x : Len(<<x>>) = 1 /\ <<x>>[1] = x
    OBVIOUS
  <2>4. s = <<>>
    <3>1. Len(Offers) = 1
      BY <2>2, <2>3
    <3>. QED  BY <1>2, <2>1, <3>1
  <2>5. link # "open"
    BY <2>1 DEF RecvOnce, OneHello
  <2>. QED  BY <1>1, <2>1, <2>2, <2>3, <2>4, <2>5 DEF s
<1>. QED  BY <1>4, <1>5

\* A packet is read and the connection kept: what follows for the rest
LEMMA ReadRecvOnce ==
  ASSUME TypeOK, RecvOnce, UNCHANGED <<app, server, count, link>>, ctx'.flags \subseteq ctx.flags \cup {"NETWORK_CLOSE"},
         Hellos' = Hellos, link # "open", Exchange', QueueFits(ctx'.qos2_rx_cq), GivenNoted'
  PROVE  RecvOnce'
<1>1. NeverClean'
  BY DEF RecvOnce, NeverClean
<1>2. OneHello'
  BY DEF RecvOnce, OneHello, Greeting
<1>. QED  BY <1>1, <1>2 DEF RecvOnce

\* The answer to the server's message
LEMMA AnswerSent ==
  ASSUME TypeOK, Replies = <<>>, NEW c, Ok(c, CallPacket), c.tx = ctx.tx, c.flags = ctx.flags,
         NEW t \in {"PUBREC", "PUBCOMP"}, NEW d, Answered(c, t, 1, d), ctx'.tx = d.tx, link' = link
  PROVE  /\ d.flags \subseteq ctx.flags \cup {"NETWORK_CLOSE"} /\ Hellos' = Hellos
         /\ Replies' \in {<<>>, <<VhMsg(t, 1)>>}
         /\ SameBut(c, d, {"tx", "flags", "tx_mqp", "tx_part"})
<1> DEFINE m == VhMsg(t, 1)
<1>1. t \in PacketTypes /\ 1 \in Nat
  BY DEF PacketTypes
<1>2. /\ Ok(d, CallPacket) /\ SameBut(c, d, {"tx", "flags", "tx_mqp", "tx_part"})
      /\ TxMore(c, d, VhMsg(t, 1)) /\ FlagsMore(c, d)
  BY <1>1, VhSent DEF Answered
<1>3. m \in AnyMsg /\ m \in ReplyMsgs /\ m \notin HelloMsgs
  BY <1>1, MsgTypes DEF VhMsg, Msg, ReplyMsgs, HelloMsgs
<1> HIDE DEF m
<1>4. ctx.tx \in Seq(AnyMsg) /\ (ctx'.tx = ctx.tx \/ ctx'.tx = Append(ctx.tx, m))
  BY <1>2 DEF TypeOK, IsCtx, TxMore, m
<1>5. /\ Sift(Append(ctx.tx, m), ReplyMsgs) = Append(Sift(ctx.tx, ReplyMsgs), m)
      /\ Sift(Append(ctx.tx, m), HelloMsgs) = Sift(ctx.tx, HelloMsgs)
  BY <1>3, <1>4, SiftAppend
<1>6. Hellos' = Hellos
  BY <1>4, <1>5 DEF Hellos
<1>7. Replies' \in {<<>>, <<m>>}
  <2>1. Append(<<>>, m) = <<m>>
    OBVIOUS
  <2>2. link # "none" => Sift(ctx.tx, ReplyMsgs) = <<>>
    BY DEF Replies
  <2>. QED  BY <1>4, <1>5, <2>1, <2>2 DEF Replies
<1>. QED  BY <1>2, <1>6, <1>7 DEF FlagsMore, m

\* The server's message comes and is given to the application: its id is noted.
LEMMA GivenRecvOnce ==
  ASSUME IInv, RecvOnce, down # <<>>, NEW n \in Nat, Head(down) = TheMsg, Offered,
         1 \notin Logged(ctx.qos2_rx_cq), ctx.qos2_rx_cq.n_free # 0,
         ctx' = vh_msg_send([ctx EXCEPT !.qos2_rx_cq = qos2_pub_cq_logup(@, 1)], "PUBREC", 1, n > 0),
         down' = Tail(down), received' = [received EXCEPT ![count.msgs] = @ + 1],
         UNCHANGED <<app, server, count, link>>
  PROVE  RecvOnce'
<1> DEFINE logged == [ctx EXCEPT !.qos2_rx_cq = qos2_pub_cq_logup(@, 1)]
           cq     == ctx.qos2_rx_cq
<1>0. TypeOK /\ Sound(ctx) /\ DOMAIN ctx = CtxFields /\ cq \in CqType /\ ctx.qos2_tx_cq \in CqType
  BY BeforeRecv
<1>1. /\ Sift(Tail(down), OfferMsgs) = <<>> /\ Replies = <<>> /\ link # "open"
  <2>1. Head(down).type = "PUBLISH"
    BY DEF TheMsg, Msg
  <2>. QED  BY <1>0, <2>1, OfferRead
<1>2. /\ CqOK(qos2_pub_cq_logup(cq, 1)) /\ Logged(qos2_pub_cq_logup(cq, 1)) = Logged(cq) \cup {1}
      /\ Logged(cq) \subseteq {1}
  <2>1. CqOK(cq) /\ Logged(cq) \subseteq {1}
    BY DEF RecvOnce, QueueFits
  <2>2. cq.n_free > 0
    BY <2>1, CqFields, CapacityNat
  <2>. QED  BY <2>1, <2>2, LogupAdds
<1>3. SameBut(ctx, logged, {"qos2_rx_cq", "qos2_tx_cq"}) /\ logged.qos2_rx_cq = qos2_pub_cq_logup(cq, 1)
      /\ logged.qos2_tx_cq = ctx.qos2_tx_cq
  BY <1>0 DEF SameBut, CtxFields
<1>4. qos2_pub_cq_logup(cq, 1) \in CqType
  <2>1. cq.n_free > 0
    BY <1>0, CapacityNat DEF CqType
  <2>. QED  BY <1>0, <2>1, QueueTypes
<1> HIDE DEF logged
<1>5. Sound(logged) /\ logged.tx = ctx.tx /\ logged.flags = ctx.flags
  BY <1>0, <1>3, <1>4, QueueChanged
<1>6. Ok(logged, CallPacket) /\ Answered(logged, "PUBREC", 1, ctx')
  BY <1>5, SentOrNot DEF Sound, logged
<1>7. /\ ctx'.flags \subseteq ctx.flags \cup {"NETWORK_CLOSE"} /\ Hellos' = Hellos
      /\ Replies' \in {<<>>, <<VhMsg("PUBREC", 1)>>}
      /\ SameBut(logged, ctx', {"tx", "flags", "tx_mqp", "tx_part"})
  BY <1>0, <1>1, <1>5, <1>6, AnswerSent
<1>8. ctx'.qos2_rx_cq = qos2_pub_cq_logup(cq, 1)
  BY <1>3, <1>7 DEF SameBut, CtxFields
<1>9. TheMsg' = TheMsg /\ Offered' /\ Offers' = <<>>
  BY <1>1 DEF TheMsg, Offered, Offers
<1>10. Exchange'
  BY <1>7, <1>9 DEF Exchange
<1>11. GivenNoted'
  <2>1. count.msgs \in 1..MaxMessages /\ received[count.msgs] = 0
    BY SlMqttAssumption DEF RecvOnce, GivenNoted, Offered
  <2>2. received' \in [1..MaxMessages -> {0, 1}] /\ \A b \in 1..MaxMessages : b > count.msgs => received'[b] = 0
    BY <2>1 DEF RecvOnce, GivenNoted
  <2>. QED  BY <1>2, <1>8, <2>1, <2>2 DEF GivenNoted
<1>12. QueueFits(ctx'.qos2_rx_cq)
  BY <1>2, <1>8 DEF QueueFits
<1>. QED  BY <1>0, <1>1, <1>7, <1>10, <1>11, <1>12, ReadRecvOnce

\* The only id in the queue is the oldest.
LEMMA OldestId ==
  ASSUME NEW cq, QueueFits(cq), 1 \in Logged(cq)
  PROVE  UnlogSucceeds(cq, 1)
<1>1. /\ cq.rd_idx \in 0..LastIdx /\ qos2_pub_cq_count(cq) \in 0..MAX_PUBREL_INFLT
  BY CqFields DEF QueueFits
<1>2. qos2_pub_cq_count(cq) > 0
  BY <1>1, CapacityNat DEF Logged
<1>3. Masked(cq.rd_idx + 0) = cq.rd_idx
  <2>1. cq.rd_idx < MAX_PUBREL_INFLT /\ cq.rd_idx + 0 = cq.rd_idx /\ 0 \in 0..MAX_PUBREL_INFLT
    BY <1>1, CapacityNat DEF LastIdx
  <2>. QED  BY <1>1, <2>1, PlaceBehind
<1>4. cq.id_vec[cq.rd_idx] \in Logged(cq)
  <2>1. 0 \in 0..(qos2_pub_cq_count(cq) - 1)
    BY <1>1, <1>2, CapacityNat
  <2>. QED  BY <1>3, <2>1, Zenon DEF Logged
<1>5. cq.id_vec[cq.rd_idx] = 1
  BY <1>4 DEF QueueFits
<1>6. cq.rd_idx < MAX_PUBREL_INFLT
  BY <1>1, CapacityNat DEF LastIdx
<1>. QED  BY <1>2, <1>5, <1>6 DEF UnlogSucceeds, IdAt

\* The PUBREL comes: the id is forgotten, and the server waits for the PUBCOMP
\* or will send the PUBREL again.
LEMMA ReleasedRecvOnce ==
  ASSUME IInv, RecvOnce, down # <<>>, NEW n \in Nat, Head(down) = VhMsg("PUBREL", 1), Accepted,
         ctx' = proc_pub_rel_rx(ctx, 1, n > 0).c, down' = Tail(down),
         UNCHANGED <<app, server, count, link, received>>
  PROVE  RecvOnce'
<1> DEFINE sent == vh_msg_send(ctx, "PUBCOMP", 1, n > 0)
           cq   == ctx.qos2_rx_cq
<1>0. TypeOK /\ Sound(ctx) /\ DOMAIN ctx = CtxFields /\ Ok(ctx, CallPacket)
  BY BeforeRecv DEF Sound
<1>1. Sift(Tail(down), OfferMsgs) = <<>> /\ Replies = <<>> /\ link # "open"
  <2>1. Head(down).type = "PUBREL"
    BY DEF VhMsg, Msg
  <2>. QED  BY <1>0, <2>1, OfferRead
<1>2. Answered(ctx, "PUBCOMP", 1, sent)
  BY SentOrNot
<1>3. ctx' = IF qos2_pub_cq_check(sent.qos2_rx_cq, 1)
             THEN [sent EXCEPT !.qos2_rx_cq = qos2_pub_cq_unlog(@, 1)] ELSE sent
  BY DEF proc_pub_rel_rx, Good, Result
<1> HIDE DEF sent
<1>4. SameBut(ctx, sent, {"tx", "flags", "tx_mqp", "tx_part"})
  <2>1. "PUBCOMP" \in PacketTypes /\ 1 \in Nat
    BY DEF PacketTypes
  <2>. QED  BY ONLY <1>0, <1>2, <2>1, VhSent DEF Answered
<1>5. /\ ctx'.tx = sent.tx /\ ctx'.flags = sent.flags
      /\ ctx'.qos2_rx_cq = IF qos2_pub_cq_check(cq, 1) THEN qos2_pub_cq_unlog(cq, 1) ELSE cq
  BY <1>3, <1>4 DEF SameBut, CtxFields
<1>6. /\ sent.flags \subseteq ctx.flags \cup {"NETWORK_CLOSE"} /\ Hellos' = Hellos
      /\ Replies' \in {<<>>, <<VhMsg("PUBCOMP", 1)>>}
  BY <1>0, <1>1, <1>2, <1>5, AnswerSent
<1>7. QueueFits(ctx'.qos2_rx_cq)
  <2>1. QueueFits(cq)
    BY DEF RecvOnce
  <2>2. CASE ~qos2_pub_cq_check(cq, 1)
    BY <1>5, <2>1, <2>2
  <2>3. CASE qos2_pub_cq_check(cq, 1)
    <3>1. 1 \in Logged(cq)
      BY <2>1, <2>3, CheckIsLogged DEF QueueFits
    <3>2. UnlogSucceeds(cq, 1)
      BY <2>1, <3>1, OldestId
    <3>3. CqOK(qos2_pub_cq_unlog(cq, 1)) /\ Logged(cq) = Logged(qos2_pub_cq_unlog(cq, 1)) \cup {1}
      BY <2>1, <3>2, UnlogTakesOldest DEF QueueFits
    <3>. QED  BY <1>5, <2>1, <2>3, <3>3 DEF QueueFits
  <2>. QED  BY <2>2, <2>3
<1>8. Accepted' /\ ~Offered' /\ Offers' = <<>>
  BY <1>1 DEF TheMsg, Offered, Accepted, Offers
<1>9. Exchange'
  BY <1>6, <1>8 DEF Exchange
<1>10. GivenNoted'
  BY <1>8 DEF RecvOnce, GivenNoted
<1>. QED  BY <1>0, <1>1, <1>5, <1>6, <1>7, <1>9, <1>10, ReadRecvOnce

\* A received packet is processed.
LEMMA RxProcessRecvOnce ==
  ASSUME IInv, RecvOnce, RxProcess
  PROVE  RecvOnce'
<1>0. down # <<>> /\ UNCHANGED <<app, server, count>> /\ TypeOK
  BY DEF RxProcess, IInv
<1>1. SentCounts \subseteq Nat
  <2>1. Len(ToResend(ctx)) \in Nat
    BY ResendItems DEF IInv, TypeOK
  <2>. QED  BY <2>1 DEF SentCounts
<1>2. PICK n \in Nat :
        LET r == process_recv(ctx, Head(down), n)
            ack == IF Notified(r.ack) THEN "" ELSE awaited_ack
            sig == ack_sync_obj \/ Notified(r.ack)
            refused == r.ack = "CONNACK" /\ Head(down).id # 0
        IN /\ received' = IF r.body = 0 THEN received ELSE [received EXCEPT ![r.body] = @ + 1]
           /\ IF ~r.rv \/ refused
              THEN NetCloseRx(r.c, ack, sig)
              ELSE ctx' = r.c /\ down' = Tail(down) /\ link' = link
  BY <1>1 DEF RxProcess
<1> DEFINE msg == Head(down)
           r == process_recv(ctx, msg, n)
           refused == r.ack = "CONNACK" /\ msg.id # 0
<1>3. /\ msg \in AnyMsg /\ Sift(Tail(down), OfferMsgs) \in {Offers, <<>>}
      /\ msg.type \in {"PUBLISH", "PUBREL"} =>
           /\ Sift(Tail(down), OfferMsgs) = <<>> /\ Replies = <<>> /\ link # "open"
           /\ \/ Offered /\ msg = TheMsg
              \/ Accepted /\ msg = VhMsg("PUBREL", 1)
  BY <1>0, OfferRead
<1>4. CASE Plain(r)
  <2>1. Sound(r.c) /\ "CLEAN_SESSION" \notin ctx.flags
    BY <1>0, ProcessOk DEF Handled, RecvOnce, NeverClean
  <2> HIDE DEF r
  <2>2. received' = received /\ Harmless(r.c)
    BY <1>2, <1>4 DEF Plain, r
  <2>3. "CLEAN_SESSION" \notin r.c.flags /\ r.c.qos2_rx_cq = ctx.qos2_rx_cq
    BY <2>1, <2>2 DEF Harmless
  <2>4. CASE ~r.rv \/ refused
    <3>1. ctx' = do_net_close(r.c) /\ link' = "none" /\ down' = <<>>
      BY <1>2, <2>4 DEF r, NetCloseRx, NetClose
    <3>. QED  BY <1>0, <2>1, <2>2, <2>3, <3>1, ClosedRecvOnce
  <2>5. CASE ~(~r.rv \/ refused)
    <3>1. ctx' = r.c /\ down' = Tail(down) /\ link' = link
      BY <1>2, <2>5 DEF r
    <3>2. Offers' \in {Offers, <<>>} /\ Replies' = Replies /\ Hellos' = Hellos
      BY <1>3, <2>2, <3>1 DEF Harmless, Offers, Replies, Hellos
    <3>3. CallHarmless /\ (link' # "none" /\ Greeting' => link' = "open" /\ Hellos' = <<>>)
      BY <1>0, <3>1, <3>2, SameCallHarmless DEF RecvOnce, OneHello
    <3>. QED  BY <1>0, <2>2, <2>3, <3>1, <3>2, <3>3, LosingOnce
  <2>. QED  BY <2>4, <2>5
<1>5. CASE msg.type \in {"PUBLISH", "PUBREL"} => "CONNACK_AWAIT" \in ctx.flags
  <2>1. Plain(r)
    BY <1>0, <1>5, ProcessPlain
  <2>. QED  BY <1>4, <2>1
<1>6. CASE msg.type = "PUBREL" /\ "CONNACK_AWAIT" \notin ctx.flags
  <2>1. msg = VhMsg("PUBREL", 1) /\ Accepted /\ msg.id = 1
    BY <1>3, <1>6 DEF TheMsg, VhMsg, Msg
  <2>2. r = proc_pub_rel_rx(ctx, 1, n > 0)
    BY <1>6, <2>1 DEF process_recv
  <2> HIDE DEF r
  <2>3. r.rv = TRUE /\ r.ack = "" /\ r.body = 0
    <3>1. PICK d : r = Good(d)
      BY <2>2 DEF proc_pub_rel_rx
    <3>. QED  BY <3>1 DEF Good, Result
  <2>4. ctx' = r.c /\ down' = Tail(down) /\ link' = link /\ received' = received
    BY <1>2, <2>3 DEF r
  <2>. QED  BY <1>0, <2>1, <2>2, <2>4, ReleasedRecvOnce
<1>7. CASE msg.type = "PUBLISH" /\ "CONNACK_AWAIT" \notin ctx.flags
  <2> DEFINE cq == ctx.qos2_rx_cq
  <2>1. msg = TheMsg /\ Offered /\ msg.id = 1 /\ msg.qos = 2 /\ msg.body = count.msgs
    BY <1>3, <1>7 DEF TheMsg, VhMsg, Msg
  <2>2. r = proc_pub_msg_rx(ctx, msg, n > 0)
    BY <1>7 DEF process_recv
  <2>3. qos2_pub_cq_check(cq, 1) <=> 1 \in Logged(cq)
    BY CheckIsLogged DEF RecvOnce, QueueFits
  <2>4. /\ qos2_pub_cq_check(cq, msg.id) => r = Good(ctx)
        /\ ~qos2_pub_cq_check(cq, msg.id) /\ cq.n_free = 0 => r = Bad(ctx)
    <3>1. ASSUME qos2_pub_cq_check(cq, msg.id) PROVE r = Good(ctx)
      BY <2>1, <2>2, <3>1, PubMsgCases
    <3>2. ASSUME ~qos2_pub_cq_check(cq, msg.id), cq.n_free = 0 PROVE r = Bad(ctx)
      BY <2>1, <2>2, <3>2, PubMsgCases
    <3>. QED  BY <3>1, <3>2
  <2>5. CASE qos2_pub_cq_check(cq, msg.id) \/ cq.n_free = 0
    <3>1. Harmless(ctx)
      BY DEF Harmless
    <3>2. Plain(r)
      BY <2>4, <2>5, <3>1, PlainResult
    <3>. QED  BY <1>4, <3>2
  <2>6. CASE ~qos2_pub_cq_check(cq, msg.id) /\ cq.n_free # 0
    <3> DEFINE c == vh_msg_send([ctx EXCEPT !.qos2_rx_cq = qos2_pub_cq_logup(@, 1)], "PUBREC", 1, n > 0)
    <3>1. r = Result(c, TRUE, "", msg.body)
      <4>1. r = Result(vh_msg_send([ctx EXCEPT !.qos2_rx_cq = qos2_pub_cq_logup(@, msg.id)],
                                   "PUBREC", msg.id, n > 0), TRUE, "", msg.body)
        BY <2>1, <2>2, <2>6, PubMsgCases DEF vh_msg_send, cl_ctx_seg1_send, cl_ctx_part_send
      <4>. QED  BY <2>1, <4>1
    <3> HIDE DEF c, r
    <3>2. r.c = c /\ r.rv = TRUE /\ r.ack = "" /\ r.body = count.msgs
      BY <2>1, <3>1 DEF Result
    <3>3. count.msgs # 0
      BY <2>1 DEF RecvOnce, GivenNoted, Offered
    <3>4. /\ ctx' = c /\ down' = Tail(down) /\ link' = link
          /\ received' = [received EXCEPT ![count.msgs] = @ + 1]
      BY <1>2, <3>2, <3>3 DEF r
    <3>5. 1 \notin Logged(cq)
      BY <2>1, <2>3, <2>6
    <3>. QED  BY <1>0, <2>1, <2>6, <3>4, <3>5, GivenRecvOnce DEF c
  <2>. QED  BY <2>5, <2>6
<1>. QED  BY <1>5, <1>6, <1>7

-----------------------------------------------------------------------------
\* What the server reads, and what it means for the exchange
LEMMA ReplyRead ==
  ASSUME TypeOK, RecvOnce, ctx.tx # <<>>, link # "none"
  PROVE  /\ Head(ctx.tx) \in AnyMsg
         /\ Head(ctx.tx).type # "CONNECT" => Sift(Tail(ctx.tx), HelloMsgs) = Hellos
         /\ Head(ctx.tx).type \notin {"PUBREC", "PUBCOMP", "PUBACK"} => Sift(Tail(ctx.tx), ReplyMsgs) = Replies
         /\ Head(ctx.tx).type = "CONNECT" =>
              /\ Sift(Tail(ctx.tx), HelloMsgs) = <<>> /\ Head(ctx.tx).id # 1 /\ link = "open" /\ ~Greeting
              /\ Offers = <<>> /\ Replies = <<>>
         /\ Head(ctx.tx).type \in {"PUBREC", "PUBCOMP", "PUBACK"} =>
              /\ Sift(Tail(ctx.tx), ReplyMsgs) = <<>> /\ Offers = <<>> /\ link = "session"
              /\ \/ Offered /\ Head(ctx.tx) = VhMsg("PUBREC", 1)
                 \/ Accepted /\ Head(ctx.tx) = VhMsg("PUBCOMP", 1)
<1> DEFINE m == Head(ctx.tx)
           h == Sift(Tail(ctx.tx), HelloMsgs)
           s == Sift(Tail(ctx.tx), ReplyMsgs)
<1>1. ctx.tx \in Seq(AnyMsg) /\ m \in AnyMsg /\ Tail(ctx.tx) \in Seq(AnyMsg) /\ link \in {"open", "session"}
  BY DEF TypeOK, IsCtx
<1>2. /\ Replies = (IF m \in ReplyMsgs THEN <<m>> \o s ELSE s) /\ s \in Seq(AnyMsg)
      /\ Hellos = (IF m \in HelloMsgs THEN <<m>> \o h ELSE h) /\ h \in Seq(AnyMsg)
  BY <1>1, SiftTail, SiftMembers DEF Replies, Hellos
<1>3. /\ m \in ReplyMsgs <=> m.type \in {"PUBREC", "PUBCOMP", "PUBACK"}
      /\ m \in HelloMsgs <=> m.type = "CONNECT"
  BY <1>1 DEF ReplyMsgs, HelloMsgs, AnyMsg
<1> HIDE DEF s, h
<1>4. \A x : Len(<<x>>) = 1 /\ <<x>>[1] = x /\ <<x>> # <<>>
  OBVIOUS
<1>5. ASSUME m.type = "CONNECT"
      PROVE  h = <<>> /\ m.id # 1 /\ link = "open" /\ ~Greeting /\ Offers = <<>> /\ Replies = <<>>
  <2>1. Hellos # <<>> /\ Hellos[1] = m /\ Len(Hellos) = Len(h) + 1 /\ Len(h) \in Nat
    BY <1>1, <1>2, <1>3, <1>5
  <2>2. Len(Hellos) = 1 /\ m.id # 1 /\ link = "open" /\ ~Greeting /\ Offers = <<>> /\ Replies = <<>>
    BY <1>1, <2>1 DEF RecvOnce, OneHello
  <2>3. h = <<>>
    BY <1>2, <2>1, <2>2
  <2>. QED  BY <2>2, <2>3
<1>6. ASSUME m.type \in {"PUBREC", "PUBCOMP", "PUBACK"}
      PROVE  /\ s = <<>> /\ Offers = <<>> /\ link = "session"
             /\ \/ Offered /\ m = VhMsg("PUBREC", 1)
                \/ Accepted /\ m = VhMsg("PUBCOMP", 1)
  <2>1. Replies # <<>> /\ Replies[1] = m /\ Len(Replies) = Len(s) + 1 /\ Len(s) \in Nat
    BY <1>1, <1>2, <1>3, <1>6
  <2>2. \/ Offered  /\ Offers = <<>> /\ Replies = <<VhMsg("PUBREC", 1)>>
        \/ Accepted /\ Offers = <<>> /\ Replies = <<VhMsg("PUBCOMP", 1)>>
    BY <2>1 DEF RecvOnce, Exchange
  <2>3. s = <<>>
    <3>1. Len(Replies) = 1
      BY <1>4, <2>2
    <3>. QED  BY <1>2, <2>1, <3>1
  <2>4. link = "session"
    BY <1>1, <2>1 DEF RecvOnce, OneHello
  <2>5. \A x : Replies = <<x>> => m = x
    BY <2>1
  <2> HIDE DEF m
  <2>. QED  BY <2>2, <2>3, <2>4, <2>5
<1>. QED  BY <1>1, <1>2, <1>3, <1>5, <1>6 DEF s, h

\* What answers a packet that does not belong to the exchange
LEMMA QuietReply ==
  ASSUME NEW s \in ServerType, NEW m \in AnyMsg, m.type \notin {"CONNECT", "PUBREC", "PUBCOMP", "PUBACK"}
  PROVE  LET r == ServerReply(s, m)
         IN  r.session.out = s.out /\ r.session.clean = s.clean /\ r.msgs \in Seq(AnyMsg) /\ Sift(r.msgs, OfferMsgs) = <<>>
<1> DEFINE r == ServerReply(s, m)
           QuietTypes == {"PUBACK", "PUBREC", "PUBCOMP", "SUBACK", "UNSUBACK", "PINGRSP"}
<1>1. \/ \E c \in ServerType, t \in QuietTypes, id \in Nat :
           r = Reply(c, <<VhMsg(t, id)>>) /\ c.out = s.out /\ c.clean = s.clean
      \/ r = Reply(s, <<>>)
  <2>1. m.id \in Nat /\ 0 \in Nat
    BY DEF AnyMsg
  <2> DEFINE more == [s EXCEPT !.rcvd = @ \cup {m.id}]
             less == [s EXCEPT !.rcvd = @ \ {m.id}]
  <2>2. /\ more \in ServerType /\ more.out = s.out /\ more.clean = s.clean
        /\ less \in ServerType /\ less.out = s.out /\ less.clean = s.clean
    BY <2>1 DEF ServerType
  <2>3. r \in {Reply(s, <<VhMsg("PUBACK", m.id)>>), Reply(more, <<VhMsg("PUBREC", m.id)>>),
               Reply(less, <<VhMsg("PUBCOMP", m.id)>>), Reply(s, <<VhMsg("SUBACK", m.id)>>),
               Reply(s, <<VhMsg("UNSUBACK", m.id)>>), Reply(s, <<VhMsg("PINGRSP", 0)>>), Reply(s, <<>>)}
    BY DEF ServerReply
  <2> HIDE DEF r, more, less
  <2>. QED  BY <2>1, <2>2, <2>3
<1>2. CASE r = Reply(s, <<>>)
  <2>1. r.session = s /\ r.msgs = <<>> /\ <<>> \in Seq(AnyMsg)
    BY <1>2 DEF Reply
  <2>. QED  BY <2>1, SiftEmpty
<1>3. ASSUME NEW c \in ServerType, NEW t \in QuietTypes, NEW id \in Nat,
             r = Reply(c, <<VhMsg(t, id)>>), c.out = s.out, c.clean = s.clean
      PROVE  r.session.out = s.out /\ r.session.clean = s.clean /\ r.msgs \in Seq(AnyMsg) /\ Sift(r.msgs, OfferMsgs) = <<>>
  <2>1. t \in PacketTypes
    BY DEF PacketTypes
  <2>2. VhMsg(t, id) \in AnyMsg /\ VhMsg(t, id) \notin OfferMsgs
    BY <2>1, MsgTypes DEF OfferMsgs
  <2>3. r.session = c /\ r.msgs = <<VhMsg(t, id)>>
    BY <1>3 DEF Reply
  <2>4. Sift(<<VhMsg(t, id)>>, OfferMsgs) = <<>>
    BY <2>2, SiftOne
  <2>5. \A x \in AnyMsg : <<x>> \in Seq(AnyMsg)
    OBVIOUS
  <2> HIDE DEF r, VhMsg
  <2>. QED  BY <1>3, <2>2, <2>3, <2>4, <2>5
<1>. QED  BY <1>1, <1>2, <1>3

\* A step of the server moves the exchange on.
LEMMA ExchangeMoves ==
  ASSUME RecvOnce, UNCHANGED <<app, received>>, count'.msgs = count.msgs, ctx'.flags = ctx.flags,
         ctx'.qos2_rx_cq = ctx.qos2_rx_cq, ~server'.clean, OneHello', Exchange', Offered' => Offered
  PROVE  RecvOnce'
<1>1. NeverClean'
  BY DEF RecvOnce, NeverClean
<1>2. GivenNoted'
  BY DEF RecvOnce, GivenNoted
<1>3. QueueFits(ctx.qos2_rx_cq)'
  BY DEF RecvOnce, QueueFits
<1>. QED  BY <1>1, <1>2, <1>3 DEF RecvOnce

\* The list of unfinished messages, with at most one message
LEMMA OneUnfinished ==
  ASSUME NEW m, NEW id, m.id = id, NEW released \in BOOLEAN
  PROVE  LET out == <<[msg |-> m, released |-> released]>>
         IN  Finished(out, id) = <<>> /\ Released(out, id) = <<[msg |-> m, released |-> TRUE]>>
<1> DEFINE o == [msg |-> m, released |-> released]
           out == <<o>>
           I == {i \in 1..Len(out) : out[i].msg.id = id}
<1>1. Len(out) = 1 /\ out[1] = o /\ o.msg = m
  OBVIOUS
<1>2. I = {1}
  <2> HIDE DEF out, o
  <2>. QED  BY <1>1
<1>3. OutAt(out, id) = IF I # {} THEN Min(I) ELSE 0
  BY DEF OutAt, SelectInSeq
<1>4. Min({1}) = 1
  BY DEF Min
<1>5. OutAt(out, id) = 1
  BY <1>2, <1>3, <1>4
<1>6. Finished(out, id) = SubSeq(out, 1, 0) \o SubSeq(out, 2, 1)
  <2>1. Finished(out, id) = SubSeq(out, 1, 1 - 1) \o SubSeq(out, 1 + 1, Len(out))
    BY <1>5 DEF Finished, RemoveAt
  <2>. QED  BY <1>1, <2>1
<1>7. SubSeq(out, 1, 0) = <<>> /\ SubSeq(out, 2, 1) = <<>> /\ <<>> \o <<>> = <<>>
  OBVIOUS
<1>8. Released(out, id) = [out EXCEPT ![1].released = TRUE]
  <2> HIDE DEF out
  <2>. QED  BY <1>5 DEF Released
<1>9. [out EXCEPT ![1].released = TRUE] = <<[msg |-> m, released |-> TRUE]>>
  <2>1. \A x, y : [<<x>> EXCEPT ![1] = y] = <<y>>
    OBVIOUS
  <2>2. [o EXCEPT !.released = TRUE] = [msg |-> m, released |-> TRUE]
    <3>1. [o EXCEPT !.released = TRUE] \in [msg : {m}, released : BOOLEAN]
      OBVIOUS
    <3>2. \A x \in [msg : {m}, released : BOOLEAN] : x = [msg |-> x.msg, released |-> x.released]
      OBVIOUS
    <3>. QED  BY <3>1, <3>2
  <2>3. [out EXCEPT ![1].released = TRUE] = [out EXCEPT ![1] = [o EXCEPT !.released = TRUE]]
    BY <1>1
  <2>. QED  BY <2>1, <2>2, <2>3
<1>. QED  BY <1>6, <1>7, <1>8, <1>9

\* What a CONNECT that keeps the session has sent again
LEMMA ResentOnce ==
  ASSUME RecvOnce, server.out = <<>> \/ Offered \/ Accepted
  PROVE  /\ server.out = <<>> => Resent(server.out) = <<>>
         /\ Offered => Resent(server.out) = <<TheMsg>>
         /\ Accepted => Resent(server.out) = <<VhMsg("PUBREL", 1)>>
<1>1. Resent(<<>>) = <<>>
  BY DEF Resent
<1>2. TheMsg.id = 1
  BY DEF TheMsg, Msg
<1>3. \A m : /\ Resent(<<[msg |-> m, released |-> FALSE]>>) = <<m>>
             /\ Resent(<<[msg |-> m, released |-> TRUE]>>) = <<VhMsg("PUBREL", m.id)>>
  BY DEF Resent
<1>. QED  BY <1>1, <1>2, <1>3 DEF Offered, Accepted

\* The server reads a packet.
LEMMA ServerRecvRecvOnce ==
  ASSUME IInv, RecvOnce, ServerRecv
  PROVE  RecvOnce'
<1> DEFINE m == Head(ctx.tx)
           r == ServerReply(server, m)
<1>0. /\ TypeOK /\ link # "none" /\ ctx.tx # <<>> /\ DOMAIN ctx = CtxFields /\ server \in ServerType
      /\ down \in Seq(AnyMsg) /\ Offers \in Seq(AnyMsg)
  BY UnderWayTyped DEF IInv, TypeOK, ServerRecv, ServerType
<1>1. /\ UNCHANGED <<app, count, received>> /\ server' = r.session /\ down' = down \o r.msgs
      /\ ctx' = [ctx EXCEPT !.tx = Tail(@)]
      /\ link' = CASE m.type = "CONNECT" -> "session" [] m.type = "DISCONNECT" -> "none" [] OTHER -> link
  BY DEF ServerRecv
<1>2. ctx'.tx = Tail(ctx.tx) /\ ctx'.flags = ctx.flags /\ ctx'.qos2_rx_cq = ctx.qos2_rx_cq
  BY <1>0, <1>1 DEF CtxFields
<1>3. /\ m \in AnyMsg
      /\ m.type # "CONNECT" => Sift(Tail(ctx.tx), HelloMsgs) = Hellos
      /\ m.type \notin {"PUBREC", "PUBCOMP", "PUBACK"} => Sift(Tail(ctx.tx), ReplyMsgs) = Replies
      /\ m.type = "CONNECT" =>
           /\ Sift(Tail(ctx.tx), HelloMsgs) = <<>> /\ m.id # 1 /\ link = "open" /\ ~Greeting
           /\ Offers = <<>> /\ Replies = <<>>
      /\ m.type \in {"PUBREC", "PUBCOMP", "PUBACK"} =>
           /\ Sift(Tail(ctx.tx), ReplyMsgs) = <<>> /\ Offers = <<>> /\ link = "session"
           /\ \/ Offered /\ m = VhMsg("PUBREC", 1)
              \/ Accepted /\ m = VhMsg("PUBCOMP", 1)
  BY <1>0, ReplyRead
<1>4. CallHarmless /\ (Greeting' => Greeting) /\ ~server.clean /\ "CLEAN_SESSION" \notin ctx.flags
  BY <1>1, SameCallHarmless DEF RecvOnce, NeverClean
<1>5. count.msgs \in Nat
  BY <1>0 DEF TypeOK
<1> HIDE DEF m
<1>6. ASSUME NEW u \in Seq(AnyMsg), r.msgs = u PROVE Offers' = Offers \o Sift(u, OfferMsgs)
  <2>1. \A keep : Sift(down \o u, keep) = Sift(down, keep) \o Sift(u, keep)
    BY ONLY <1>0, <1>6, SiftConcat
  <2>. QED  BY <1>1, <1>6, <2>1 DEF Offers
<1>7. CASE m.type \notin {"CONNECT", "PUBREC", "PUBCOMP", "PUBACK"}
  <2>1. r.session.out = server.out /\ r.session.clean = server.clean /\ r.msgs \in Seq(AnyMsg) /\ Sift(r.msgs, OfferMsgs) = <<>>
    BY <1>0, <1>3, <1>7, QuietReply
  <2> HIDE DEF r
  <2>2. Offers' = Offers
    BY <1>0, <1>6, <2>1
  <2>3. link' \in {link, "none"}
    BY <1>1, <1>7
  <2>4. Replies' \in {Replies, <<>>} /\ Hellos' \in {Hellos, <<>>} /\ (link' # "none" => Hellos' = Hellos)
    BY <1>0, <1>2, <1>3, <1>7, <2>3 DEF Replies, Hellos
  <2>5. link' # "none" /\ Greeting' => link' = "open" /\ Hellos' = <<>>
    BY <1>4, <2>3, <2>4 DEF RecvOnce, OneHello
  <2>6. UNCHANGED received /\ count'.msgs = count.msgs /\ server'.out = server.out /\ server'.clean = server.clean
    BY <1>1, <2>1
  <2>. QED  BY <1>2, <1>4, <2>2, <2>3, <2>4, <2>5, <2>6, LosingOnce
<1>8. ASSUME m.type = "CONNECT" PROVE RecvOnce'
  <2> DEFINE again == Resent(server.out)
  <2>1. r = Reply(server, <<VhMsg("CONNACK", 0)>> \o again)
    BY <1>3, <1>4, <1>8 DEF ServerReply
  <2>2. r.session = server /\ r.msgs = <<VhMsg("CONNACK", 0)>> \o again
    BY <2>1 DEF Reply
  <2>3. VhMsg("CONNACK", 0) \in AnyMsg /\ VhMsg("CONNACK", 0) \notin OfferMsgs /\ again \in Seq(AnyMsg)
    BY <1>0, MsgTypes, ResentTypes DEF PacketTypes, OfferMsgs, ServerType
  <2> HIDE DEF r, again, VhMsg
  <2>4. Offers' = Sift(again, OfferMsgs)
    <3>1. <<VhMsg("CONNACK", 0)>> \in Seq(AnyMsg)
      BY <2>3
    <3>2. Sift(<<VhMsg("CONNACK", 0)>> \o again, OfferMsgs)
            = Sift(<<VhMsg("CONNACK", 0)>>, OfferMsgs) \o Sift(again, OfferMsgs)
      <4>1. \A v, w \in Seq(AnyMsg) : Sift(v \o w, OfferMsgs) = Sift(v, OfferMsgs) \o Sift(w, OfferMsgs)
        BY SiftConcat
      <4>. QED  BY <2>3, <3>1, <4>1
    <3>3. Sift(<<VhMsg("CONNACK", 0)>>, OfferMsgs) = <<>> /\ Sift(again, OfferMsgs) \in Seq(AnyMsg)
      BY <2>3, SiftOne, SiftMembers
    <3>4. r.msgs \in Seq(AnyMsg)
      BY <2>2, <2>3, <3>1
    <3>5. Sift(r.msgs, OfferMsgs) = Sift(again, OfferMsgs)
      <4>1. \A w \in Seq(AnyMsg) : <<>> \o w = w
        OBVIOUS
      <4>. QED  BY <2>2, <3>2, <3>3, <4>1
    <3>. QED  BY <1>3, <1>6, <1>8, <3>3, <3>4, <3>5
  <2>5. UNCHANGED <<app, received, count, server>> /\ link' = "session" /\ Replies' = <<>> /\ Hellos' = <<>>
    BY <1>1, <1>2, <1>3, <1>8, <2>2 DEF Replies, Hellos
  <2>6. TheMsg' = TheMsg /\ (Offered' <=> Offered) /\ (Accepted' <=> Accepted)
    BY <2>5 DEF TheMsg, Offered, Accepted
  <2>7. server.out = <<>> \/ Offered \/ Accepted
    BY DEF RecvOnce, Exchange
  <2>8. TheMsg \in OfferMsgs /\ VhMsg("PUBREL", 1) \in OfferMsgs
    BY <1>5 DEF TheMsg, VhMsg, Msg, OfferMsgs
  <2>9. Exchange'
    <3>1. CASE server.out = <<>>
      <4>1. Offers' = <<>>
        BY <2>4, <3>1, ResentOnce, SiftEmpty DEF again
      <4>. QED  BY <2>5, <3>1, <4>1 DEF Exchange
    <3>2. CASE Offered
      <4>1. Offers' = <<TheMsg>>
        BY <2>4, <2>7, <2>8, <3>2, ResentOnce, SiftOne DEF again
      <4>. QED  BY <2>5, <2>6, <3>2, <4>1 DEF Exchange
    <3>3. CASE Accepted
      <4>1. Offers' = <<VhMsg("PUBREL", 1)>>
        BY <2>4, <2>7, <2>8, <3>3, ResentOnce, SiftOne DEF again
      <4>. QED  BY <2>5, <2>6, <3>3, <4>1 DEF Exchange, VhMsg
    <3>. QED  BY <2>7, <3>1, <3>2, <3>3
  <2>10. OneHello'
    BY <1>3, <1>4, <1>8, <2>5 DEF OneHello
  <2>. QED  BY <1>2, <1>4, <2>5, <2>6, <2>9, <2>10, ExchangeMoves
<1>9. ASSUME m.type \in {"PUBREC", "PUBCOMP", "PUBACK"} PROVE RecvOnce'
  <2>1. /\ UNCHANGED <<app, received, count>> /\ link' = "session" /\ Replies' = <<>> /\ Hellos' = Hellos
        /\ Offers = <<>> /\ TheMsg' = TheMsg /\ count'.msgs = count.msgs
    BY <1>0, <1>1, <1>2, <1>3, <1>9 DEF Replies, Hellos, TheMsg
  <2>2. OneHello'
    BY <1>3, <1>4, <1>9, <2>1 DEF RecvOnce, OneHello
  <2>3. TheMsg.id = 1 /\ 1 \in Nat
    BY DEF TheMsg, Msg
  <2>4. CASE Offered /\ m = VhMsg("PUBREC", 1)
    <3>1. m.id = 1 /\ m.type = "PUBREC"
      BY <2>4 DEF VhMsg, Msg
    <3>2. Released(server.out, 1) = <<[msg |-> TheMsg, released |-> TRUE]>>
      BY <2>3, <2>4, OneUnfinished DEF Offered
    <3>3. r = Reply([server EXCEPT !.out = Released(@, 1)], <<VhMsg("PUBREL", 1)>>)
      BY <3>1 DEF ServerReply
    <3>4. r.session = [server EXCEPT !.out = Released(@, 1)] /\ r.msgs = <<VhMsg("PUBREL", 1)>>
      BY <3>3 DEF Reply
    <3> HIDE DEF r
    <3>5. ~server'.clean /\ server'.out = <<[msg |-> TheMsg, released |-> TRUE]>>
      BY <1>0, <1>1, <1>4, <3>2, <3>4 DEF ServerType
    <3>6. Offers' = <<VhMsg("PUBREL", 1)>>
      <4>1. VhMsg("PUBREL", 1) \in AnyMsg /\ VhMsg("PUBREL", 1) \in OfferMsgs
        BY <2>3, MsgTypes DEF PacketTypes, OfferMsgs, VhMsg, Msg
      <4> HIDE DEF VhMsg
      <4>2. <<VhMsg("PUBREL", 1)>> \in Seq(AnyMsg) /\ <<>> \o <<VhMsg("PUBREL", 1)>> = <<VhMsg("PUBREL", 1)>>
        BY <4>1
      <4>3. Sift(<<VhMsg("PUBREL", 1)>>, OfferMsgs) = <<VhMsg("PUBREL", 1)>>
        BY <4>1, SiftOne
      <4>. QED  BY <1>6, <2>1, <3>4, <4>2, <4>3
    <3>7. Accepted' /\ ~Offered'
      <4>1. \A x : <<[msg |-> x, released |-> TRUE]>> # <<[msg |-> x, released |-> FALSE]>>
        OBVIOUS
      <4>. QED  BY <2>1, <2>4, <3>5, <4>1 DEF Offered, Accepted
    <3>8. Exchange'
      BY <2>1, <3>6, <3>7 DEF Exchange, VhMsg
    <3>. QED  BY <1>2, <2>1, <2>2, <3>5, <3>7, <3>8, ExchangeMoves
  <2>5. CASE Accepted /\ m = VhMsg("PUBCOMP", 1)
    <3>1. m.id = 1 /\ m.type = "PUBCOMP"
      BY <2>5 DEF VhMsg, Msg
    <3>2. Finished(server.out, 1) = <<>>
      BY <2>3, <2>5, OneUnfinished DEF Accepted
    <3>3. r = Reply([server EXCEPT !.out = Finished(@, 1)], <<>>)
      BY <3>1 DEF ServerReply
    <3>4. r.session = [server EXCEPT !.out = Finished(@, 1)] /\ r.msgs = <<>>
      BY <3>3 DEF Reply
    <3> HIDE DEF r
    <3>5. ~server'.clean /\ server'.out = <<>>
      BY <1>0, <1>1, <1>4, <3>2, <3>4 DEF ServerType
    <3>6. Offers' = <<>>
      <4>1. <<>> \in Seq(AnyMsg) /\ <<>> \o <<>> = <<>>
        OBVIOUS
      <4>. QED  BY <1>6, <2>1, <3>4, <4>1, SiftEmpty
    <3>7. ~Offered'
      <4>1. \A x : <<>> # <<x>>
        OBVIOUS
      <4>. QED  BY <3>5, <4>1 DEF Offered
    <3>8. Exchange'
      BY <2>1, <3>5, <3>6 DEF Exchange
    <3>. QED  BY <1>2, <2>1, <2>2, <3>5, <3>7, <3>8, ExchangeMoves
  <2>. QED  BY <1>3, <1>9, <2>4, <2>5
<1>. QED  BY <1>7, <1>8, <1>9

\* The server refuses the connection.
LEMMA ServerRefuseRecvOnce ==
  ASSUME IInv, RecvOnce, ServerRefuse
  PROVE  RecvOnce'
<1>0. /\ TypeOK /\ link = "open" /\ ctx.tx # <<>> /\ DOMAIN ctx = CtxFields
      /\ count \in [requests : Nat, connects : Nat, msgs : Nat, pings : Nat, drops : Nat]
  BY UnderWayTyped DEF IInv, TypeOK, ServerRefuse
<1>1. /\ UNCHANGED <<app, link, server, received>> /\ ctx' = [ctx EXCEPT !.tx = Tail(@)]
      /\ down' = <<VhMsg("CONNACK", 5)>> /\ count' = [count EXCEPT !.drops = @ + 1]
  BY DEF ServerRefuse, serverVars, history
<1>2. /\ ctx'.tx = Tail(ctx.tx) /\ ctx'.flags = ctx.flags /\ ctx'.qos2_rx_cq = ctx.qos2_rx_cq
      /\ count'.msgs = count.msgs
  BY <1>0, <1>1 DEF CtxFields
<1>3. Offers' = <<>>
  <2>1. VhMsg("CONNACK", 5) \notin OfferMsgs
    BY MsgTypes DEF PacketTypes, OfferMsgs
  <2>. QED  BY <1>1, <2>1, SiftOne DEF Offers
<1>4. Replies' \in {Replies, <<>>} /\ Hellos' \in {Hellos, <<>>}
  BY <1>0, <1>1, <1>2, ReplyRead DEF Replies, Hellos
<1>5. CallHarmless /\ (Greeting' => Greeting) /\ "CLEAN_SESSION" \notin ctx.flags
  BY <1>1, SameCallHarmless DEF RecvOnce, NeverClean
<1>6. link' # "none" /\ Greeting' => link' = "open" /\ Hellos' = <<>>
  BY <1>0, <1>1, <1>4, <1>5 DEF RecvOnce, OneHello
<1>. QED  BY <1>1, <1>2, <1>3, <1>4, <1>5, <1>6, LosingOnce

\* The connection breaks.
LEMMA DropLinkRecvOnce ==
  ASSUME IInv, RecvOnce, DropLink
  PROVE  RecvOnce'
<1>0. /\ TypeOK /\ DOMAIN ctx = CtxFields /\ down \in Seq(AnyMsg)
      /\ count \in [requests : Nat, connects : Nat, msgs : Nat, pings : Nat, drops : Nat]
  BY UnderWayTyped DEF IInv, TypeOK
<1>1. /\ UNCHANGED <<app, server, received>> /\ ctx' = [ctx EXCEPT !.tx = <<>>] /\ link' = "none"
      /\ count' = [count EXCEPT !.drops = @ + 1]
  BY DEF DropLink, history
<1>2. ctx'.flags = ctx.flags /\ ctx'.qos2_rx_cq = ctx.qos2_rx_cq /\ count'.msgs = count.msgs
  BY <1>0, <1>1 DEF CtxFields
<1>3. Offers' \in {Offers, <<>>}
  <2>1. PICK k \in 0..Len(down) : down' = SubSeq(down, 1, k)
    BY DEF DropLink
  <2>2. /\ Offers' \in Seq(AnyMsg) /\ Offers \in Seq(AnyMsg) /\ Len(Offers') <= Len(Offers)
        /\ \A i \in 1..Len(Offers') : Offers'[i] = Offers[i]
    BY <1>0, <2>1, SiftPrefix DEF Offers
  <2>3. Offers = <<>> \/ Len(Offers) = 1
    <3>1. \A x : Len(<<x>>) = 1
      OBVIOUS
    <3>. QED  BY <3>1 DEF RecvOnce, Exchange
  <2> HIDE DEF Offers
  <2>4. Len(Offers') \in Nat /\ (Offers = <<>> => Len(Offers) = 0)
    BY <2>2
  <2>5. CASE Len(Offers') = 0
    BY <2>2, <2>5
  <2>6. CASE Len(Offers') # 0
    <3>1. Len(Offers') = 1 /\ Len(Offers) = 1 /\ Offers'[1] = Offers[1]
      BY <2>2, <2>3, <2>4, <2>6
    <3>. QED  BY <2>2, <3>1
  <2>. QED  BY <2>5, <2>6
<1>4. Replies' = <<>> /\ Hellos' = <<>>
  BY <1>1 DEF Replies, Hellos
<1>5. CallHarmless /\ "CLEAN_SESSION" \notin ctx.flags
  BY <1>1, SameCallHarmless DEF RecvOnce, NeverClean
<1>. QED  BY <1>1, <1>2, <1>3, <1>4, <1>5, LosingOnce

\* The server has a message.
LEMMA ServerPublishRecvOnce ==
  ASSUME OneAtATime, IInv, RecvOnce, NEW qos \in ServerQos, ServerPublish(qos)
  PROVE  RecvOnce'
<1> DEFINE body == count.msgs + 1
           id   == CHOOSE i \in 1..ServerInflight : \A j \in DOMAIN server.out : server.out[j].msg.id # i
           m    == Msg("PUBLISH", id, qos, body)
<1>0. /\ TypeOK /\ server \in ServerType /\ down \in Seq(AnyMsg) /\ link = "session"
      /\ count \in [requests : Nat, connects : Nat, msgs : Nat, pings : Nat, drops : Nat]
  BY UnderWayTyped DEF IInv, TypeOK, ServerType, ServerPublish
<1>1. /\ UNCHANGED <<ctx, app, link, received>> /\ count' = [count EXCEPT !.msgs = body]
      /\ down' = Append(down, m)
      /\ server' = [server EXCEPT !.out = Append(@, [msg |-> m, released |-> FALSE])]
  BY DEF ServerPublish, clientVars, history
<1>2. body \in 1..MaxMessages
  <2>1. MaxMessages \in Nat /\ count.requests + count.msgs + count.pings < MaxMessages
    BY SlMqttAssumption DEF ServerPublish, MoreMessages
  <2>. QED  BY <1>0, <2>1
<1>3. server.out = <<>> /\ ServerInflight = 1
  <2>1. Len(server.out) \in Nat /\ ServerInflight \in Nat /\ ServerInflight <= 1 /\ Len(server.out) < ServerInflight
    BY <1>0, SlMqttAssumption DEF OneAtATime, ServerPublish, ServerType
  <2>. QED  BY <1>0, <2>1 DEF ServerType
<1>4. id = 1 /\ qos = 2
  <2>1. DOMAIN server.out = {} /\ 1..ServerInflight = {1}
    BY <1>3
  <2>. QED  BY <2>1 DEF OneAtATime
<1>5. m = TheMsg' /\ count'.msgs = body
  <2>1. count'.msgs = body
    BY <1>0, <1>1
  <2>. QED  BY <1>4, <2>1 DEF TheMsg
<1> HIDE DEF m, id
<1>6. Offered' /\ server'.clean = server.clean
  <2>1. Append(<<>>, [msg |-> m, released |-> FALSE]) = <<[msg |-> m, released |-> FALSE]>>
    OBVIOUS
  <2>2. server'.out = <<[msg |-> m, released |-> FALSE]>> /\ server'.clean = server.clean
    BY <1>0, <1>1, <1>3, <2>1 DEF ServerType
  <2>. QED  BY <1>2, <1>5, <2>2 DEF Offered
<1>7. Offers = <<>> /\ Replies' = <<>> /\ Hellos' = <<>>
  <2>1. \A x : <<>> # <<x>>
    OBVIOUS
  <2>2. Offers = <<>> /\ Replies = <<>> /\ Hellos = <<>>
    BY <1>0, <1>3, <2>1 DEF RecvOnce, Exchange, OneHello, Offered, Accepted
  <2>. QED  BY <1>1, <2>2 DEF Replies, Hellos
<1>8. Offers' = <<TheMsg>>'
  <2>1. m \in AnyMsg /\ m \in OfferMsgs
    BY <1>2, <1>4 DEF m, Msg, AnyMsg, OfferMsgs, PacketTypes
  <2>2. Sift(Append(down, m), OfferMsgs) = Append(Sift(down, OfferMsgs), m)
    BY <1>0, <2>1, SiftAppend
  <2>3. Append(<<>>, m) = <<m>>
    OBVIOUS
  <2>. QED  BY <1>1, <1>5, <1>7, <2>2, <2>3 DEF Offers
<1>9. NeverClean'
  BY <1>1, <1>6 DEF RecvOnce, NeverClean
<1>10. OneHello'
  BY <1>0, <1>1, <1>7 DEF RecvOnce, OneHello, Greeting
<1>11. Exchange'
  BY <1>6, <1>7, <1>8 DEF Exchange
<1>12. GivenNoted'
  BY <1>0, <1>1, <1>2, <1>5 DEF RecvOnce, GivenNoted
<1>13. QueueFits(ctx.qos2_rx_cq)'
  BY <1>1 DEF RecvOnce, QueueFits
<1>. QED  BY <1>9, <1>10, <1>11, <1>12, <1>13 DEF RecvOnce

\* Nothing is under way at the start.
LEMMA RecvOnceInit == Init => RecvOnce
<1> SUFFICES ASSUME Init PROVE RecvOnce
  OBVIOUS
<1>1. /\ ctx.flags = {} /\ ctx.tx = <<>> /\ ctx.qos2_rx_cq = qos2_pub_cq_reset
      /\ app = Idle /\ link = "none" /\ down = <<>> /\ server.out = <<>> /\ ~server.clean
      /\ count.msgs = 0 /\ received = [m \in 1..MaxMessages |-> 0]
  <2>1. ctx = InitCtx /\ app = Idle /\ link = "none" /\ down = <<>> /\ server = NoSession
    BY DEF Init
  <2>2. count.msgs = 0 /\ received = [m \in 1..MaxMessages |-> 0]
    BY DEF Init
  <2>3. InitCtx.flags = {} /\ InitCtx.tx = <<>> /\ InitCtx.qos2_rx_cq = qos2_pub_cq_reset
    BY DEF InitCtx
  <2>4. NoSession.out = <<>> /\ ~NoSession.clean
    BY DEF NoSession
  <2>. QED  BY <2>1, <2>2, <2>3, <2>4
<1>2. MAX_PUBREL_INFLT \in Nat \ {0} /\ MaxMessages \in Nat
  BY CapacityNat, SlMqttAssumption
<1>3. NeverClean /\ ~Greeting
  BY <1>1 DEF NeverClean, Greeting, Idle
<1>4. Offers = <<>> /\ Replies = <<>> /\ Hellos = <<>>
  BY <1>1, SiftEmpty DEF Offers, Replies, Hellos
<1>5. OneHello /\ Exchange
  BY <1>1, <1>3, <1>4 DEF OneHello, Exchange
<1>6. QueueFits(ctx.qos2_rx_cq)
  <2> DEFINE cq == ctx.qos2_rx_cq
  <2>1. cq.n_free = MAX_PUBREL_INFLT /\ cq.rd_idx = 0 /\ cq.wr_idx = 0 /\ cq \in CqType
    BY <1>1, ResetType DEF qos2_pub_cq_reset
  <2>2. qos2_pub_cq_count(cq) = 0
    BY <1>2, <2>1 DEF qos2_pub_cq_count
  <2>3. Logged(cq) = {}
    BY <2>2 DEF Logged
  <2>4. CqOK(cq)
    <3>1. cq \in [id_vec : [0..LastIdx -> Nat], n_free : 0..MAX_PUBREL_INFLT, rd_idx : 0..LastIdx, wr_idx : 0..LastIdx]
      <4>1. 0 \in 0..LastIdx /\ MAX_PUBREL_INFLT \in 0..MAX_PUBREL_INFLT
        BY <1>2 DEF LastIdx
      <4>2. [i \in 0..(MAX_PUBREL_INFLT - 1) |-> 0] \in [0..LastIdx -> Nat]
        BY DEF LastIdx
      <4>. QED  BY <1>1, <4>1, <4>2 DEF qos2_pub_cq_reset
    <3>2. Masked(0) = 0
      BY <1>2 DEF Masked
    <3> HIDE DEF cq
    <3>. QED  BY <2>1, <2>2, <3>1, <3>2 DEF CqOK
  <2>. QED  BY <2>3, <2>4 DEF QueueFits
<1>7. GivenNoted
  BY <1>1, <1>2 DEF GivenNoted, Offered
<1>. QED  BY <1>3, <1>5, <1>6, <1>7 DEF RecvOnce

\* Nothing that the invariant speaks of changes.
LEMMA StutterRecvOnce ==
  ASSUME RecvOnce, UNCHANGED vars
  PROVE  RecvOnce'
BY DEF RecvOnce, NeverClean, OneHello, Greeting, Exchange, GivenNoted, QueueFits, Offered, Accepted, TheMsg,
       Offers, Replies, Hellos, vars, clientVars, serverVars, history

\* Every step keeps the invariant.
LEMMA RecvOnceNext ==
  ASSUME OneAtATime, IInv, RecvOnce, [Next]_vars
  PROVE  RecvOnce'
<1>1. CASE (\E clean \in CleanChoices : StartConnect(clean)) \/ \E call \in Requests \cup {DisconnCall} : StartCall(call)
  BY <1>1, CallRecvOnce
<1>2. CASE AppStep
  BY <1>2, CallRecvOnce, ComposeRecvOnce, NetConnectRecvOnce, DispatchRecvOnce, ConnectSentRecvOnce, SentRecvOnce
     DEF AppStep
<1>3. CASE RxStep
  BY <1>3, RxQuietOnce, RxCloseRecvOnce, RxProcessRecvOnce DEF RxStep
<1>4. CASE ServerRecv \/ ServerRefuse \/ DropLink
  BY <1>4, ServerRecvRecvOnce, ServerRefuseRecvOnce, DropLinkRecvOnce
<1>5. ASSUME NEW qos \in ServerQos, ServerPublish(qos) PROVE RecvOnce'
  BY <1>5, ServerPublishRecvOnce
<1>6. CASE UNCHANGED vars
  BY <1>6, StutterRecvOnce
<1>. QED  BY <1>1, <1>2, <1>3, <1>4, <1>5, <1>6 DEF Next

\* proc_pub_msg_rx and _proc_pub_rel_rx: as long as the session is kept and the
\* server has one QoS 2 message under way, the client gives each message to the
\* application at most once.  The log of received ids outlives connections that
\* break between PUBREC and PUBREL: a PUBLISH that comes again is dropped.
THEOREM ServerMessagesOnce ==
  ASSUME OneAtATime
  PROVE  Spec => []ClientGetsOnce
<1>1. Init => RecvOnce
  BY RecvOnceInit
<1>2. IInv /\ RecvOnce /\ [Next]_vars => RecvOnce'
  BY RecvOnceNext
<1>3. RecvOnce => ClientGetsOnce
  <2>1. ASSUME RecvOnce, NEW m \in DOMAIN received PROVE received[m] <= 1
    BY <2>1 DEF RecvOnce, GivenNoted
  <2>. QED  BY <2>1 DEF ClientGetsOnce
<1>. QED  BY <1>1, <1>2, <1>3, Inductive, PTL DEF Spec
=============================================================================
