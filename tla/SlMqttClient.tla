---------------------------- MODULE SlMqttClient ----------------------------
(***************************************************************************)
(* The SimpleLink MQTT client layer (sl_mqtt_client.c) over the client     *)
(* library: the application's task, whose calls block on ack_sync_obj, the *)
(* receive task VMqttRecvTask, which serves the connection, and a server   *)
(* behind a connection that may break at any time.                         *)
(*                                                                         *)
(* The library's mutex is held from the set-up of a packet to the end of   *)
(* its sending (app.pc = "sending") and while a received packet is         *)
(* processed, which is one step.  The receive task looks after keep-alive  *)
(* and closing (single_ctx_rx_prep) without it.  A step goes on until its  *)
(* task blocks, in a network service or for the mutex: this is the client  *)
(* under a scheduler that does not preempt one of the two tasks for the    *)
(* other, or with the receive task above the application.  SlMqttTasks     *)
(* takes the unlocked code apart and shows what other priorities do.       *)
(***************************************************************************)
EXTENDS MqttClient
LOCAL INSTANCE SequencesExt

CONSTANTS
  Requests,        \* what the application asks for after Connect
  CleanChoices,    \* clean, the argument of Connect
  KEEP_ALIVE,      \* keep_alive_time is not 0
  blocking_send,
  ServerQos, ServerInflight,   \* what the server publishes, and how many at a time
  MaxMessages, MaxConnects, MaxDrops   \* bounds

Publish(qos)  == [type |-> "PUBLISH", qos |-> qos]
Subscribe     == [type |-> "SUBSCRIBE", qos |-> 1]
Unsubscribe   == [type |-> "UNSUBSCRIBE", qos |-> 1]
ConnectCall   == [type |-> "CONNECT", qos |-> 0]
DisconnCall   == [type |-> "DISCONNECT", qos |-> 0]

ASSUME SlMqttAssumption ==
  /\ Requests \subseteq {Publish(0), Publish(1), Publish(2), Subscribe, Unsubscribe}
  /\ ServerQos \subseteq 0..2
  /\ CleanChoices \subseteq BOOLEAN /\ KEEP_ALIVE \in BOOLEAN /\ blocking_send \in BOOLEAN
  /\ {MaxMessages, MaxConnects, MaxDrops, ServerInflight} \subseteq Nat

VARIABLES
  ctx,               \* the context of the library
  app,               \* the application's task: pc, request, its packet and buffer, clean
  awaited_ack, conn_ack,
  ack_sync_obj,      \* signalled
  g_rx_tx_sync_obj,  \* signalled
  rx,                \* VMqttRecvTask: "signal", "prep", "ping", "alloc", "recv", "done",
                     \* "failed", "closing"
  link,              \* the server's side: "none", "open", "session"
  down,              \* what the server sent and the client did not read
  server,            \* its session: clean, QoS 2 ids it awaits the PUBREL of, messages under way
  count,             \* how many requests, connects, server messages, pings, drops there were
  owed,              \* history: messages the library accepted in this session
  published,         \* history: how often the server was given a message
  received           \* history: how often the application was given one

clientVars == <<ctx, app, awaited_ack, conn_ack, ack_sync_obj, g_rx_tx_sync_obj, rx>>
serverVars == <<link, down, server>>
history    == <<owed, published, received>>
vars == <<clientVars, serverVars, count, history>>

Idle == [pc |-> "idle", call |-> ConnectCall, mqp |-> NULL, msg |-> NoMsg, clean |-> FALSE]

NoSession == [clean |-> FALSE, rcvd |-> {}, out |-> <<>>]

Init ==
  /\ ctx = InitCtx /\ app = Idle /\ rx = "signal"
  /\ awaited_ack = "" /\ conn_ack = 0
  /\ ack_sync_obj = FALSE /\ g_rx_tx_sync_obj = FALSE
  /\ link = "none" /\ down = <<>> /\ server = NoSession
  /\ count = [requests |-> 0, connects |-> 0, msgs |-> 0, pings |-> 0, drops |-> 0]
  /\ owed = {}
  /\ published = [m \in 1..MaxMessages |-> [n |-> 0, qos |-> 0]]
  /\ received  = [m \in 1..MaxMessages |-> 0]

\* The bound of what application, server and keep-alive send in all
MoreMessages == count.requests + count.msgs + count.pings < MaxMessages

\* A send on a broken connection may still succeed, and its data be lost.
SendOk == IF link = "none" THEN BOOLEAN ELSE {TRUE}

-----------------------------------------------------------------------------
\* The application's task

\* The acknowledgement that ends a call
AckOf(call) ==
  CASE call.type = "CONNECT"     -> "CONNACK"
    [] call.type = "DISCONNECT"  -> "DISCONNECT"
    [] call.type = "SUBSCRIBE"   -> "SUBACK"
    [] call.type = "UNSUBSCRIBE" -> "UNSUBACK"
    [] call = Publish(1)         -> "PUBACK"
    [] call = Publish(2)         -> "PUBCOMP"
    [] OTHER                     -> ""

\* Send sets awaited_ack also if it is not going to wait, Sub and Unsub do not.
Awaits(call) ==
  /\ AckOf(call) # ""
  /\ call.type \in {"SUBSCRIBE", "UNSUBSCRIBE"} => blocking_send

Blocks(call) ==
  \/ call.type \in {"CONNECT", "DISCONNECT"}
  \/ blocking_send /\ call # Publish(0)

\* The call has done with its packet.
After(pc) == [Idle EXCEPT !.pc = pc, !.call = app.call]

\* How a call goes on when its packet was not sent: the result of a DISCONNECT
\* is ignored, that of a QoS 0 message is its id.
NotSent ==
  CASE app.call = DisconnCall -> "wait"
    [] app.call = Publish(0)  -> "exit"
    [] OTHER                  -> "failed"

\* A call other than Connect starts with mqtt_client_is_connected.  It returns
\* at once if that does not hold.
StartCall(call) ==
  /\ app.pc = "idle" /\ is_connected(ctx)
  /\ call \in Requests => MoreMessages
  /\ count' = IF call \in Requests THEN [count EXCEPT !.requests = @ + 1] ELSE count
  /\ app' = [Idle EXCEPT !.pc = "checked", !.call = call]
  /\ UNCHANGED <<ctx, awaited_ack, conn_ack, ack_sync_obj, g_rx_tx_sync_obj, rx,
                 serverVars, owed, published, received>>

\* sl_ExtLib_MqttClientConnect.  The application does not call it while the
\* context has a connection.
StartConnect(clean) ==
  /\ app.pc = "idle" /\ ~ctx.net
  /\ count.connects < MaxConnects
  /\ count' = [count EXCEPT !.connects = @ + 1]
  /\ app' = [Idle EXCEPT !.pc = "checked", !.clean = clean]
  /\ UNCHANGED <<ctx, awaited_ack, conn_ack, ack_sync_obj, g_rx_tx_sync_obj, rx,
                 serverVars, owed, published, received>>

\* The call sets awaited_ack and composes its packet; Disconnect needs none.
\* Without a packet it ends with MQP_ERR_PKT_AVL.  The id of a CONNECT stands
\* for its clean flag.
Compose ==
  LET call == app.call
      id   == CASE call = ConnectCall -> IF app.clean THEN 1 ELSE 0
                [] call = Publish(0)  -> 0
                [] OTHER              -> assign_new_msg_id(ctx)
      msg  == Msg(call.type, id, call.qos, count.requests)
      needsPacket == call.type # "DISCONNECT"
  IN /\ app.pc = "checked"
     /\ awaited_ack' = IF Awaits(call) THEN AckOf(call) ELSE awaited_ack
     /\ conn_ack' = IF call.type = "CONNECT" THEN 0 ELSE conn_ack
     /\ IF needsPacket /\ ctx.free_list = <<>>
        THEN app' = After("failed") /\ UNCHANGED ctx
        ELSE /\ app' = [app EXCEPT !.pc = "composed", !.msg = msg,
                                   !.mqp = IF needsPacket THEN Head(ctx.free_list) ELSE NULL]
             /\ ctx' = IF ~needsPacket THEN ctx
                       ELSE [mqp_client_alloc(ctx, msg) EXCEPT
                               !.msg_id = IF call.qos = 0 THEN @ ELSE id]
     /\ UNCHANGED <<ack_sync_obj, g_rx_tx_sync_obj, rx, serverVars, count, history>>

\* net_connect opens a socket, unless the last connection is still to be
\* closed; comm_open may fail.  A CONNECT that may not be sent leaves the socket
\* open and its packet with nobody.
NetConnect ==
  LET opened == [ctx EXCEPT !.net = TRUE, !.tx = <<>>]
      may    == "CONNACK_AWAIT" \notin ctx.flags /\ MaySend(ctx, TRUE)
  IN /\ app.pc = "composed" /\ app.call = ConnectCall
     /\ \/ /\ "NETWORK_CLOSE" \notin ctx.flags
           /\ ctx' = IF may THEN tx_part_setup(opened, app.mqp) ELSE opened
           /\ app' = IF may THEN [app EXCEPT !.pc = "sending"] ELSE After("failed")
           /\ link' = "open" /\ down' = <<>>
        \/ /\ app' = After("failed")
           /\ UNCHANGED <<ctx, link, down>>
     /\ UNCHANGED <<awaited_ack, conn_ack, ack_sync_obj, g_rx_tx_sync_obj, rx, server, count, history>>

\* _msg_dispatch and mqtt_disconn_send take the mutex and set up tx_part; the
\* call fails if the connection is gone or tx_part in use.  The packet is held
\* for the wait list; nobody drops the other reference then.
Dispatch ==
  LET held == IF app.call.qos = 0 THEN ctx ELSE Hold(ctx, app.mqp)
      dropped == IF app.call.qos = 0 THEN ctx ELSE mqp_free(held, app.mqp)
  IN /\ app.pc = "composed" /\ app.call # ConnectCall
     /\ IF MaySend(ctx, FALSE)
        THEN /\ ctx' = tx_part_setup(held, app.mqp)
             /\ app' = [app EXCEPT !.pc = "sending"]
        ELSE /\ ctx' = dropped
             /\ app' = After(NotSent)
     /\ UNCHANGED <<awaited_ack, conn_ack, ack_sync_obj, g_rx_tx_sync_obj, rx,
                    serverVars, count, history>>

-----------------------------------------------------------------------------
\* The packet goes out: cl_ctx_part_send and what follows it under the mutex.

\* net_send has returned: tx_part_reset, and what cl_ctx_conn_state_try_locked
\* and sl_ExtLib_MqttClientConnect do until they wait; the receive task is woken.
ConnectSent ==
  LET sent == cl_ctx_part_send(ctx, app.msg, TRUE)
  IN /\ app.pc = "sending" /\ app.call = ConnectCall
     /\ ctx' = [sent EXCEPT !.flags = @ \cup {"CONNACK_AWAIT"}
                                        \cup (IF app.clean THEN {"CLEAN_SESSION"} ELSE {})]
     /\ app' = After("wait")
     /\ g_rx_tx_sync_obj' = TRUE
     /\ UNCHANGED <<awaited_ack, conn_ack, ack_sync_obj, rx, serverVars, count, history>>

\* Mutant: only publications wait for their acknowledgement.
MsgSent_PublishOnly ==
  LET sent == cl_ctx_part_send(ctx, app.msg, TRUE)
  IN /\ app.pc = "sending" /\ app.call.type \notin {"CONNECT", "DISCONNECT"}
     /\ ctx' = IF app.call.type = "PUBLISH" /\ app.call.qos > 0
               THEN [sent EXCEPT !.qos_ack1_wl = Append(@, app.mqp)]
               ELSE sent
     /\ app' = After(IF Blocks(app.call) THEN "wait" ELSE "exit")
     /\ owed' = IF app.call.type = "PUBLISH" /\ app.call.qos > 0
                THEN owed \cup {app.msg.body} ELSE owed
     /\ UNCHANGED <<awaited_ack, conn_ack, ack_sync_obj, g_rx_tx_sync_obj, rx,
                    serverVars, count, published, received>>

\* net_send has returned: tx_part_reset, and _msg_dispatch enlists the packet for
\* its acknowledgement.
MsgSent ==
  LET sent == cl_ctx_part_send(ctx, app.msg, TRUE)
  IN /\ app.pc = "sending" /\ app.call.type \notin {"CONNECT", "DISCONNECT"}
     /\ ctx' = IF app.call.qos = 0 THEN sent
               ELSE [sent EXCEPT !.qos_ack1_wl = Append(@, app.mqp)]
     /\ app' = After(IF Blocks(app.call) THEN "wait" ELSE "exit")
     /\ owed' = IF app.call.type = "PUBLISH" /\ app.call.qos > 0
                THEN owed \cup {app.msg.body} ELSE owed
     /\ UNCHANGED <<awaited_ack, conn_ack, ack_sync_obj, g_rx_tx_sync_obj, rx,
                    serverVars, count, published, received>>

\* mqtt_disconn_send
DisconnSent ==
  /\ app.pc = "sending" /\ app.call = DisconnCall
  /\ ctx' = do_net_close_tx(cl_ctx_part_send(ctx, VhMsg("DISCONNECT", 0), TRUE))
  /\ app' = After("wait")
  /\ UNCHANGED <<awaited_ack, conn_ack, ack_sync_obj, g_rx_tx_sync_obj, rx,
                 serverVars, count, history>>

SendFails ==
  LET failed == do_net_close_tx(ctx)
  IN /\ app.pc = "sending" /\ FALSE \in SendOk
     /\ ctx' = IF app.call.qos = 0 THEN failed ELSE mqp_free(failed, app.mqp)
     /\ app' = After(NotSent)
     /\ UNCHANGED <<awaited_ack, conn_ack, ack_sync_obj, g_rx_tx_sync_obj, rx,
                    serverVars, count, history>>

\* ACK_RX_SIGNAL_WAIT
AckSignalWait ==
  /\ app.pc = "wait" /\ ack_sync_obj
  /\ ack_sync_obj' = FALSE
  /\ app' = After(IF awaited_ack = "DISCONNECT" /\ app.call # DisconnCall THEN "failed" ELSE "exit")
  /\ UNCHANGED <<ctx, awaited_ack, conn_ack, g_rx_tx_sync_obj, rx, serverVars, count, history>>

\* The end of every call
Return ==
  /\ app.pc \in {"exit", "failed"}
  /\ awaited_ack' = ""
  /\ conn_ack' = IF app.call = ConnectCall THEN 0 ELSE conn_ack
  /\ app' = Idle
  /\ UNCHANGED <<ctx, ack_sync_obj, g_rx_tx_sync_obj, rx, serverVars, count, history>>

-----------------------------------------------------------------------------
\* The receive task

\* Mutant: the call that waits is not woken.
DisconnCb_NoSignal(ack, sig) ==
  /\ awaited_ack'  = IF ack # "" THEN "DISCONNECT" ELSE ack
  /\ ack_sync_obj' = sig

\* process_disconn_cb, with ack = awaited_ack and sig = ack_sync_obj before it
DisconnCb(ack, sig) ==
  /\ awaited_ack'  = IF ack # "" THEN "DISCONNECT" ELSE ack
  /\ ack_sync_obj' = (sig \/ ack # "")

\* The connection of the context c is gone when do_net_close calls net_ops->close.
NetClose(c) ==
  /\ ctx' = do_net_close(c)
  /\ link' = "none" /\ down' = <<>>
  /\ owed' = IF c.net /\ "CLEAN_SESSION" \in c.flags THEN {} ELSE owed

\* do_net_close_rx under the mutex
NetCloseRx(c, ack, sig) == NetClose(c) /\ DisconnCb(ack, sig)

\* VMqttRecvTask waits for a connection.
RxSignalWait ==
  /\ rx = "signal" /\ g_rx_tx_sync_obj
  /\ g_rx_tx_sync_obj' = FALSE /\ rx' = "prep"
  /\ UNCHANGED <<ctx, app, awaited_ack, conn_ack, ack_sync_obj, serverVars, count, history>>

\* single_ctx_rx_prep: no connection
RxNotConn ==
  /\ rx = "prep" /\ ~ctx.net
  /\ rx' = "signal"
  /\ UNCHANGED <<ctx, app, awaited_ack, conn_ack, ack_sync_obj, g_rx_tx_sync_obj,
                 serverVars, count, history>>

\* A reason to close: NETWORK_CLOSE, no CONNACK or no PINGRSP in time, or a
\* PINGREQ that cannot be sent because tx_part is in use.  The task blocks in
\* net_ops->close.
RxClose ==
  /\ rx = "prep" /\ ctx.net
  /\ \/ "NETWORK_CLOSE" \in ctx.flags
     \/ ~is_connected(ctx)
     \/ KEEP_ALIVE /\ ("KA_PINGER_RSP" \in ctx.flags \/ ~MaySend(ctx, FALSE))
  /\ NetClose(ctx)
  /\ rx' = "closing"
  /\ UNCHANGED <<app, awaited_ack, conn_ack, ack_sync_obj, g_rx_tx_sync_obj,
                 server, count, published, received>>

\* do_net_close_rx goes on; the application may have connected again.
RxClosed ==
  /\ rx = "closing"
  /\ DisconnCb(awaited_ack, ack_sync_obj)
  /\ rx' = "signal"
  /\ UNCHANGED <<ctx, app, conn_ack, g_rx_tx_sync_obj, serverVars, count, history>>

\* single_ctx_ka_sequence: the keep-alive time is over.  tx_part is in use, and
\* the mutex is not, while the PINGREQ goes out.
RxPing ==
  /\ rx = "prep" /\ KEEP_ALIVE /\ MoreMessages
  /\ "KA_PINGER_RSP" \notin ctx.flags /\ MaySend(ctx, FALSE)
  /\ ctx' = tx_part_setup(ctx, NULL)
  /\ rx' = "ping"
  /\ count' = [count EXCEPT !.pings = @ + 1]
  /\ UNCHANGED <<app, awaited_ack, conn_ack, ack_sync_obj, g_rx_tx_sync_obj,
                 serverVars, history>>

RxPingSent ==
  /\ rx = "ping"
  /\ ctx' = [cl_ctx_part_send(ctx, VhMsg("PINGREQ", 0), TRUE) EXCEPT
               !.flags = @ \cup {"KA_PINGER_RSP"}]
  /\ rx' = "alloc"
  /\ UNCHANGED <<app, awaited_ack, conn_ack, ack_sync_obj, g_rx_tx_sync_obj,
                 serverVars, count, history>>

RxPingFails ==
  /\ rx = "ping" /\ FALSE \in SendOk
  /\ NetClose(do_net_close_tx(ctx))
  /\ rx' = "closing"
  /\ UNCHANGED <<app, awaited_ack, conn_ack, ack_sync_obj, g_rx_tx_sync_obj,
                 server, count, published, received>>

\* Nothing is due.
RxOnTime ==
  /\ rx = "prep" /\ ctx.net /\ "NETWORK_CLOSE" \notin ctx.flags
  /\ rx' = "alloc"
  /\ UNCHANGED <<ctx, app, awaited_ack, conn_ack, ack_sync_obj, g_rx_tx_sync_obj,
                 serverVars, count, history>>

\* mqp_setup_proc_ctx_data_recv: the packet of an interrupted receive, or a new
\* one.  Without one the task leaves the connection alone: MQP_ERR_PKT_AVL ends
\* mqtt_client_ctx_run and the loop in VMqttRecvTask.
RxAlloc ==
  LET none == ctx.rx_mqp = NULL /\ ctx.free_list = <<>>
  IN /\ rx = "alloc" /\ (ctx.rx_mqp = NULL => app.pc # "sending")
     /\ rx' = IF none THEN "signal" ELSE "recv"
     /\ ctx' = IF none \/ ctx.rx_mqp # NULL THEN ctx
               ELSE [mqp_client_alloc(ctx, NoMsg) EXCEPT !.rx_mqp = Head(ctx.free_list)]
     /\ UNCHANGED <<app, awaited_ack, conn_ack, ack_sync_obj, g_rx_tx_sync_obj,
                    serverVars, count, history>>

\* What a time-out left in rx_mqp of a packet that had not arrived as a whole
Part == ctx.mqp[ctx.rx_mqp]

\* It is still there when the next connection has opened.
Stale == Part # NoMsg /\ "CONNACK_AWAIT" \in ctx.flags

\* net_recv times out before a packet, or in the middle of one; the packet is
\* kept.  A CONNACK, four bytes long, is not divided; the rest of any other
\* packet arrives before the next time-out.
RxTimeout ==
  /\ rx = "recv" /\ app.pc # "sending"
  /\ \/ down = <<>> /\ link # "none" /\ UNCHANGED ctx
     \/ /\ down # <<>> /\ Part = NoMsg /\ Head(down).type # "CONNACK"
        /\ ctx' = [ctx EXCEPT !.mqp[ctx.rx_mqp] = Head(down)]
  /\ rx' = "prep"
  /\ UNCHANGED <<app, awaited_ack, conn_ack, ack_sync_obj, g_rx_tx_sync_obj,
                 serverVars, count, history>>

\* What the new connection brings is taken for the rest of the packet: it is
\* whole, and no CONNACK, or there is no CONNACK in time.
RxMisread ==
  /\ rx = "recv" /\ app.pc # "sending" /\ down # <<>> /\ Stale
  /\ \/ NetCloseRx(ctx, awaited_ack, ack_sync_obj) /\ rx' = "failed"
     \/ NetClose(ctx) /\ rx' = "closing" /\ UNCHANGED <<awaited_ack, ack_sync_obj>>
  /\ UNCHANGED <<app, conn_ack, g_rx_tx_sync_obj, server, count, published, received>>

\* net_recv fails.
RxError ==
  /\ rx = "recv" /\ app.pc # "sending" /\ down = <<>> /\ link = "none"
  /\ NetCloseRx(ctx, awaited_ack, ack_sync_obj)
  /\ rx' = "failed"
  /\ UNCHANGED <<app, conn_ack, g_rx_tx_sync_obj, server, count, published, received>>

\* process_notify_ack_cb: the signals it gives for an acknowledgement
Notified(ack) ==
  \/ ack = "CONNACK"
  \/ blocking_send /\ ack # "" /\ awaited_ack = ack

\* How many of the packets that the processing sends the socket takes: those
\* of a resumed session, or one answer
SentCounts ==
  LET all == Len(ToResend(ctx)) + 1
  IN IF link = "none" THEN 0..all ELSE {all}

\* proc_ctx_data_recv: a packet is read and processed under the mutex; the
\* connection is closed if it is not good or the server refused it.
RxProcess ==
  LET msg == Head(down)
  IN /\ rx = "recv" /\ app.pc # "sending" /\ down # <<>> /\ ~Stale
     /\ \E n \in SentCounts :
          LET r == process_recv(ctx, msg, n)
              ack == IF Notified(r.ack) THEN "" ELSE awaited_ack
              sig == ack_sync_obj \/ Notified(r.ack)
              refused == r.ack = "CONNACK" /\ msg.id # 0
          IN /\ conn_ack' = IF r.ack = "CONNACK" THEN msg.id ELSE conn_ack
             /\ received' = IF r.body = 0 THEN received ELSE [received EXCEPT ![r.body] = @ + 1]
             /\ rx' = IF r.rv THEN "done" ELSE "failed"
             /\ IF ~r.rv \/ refused
                THEN NetCloseRx(r.c, ack, sig)
                ELSE /\ ctx' = r.c /\ awaited_ack' = ack /\ ack_sync_obj' = sig
                     /\ down' = Tail(down) /\ UNCHANGED link
                     /\ owed' = IF r.ack = "CONNACK" /\ "CLEAN_SESSION" \in r.c.flags THEN {} ELSE owed
     /\ UNCHANGED <<app, g_rx_tx_sync_obj, server, count, published>>

\* The packet of the receive is given back, under the mutex; a receive that
\* failed ends mqtt_client_ctx_run.
RxFree ==
  /\ rx \in {"done", "failed"} /\ app.pc # "sending"
  /\ ctx' = [mqp_free(ctx, ctx.rx_mqp) EXCEPT !.rx_mqp = NULL]
  /\ rx' = IF rx = "done" THEN "prep" ELSE "signal"
  /\ UNCHANGED <<app, awaited_ack, conn_ack, ack_sync_obj, g_rx_tx_sync_obj,
                 serverVars, count, history>>

-----------------------------------------------------------------------------
\* The server: it answers packets in the order they arrive, and keeps the
\* session when the connection breaks.

Reply(session, msgs) == [session |-> session, msgs |-> msgs]

\* Its unfinished messages, sent again after a CONNECT that keeps the session
Resent(out) ==
  [i \in DOMAIN out |-> IF out[i].released THEN VhMsg("PUBREL", out[i].msg.id) ELSE out[i].msg]

\* Where the message with the id is among the unfinished; 0 if it is not
OutAt(out, id) == SelectInSeq(out, LAMBDA o : o.msg.id = id)

Finished(out, id) == IF OutAt(out, id) = 0 THEN out ELSE RemoveAt(out, OutAt(out, id))

Released(out, id) ==
  IF OutAt(out, id) = 0 THEN out ELSE [out EXCEPT ![OutAt(out, id)].released = TRUE]

ServerReply(s, msg) ==
  CASE msg.type = "CONNECT" ->
         LET kept == IF msg.id = 1 \/ s.clean THEN [NoSession EXCEPT !.clean = (msg.id = 1)] ELSE s
         IN Reply(kept, <<VhMsg("CONNACK", 0)>> \o Resent(kept.out))
    [] msg.type = "PUBLISH" /\ msg.qos = 1 -> Reply(s, <<VhMsg("PUBACK", msg.id)>>)
    [] msg.type = "PUBLISH" /\ msg.qos = 2 ->
         Reply([s EXCEPT !.rcvd = @ \cup {msg.id}], <<VhMsg("PUBREC", msg.id)>>)
    [] msg.type = "PUBREL" ->
         Reply([s EXCEPT !.rcvd = @ \ {msg.id}], <<VhMsg("PUBCOMP", msg.id)>>)
    [] msg.type = "SUBSCRIBE" -> Reply(s, <<VhMsg("SUBACK", msg.id)>>)
    [] msg.type = "UNSUBSCRIBE" -> Reply(s, <<VhMsg("UNSUBACK", msg.id)>>)
    [] msg.type = "PINGREQ" -> Reply(s, <<VhMsg("PINGRSP", 0)>>)
    [] msg.type \in {"PUBACK", "PUBCOMP"} -> Reply([s EXCEPT !.out = Finished(@, msg.id)], <<>>)
    [] msg.type = "PUBREC" ->
         Reply([s EXCEPT !.out = Released(@, msg.id)], <<VhMsg("PUBREL", msg.id)>>)
    [] OTHER -> Reply(s, <<>>)

ServerRecv ==
  LET msg == Head(ctx.tx)
      r   == ServerReply(server, msg)
      new == msg.type = "PUBLISH" /\ (msg.qos = 2 => msg.id \notin server.rcvd)
  IN /\ link # "none" /\ ctx.tx # <<>>
     /\ ctx' = [ctx EXCEPT !.tx = Tail(@)]
     /\ server' = r.session
     /\ link' = CASE msg.type = "CONNECT" -> "session"
                  [] msg.type = "DISCONNECT" -> "none"
                  [] OTHER -> link
     /\ down' = down \o r.msgs
     /\ published' = IF new THEN [published EXCEPT ![msg.body] = [n |-> @.n + 1, qos |-> msg.qos]]
                     ELSE published
     /\ UNCHANGED <<app, awaited_ack, conn_ack, ack_sync_obj, g_rx_tx_sync_obj, rx,
                    count, owed, received>>

\* The CONNACK has a return code other than 0.
ServerRefuse ==
  /\ link = "open" /\ ctx.tx # <<>> /\ count.drops < MaxDrops
  /\ ctx' = [ctx EXCEPT !.tx = Tail(@)]
  /\ down' = <<VhMsg("CONNACK", 5)>>
  /\ count' = [count EXCEPT !.drops = @ + 1]
  /\ UNCHANGED <<app, awaited_ack, conn_ack, ack_sync_obj, g_rx_tx_sync_obj, rx,
                 link, server, history>>

\* The server has a message for the client: an id of its own that is free.
ServerPublish(qos) ==
  LET body == count.msgs + 1
      id   == CHOOSE i \in 1..ServerInflight : \A j \in DOMAIN server.out : server.out[j].msg.id # i
      msg  == Msg("PUBLISH", id, qos, body)
  IN /\ link = "session" /\ MoreMessages
     /\ Len(server.out) < ServerInflight
     /\ count' = [count EXCEPT !.msgs = body]
     /\ down' = Append(down, msg)
     /\ server' = [server EXCEPT !.out = Append(@, [msg |-> msg, released |-> FALSE])]
     /\ UNCHANGED <<clientVars, link, history>>

\* The connection breaks: what is under way to the server is lost, of what is
\* under way to the client a prefix arrives.
DropLink ==
  /\ link # "none" /\ count.drops < MaxDrops
  /\ count' = [count EXCEPT !.drops = @ + 1]
  /\ link' = "none"
  /\ ctx' = [ctx EXCEPT !.tx = <<>>]
  /\ \E k \in 0..Len(down) : down' = SubSeq(down, 1, k)
  /\ UNCHANGED <<app, awaited_ack, conn_ack, ack_sync_obj, g_rx_tx_sync_obj, rx, server, history>>

-----------------------------------------------------------------------------
AppStep ==
  \/ Compose \/ NetConnect \/ Dispatch
  \/ ConnectSent \/ MsgSent \/ DisconnSent \/ SendFails
  \/ AckSignalWait \/ Return

RxStep ==
  \/ RxSignalWait \/ RxNotConn \/ RxClose \/ RxClosed
  \/ RxPing \/ RxPingSent \/ RxPingFails \/ RxOnTime
  \/ RxAlloc \/ RxTimeout \/ RxMisread \/ RxError \/ RxProcess \/ RxFree

Next ==
  \/ \E clean \in CleanChoices : StartConnect(clean)
  \/ \E call \in Requests \cup {DisconnCall} : StartCall(call)
  \/ AppStep \/ RxStep
  \/ ServerRecv \/ ServerRefuse \/ DropLink
  \/ \E qos \in ServerQos : ServerPublish(qos)

Spec == Init /\ [][Next]_vars

\* Tasks that can go on do, and the server reads what reaches it.  Nobody has
\* to call, to publish or to break the connection.
FairSpec == Spec /\ WF_vars(AppStep) /\ WF_vars(RxStep) /\ WF_vars(ServerRecv)

-----------------------------------------------------------------------------
\* A QoS 2 message is given to the server's subscribers at most once, however
\* often the connection breaks and the session is resumed.
ServerGetsOnce ==
  \A m \in DOMAIN published : published[m].qos = 2 => published[m].n <= 1

\* A message that the library accepted is with the server, or in the wait list
\* to be sent again.
NothingLost ==
  \A m \in owed : published[m].n > 0 \/ \E p \in ToSet(ctx.qos_ack1_wl) : ctx.mqp[p].body = m

\* "Ensuring 'only once' philosophy for MQTT QoS2 PUBs": the application is
\* given a QoS 2 message of the server at most once.
ClientGetsOnce == 2 \in ServerQos => \A m \in DOMAIN received : received[m] <= 1

\* An acknowledgement the client is about to process finds the packet it is for,
\* a PUBREC at the head of the wait list: the first answer to a request never
\* ends the connection.
AckExpected ==
  rx = "recv" /\ down # <<>> =>
    LET msg == Head(down)
    IN /\ msg.type \in {"PUBACK", "SUBACK", "UNSUBACK"} =>
            \E p \in ToSet(ctx.qos_ack1_wl) : ctx.mqp[p].id = msg.id
       /\ msg.type = "PUBREC" =>
            ctx.qos_ack1_wl # <<>> /\ ctx.mqp[Head(ctx.qos_ack1_wl)].id = msg.id

\* The receive task has given up for want of a packet (MQP_ERR_PKT_AVL) while
\* the connection is open, and a call waits for it.
Starved ==
  /\ app.pc = "wait"
  /\ rx = "signal" /\ ~g_rx_tx_sync_obj
  /\ ctx.net /\ ctx.free_list = <<>>

\* A call other than Disconnect returns, unless the packets that wait for their
\* acknowledgement leave none to receive it with.
CallReturns ==
  app.pc # "idle" /\ app.call # DisconnCall ~> app.pc = "idle" \/ Starved

\* Once the connection stays up and has its receive task, everything the
\* library accepted gets to the server.
Delivered ==
  <>[](is_connected(ctx) /\ rx # "signal") => []<>(\A m \in owed : published[m].n > 0)
=============================================================================
