----------------------------- MODULE MqttClient -----------------------------
(***************************************************************************)
(* The MQTT client library (mqtt_client.c): one client context, the packet *)
(* pool and the routines that change them, as functions from a context to  *)
(* the next one.  SlMqttClient composes them into the steps of the         *)
(* application's task and of the receive task.                             *)
(***************************************************************************)
EXTENDS MqttCommon
LOCAL INSTANCE SequencesExt

CONSTANTS
  MAX_MQP,    \* packets of the pool (sl_mqtt_client.c: 2)
  NULL,
  PROTO_V31   \* MQTT_CFG_PROTOCOL_V31

ASSUME MqttAssumption ==
  /\ MAX_MQP \in Nat \ {0} /\ NULL \notin Nat /\ PROTO_V31 \in BOOLEAN

Packets == 1..MAX_MQP

\* A control packet; body tells messages of the application apart.
Msg(type, id, qos, body) == [type |-> type, id |-> id, qos |-> qos, body |-> body]
VhMsg(type, id) == Msg(type, id, 0, 0)
NoMsg == VhMsg("NONE", 0)

\* client_desc_init, cl_ctx_setup, mqtt_client_buffers_register
InitCtx ==
  [net |-> FALSE,                \* the socket is open
   flags |-> {},
   qos_ack1_wl |-> <<>>,         \* packets that wait for PUBACK, PUBREC, SUBACK
   qos2_rx_cq |-> qos2_pub_cq_reset, qos2_tx_cq |-> qos2_pub_cq_reset,
   tx_part |-> FALSE, tx_mqp |-> NULL,      \* TX_PART_IN_USE
   rx_mqp |-> NULL,
   msg_id |-> 65535,
   free_list |-> [i \in Packets |-> MAX_MQP + 1 - i],
   n_refs |-> [p \in Packets |-> 0],
   mqp |-> [p \in Packets |-> NoMsg],
   tx |-> <<>>]                  \* what the socket has taken and the server not yet read

is_connected(c) == "NOW_CONNECTED" \in c.flags /\ "NETWORK_CLOSE" \notin c.flags

IdOf(c) == [p \in Packets |-> c.mqp[p].id]

\* assign_new_msg_id, a u16: odd, so never 0, which stands for QoS 0
assign_new_msg_id(c) == (c.msg_id + 2) % 65536

\* mqp_client_alloc, for a pool that is not empty
mqp_client_alloc(c, msg) ==
  LET p == Head(c.free_list)
  IN [c EXCEPT !.free_list = Tail(@), !.n_refs[p] = 1, !.mqp[p] = msg]

\* The contents of a packet that nobody refers to do not matter.
mqp_free(c, p) ==
  LET last == c.n_refs[p] = 1
  IN [c EXCEPT !.n_refs[p]  = @ - 1,
               !.free_list  = IF last THEN <<p>> \o @ ELSE @,
               !.mqp[p]     = IF last THEN NoMsg ELSE @]

Hold(c, p) == [c EXCEPT !.n_refs[p] = @ + 1]   \* mqp->n_refs++

\* Three writes, one step where no other task can come in between; SlMqttTasks
\* takes them apart.
tx_part_reset(c) ==
  LET freed == IF c.tx_mqp = NULL THEN c ELSE mqp_free(c, c.tx_mqp)
  IN [freed EXCEPT !.tx_mqp = NULL, !.tx_part = FALSE]

-----------------------------------------------------------------------------
\* The list of packets that wait for their first acknowledgement

\* mqp_ack_wlist_remove: the position of the packet it takes out, the first
\* with the id; 0 if there is none
AckWlistFind(wl, idOf, id) == SelectInSeq(wl, LAMBDA p : idOf[p] = id)

mqp_ack_wlist_remove(wl, idOf, id) ==
  LET i == AckWlistFind(wl, idOf, id)
  IN IF i = 0 THEN wl ELSE RemoveAt(wl, i)

-----------------------------------------------------------------------------
\* Closing the connection

\* Mutant: the test of the message type is the wrong way round.
session_311fix_KeepsSubscribe(c) ==
  [c EXCEPT !.qos_ack1_wl = Sift(@, {p \in Packets : c.mqp[p].type # "PUBLISH"})]

session_311fix(c) ==
  [c EXCEPT !.qos_ack1_wl = Sift(@, {p \in Packets : c.mqp[p].type = "PUBLISH"})]

\* mqp_ack_wlist_purge: every packet of the list is freed as by mqp_free, from
\* the head on.
mqp_ack_wlist_purge(c) ==
  LET listed == ToSet(c.qos_ack1_wl)
      last   == {p \in listed : c.n_refs[p] = 1}
  IN [c EXCEPT !.qos_ack1_wl = <<>>,
               !.n_refs    = [p \in Packets |-> IF p \in listed THEN @[p] - 1 ELSE @[p]],
               !.free_list = Reverse(Sift(c.qos_ack1_wl, last)) \o @,
               !.mqp       = [p \in Packets |-> IF p \in last THEN NoMsg ELSE @[p]]]

session_delete(c) ==
  [mqp_ack_wlist_purge(c) EXCEPT !.qos2_rx_cq = qos2_pub_cq_reset,
                                 !.qos2_tx_cq = qos2_pub_cq_reset]

\* CLEAN_SESSION stays: no connect clears it.
ClosedFlags == {"CONNACK_AWAIT", "NOW_CONNECTED", "KA_PINGER_RSP", "NETWORK_CLOSE"}

do_net_close(c) ==
  IF ~c.net THEN c
  ELSE LET s == CASE "CLEAN_SESSION" \in c.flags -> session_delete(c)
                  [] "CLEAN_SESSION" \notin c.flags /\ ~PROTO_V31 -> session_311fix(c)
                  [] OTHER -> c
       IN [tx_part_reset(s) EXCEPT !.flags = @ \ ClosedFlags, !.net = FALSE, !.tx = <<>>]

\* do_net_close_tx of a context with a receive task: that is to close.
do_net_close_tx(c) == [c EXCEPT !.flags = @ \cup {"NETWORK_CLOSE"}]

-----------------------------------------------------------------------------
\* Sending

\* The two tests of cl_ctx_seg1_send before it uses tx_part
MaySend(c, is_conn_msg) == is_conn_msg # is_connected(c) /\ ~c.tx_part

tx_part_setup(c, p) == [c EXCEPT !.tx_part = TRUE, !.tx_mqp = p]

\* cl_ctx_part_send: the socket takes the packet (ok) or not
cl_ctx_part_send(c, msg, ok) ==
  IF ok THEN tx_part_reset([c EXCEPT !.tx = Append(@, msg)]) ELSE do_net_close_tx(c)

cl_ctx_seg1_send(c, msg, p, ok) ==
  IF MaySend(c, FALSE) THEN cl_ctx_part_send(tx_part_setup(c, p), msg, ok) ELSE c

vh_msg_send(c, type, id, ok) == cl_ctx_seg1_send(c, VhMsg(type, id), NULL, ok)

\* ack2_msg_id_dispatch: the entries it takes for the pending PUBRELs
PendingPubrel(c) ==
  LET cq == c.qos2_tx_cq
  IN IF cq.rd_idx >= qos2_pub_cq_count(cq) THEN <<>>
     ELSE [i \in 1..(qos2_pub_cq_count(cq) - cq.rd_idx) |-> IdAt(cq, cq.rd_idx + i - 1)]

\* Mutant: the packets in the wait list are not sent again.
ToResend_PubrelOnly(c) ==
  [i \in DOMAIN PendingPubrel(c) |-> [mqp |-> NULL, msg |-> VhMsg("PUBREL", PendingPubrel(c)[i])]]

ToResend(c) ==
  [i \in DOMAIN c.qos_ack1_wl |->
     [mqp |-> c.qos_ack1_wl[i], msg |-> c.mqp[c.qos_ack1_wl[i]]]]
  \o [i \in DOMAIN PendingPubrel(c) |->
        [mqp |-> NULL, msg |-> VhMsg("PUBREL", PendingPubrel(c)[i])]]

\* session_resume, with ack1_wl_mqp_dispatch and ack2_msg_id_dispatch: one resend
\* after the other, up to the first that fails; n sends succeed.  A send that
\* succeeds drops the reference that was taken for it; the others keep it.
session_resume(c, n) ==
  LET items   == ToResend(c)
      k       == IF n < Len(items) THEN n ELSE Len(items)
      held(d, item) == IF item.mqp = NULL THEN d ELSE Hold(d, item.mqp)
      sent    == [c EXCEPT !.tx = @ \o [i \in 1..k |-> items[i].msg],
                           !.tx_part = FALSE, !.tx_mqp = NULL]
      next    == items[k + 1]
  IN CASE items = <<>> -> c
       [] items # <<>> /\ ~MaySend(c, FALSE) -> held(c, items[1])
       [] items # <<>> /\ MaySend(c, FALSE) /\ k = Len(items) -> sent
       [] OTHER -> do_net_close_tx(tx_part_setup(held(sent, next), next.mqp))

-----------------------------------------------------------------------------
\* Receiving.  A handler returns the context, whether the packet is good, the
\* acknowledgement reported to the application, and the body it is given.

Result(c, rv, ack, body) == [c |-> c, rv |-> rv, ack |-> ack, body |-> body]
Bad(c)  == Result(c, FALSE, "", 0)
Good(c) == Result(c, TRUE, "", 0)

\* ack1_wl_rmfree, for a packet that is in the list
ack1_wl_rmfree(c, id) ==
  LET wl == c.qos_ack1_wl
      p  == wl[AckWlistFind(wl, IdOf(c), id)]
  IN mqp_free([c EXCEPT !.qos_ack1_wl = mqp_ack_wlist_remove(wl, IdOf(c), id)], p)

\* Mutant: the packet stays in the wait list.
proc_pub_rec_rx_KeepsPacket(c, id, ok) ==
  IF id = c.mqp[Head(c.qos_ack1_wl)].id /\ c.qos2_tx_cq.n_free > 0
  THEN Good(vh_msg_send([c EXCEPT !.qos2_tx_cq = qos2_pub_cq_logup(@, id)], "PUBREL", id, ok))
  ELSE Bad(c)

\* _proc_pub_rec_rx: only the packet that was sent first is looked at
proc_pub_rec_rx(c, id, ok) ==
  IF id = c.mqp[Head(c.qos_ack1_wl)].id /\ c.qos2_tx_cq.n_free > 0
  THEN LET logged == [c EXCEPT !.qos2_tx_cq = qos2_pub_cq_logup(@, id)]
       IN Good(vh_msg_send(ack1_wl_rmfree(logged, id), "PUBREL", id, ok))
  ELSE Bad(c)

\* _proc_pub_rel_rx
proc_pub_rel_rx(c, id, ok) ==
  LET sent == vh_msg_send(c, "PUBCOMP", id, ok)
  IN Good(IF qos2_pub_cq_check(sent.qos2_rx_cq, id)
          THEN [sent EXCEPT !.qos2_rx_cq = qos2_pub_cq_unlog(@, id)]
          ELSE sent)

\* ack2_msg_id_unlog
proc_pub_comp_rx(c, id) ==
  LET unlogged == [c EXCEPT !.qos2_tx_cq = qos2_pub_cq_unlog(@, id)]
  IN IF UnlogSucceeds(c.qos2_tx_cq, id) THEN Result(unlogged, TRUE, "PUBCOMP", 0)
     ELSE Bad(unlogged)

\* _proc_ack_msg_rx
proc_ack_msg_rx(c, type, id) ==
  IF AckWlistFind(c.qos_ack1_wl, IdOf(c), id) = 0 THEN Bad(c)
  ELSE Result(ack1_wl_rmfree(c, id), TRUE, type, 0)

\* Mutant: it is not checked whether the message was delivered.
proc_pub_msg_rx_NoCheck(c, msg, ok) ==
  LET ack == IF msg.qos = 1 THEN "PUBACK" ELSE "PUBREC"
  IN Result(IF msg.qos = 0 THEN c ELSE vh_msg_send(c, ack, msg.id, ok), TRUE, "", msg.body)

\* proc_pub_msg_rx
proc_pub_msg_rx(c, msg, ok) ==
  LET deliver(s) == Result(s, TRUE, "", msg.body)
      cq == c.qos2_rx_cq
  IN CASE msg.qos = 0 -> deliver(c)
       [] msg.qos = 1 -> deliver(vh_msg_send(c, "PUBACK", msg.id, ok))
       [] msg.qos = 2 /\ qos2_pub_cq_check(cq, msg.id) -> Good(c)
       [] msg.qos = 2 /\ ~qos2_pub_cq_check(cq, msg.id) /\ cq.n_free = 0 -> Bad(c)
       [] OTHER -> deliver(vh_msg_send([c EXCEPT !.qos2_rx_cq = qos2_pub_cq_logup(@, msg.id)],
                                       "PUBREC", msg.id, ok))

\* proc_connack_rx; the id of a CONNACK stands for its return code
proc_connack_rx(c, msg, n) ==
  LET answered  == [c EXCEPT !.flags = @ \ {"CONNACK_AWAIT"}]
      connected == [answered EXCEPT !.flags = @ \cup {"NOW_CONNECTED"}]
  IN Result(CASE msg.id # 0 -> answered
              [] msg.id = 0 /\ "CLEAN_SESSION" \in c.flags -> session_delete(connected)
              [] OTHER -> session_resume(connected, n),
            TRUE, "CONNACK", 0)

\* proc_pingrsp_rx: the application does not ping itself
proc_pingrsp_rx(c) ==
  IF "KA_PINGER_RSP" \in c.flags THEN Good([c EXCEPT !.flags = @ \ {"KA_PINGER_RSP"}])
  ELSE Bad(c)

\* process_recv; of the packets it sends, the socket takes the first n
process_recv(c, msg, n) ==
  IF "CONNACK_AWAIT" \in c.flags
  THEN IF msg.type = "CONNACK" THEN proc_connack_rx(c, msg, n) ELSE Bad(c)
  ELSE CASE msg.type = "PUBREC"   -> proc_pub_rec_rx(c, msg.id, n > 0)
         [] msg.type = "PUBREL"   -> proc_pub_rel_rx(c, msg.id, n > 0)
         [] msg.type = "PUBCOMP"  -> proc_pub_comp_rx(c, msg.id)
         [] msg.type \in {"PUBACK", "SUBACK", "UNSUBACK"} -> proc_ack_msg_rx(c, msg.type, msg.id)
         [] msg.type = "PINGRSP"  -> proc_pingrsp_rx(c)
         [] msg.type = "PUBLISH"  -> proc_pub_msg_rx(c, msg, n > 0)
         [] OTHER -> Bad(c)
=============================================================================
