---------------------------- MODULE SlMqttTasks ----------------------------
(***************************************************************************)
(* SlMqttClient with tasks that are preempted.  The steps of that module   *)
(* in which a task uses tx_part or closes the connection are taken apart   *)
(* where the other task can come in between: the test of tx_part and its   *)
(* set-up, tx_part_reset, the wait list, and do_net_close, which the       *)
(* receive task calls without the mutex.  What a task does to a packet in  *)
(* mqp_free and to the list is one step.                                   *)
(***************************************************************************)
EXTENDS SlMqttClient
LOCAL INSTANCE SequencesExt

CONSTANT RX_FIRST   \* rx_tsk_priority is above the priority of the application

VARIABLES
  at,       \* what each task does next of the code taken apart; "no", nothing
  tx_mqp    \* tx_part_reset: the packet each task has read from tx_part

taskVars == <<vars, at, tx_mqp>>

TasksInit ==
  /\ Init
  /\ at = [t \in {"app", "rx"} |-> "no"] /\ tx_mqp = [t \in {"app", "rx"} |-> NULL]

Move(t, from, to) == at[t] = from /\ at' = [at EXCEPT ![t] = to]

-----------------------------------------------------------------------------
\* tx_part_reset: the packet is read, freed, and tx_part cleared.

Reset(t, from, to, c) ==
  /\ Move(t, from, to) /\ ctx' = c
  /\ UNCHANGED <<app, awaited_ack, conn_ack, ack_sync_obj, g_rx_tx_sync_obj, rx,
                 serverVars, count, history>>

ResetLoad(t) == Reset(t, "load", "free", ctx) /\ tx_mqp' = [tx_mqp EXCEPT ![t] = ctx.tx_mqp]

ResetFree(t) ==
  /\ Reset(t, "free", "clear", IF tx_mqp[t] = NULL THEN ctx ELSE mqp_free(ctx, tx_mqp[t]))
  /\ UNCHANGED tx_mqp

ResetClear(t) ==
  /\ Reset(t, "clear", "end", [ctx EXCEPT !.tx_mqp = NULL, !.tx_part = FALSE])
  /\ UNCHANGED tx_mqp

TxPartReset(t) == ResetLoad(t) \/ ResetFree(t) \/ ResetClear(t)

-----------------------------------------------------------------------------
\* The application's task.  It has the mutex while app.pc = "sending".

AppUnchanged ==
  UNCHANGED <<awaited_ack, conn_ack, ack_sync_obj, rx, serverVars, count, published, received, tx_mqp>>

\* tx_part is found to be free.
SendTest ==
  /\ app.pc = "composed" /\ app.call # ConnectCall /\ MaySend(ctx, FALSE)
  /\ Move("app", "no", "setup")
  /\ ctx' = IF app.call.qos = 0 THEN ctx ELSE Hold(ctx, app.mqp)
  /\ app' = [app EXCEPT !.pc = "sending"]
  /\ UNCHANGED <<g_rx_tx_sync_obj, owed>> /\ AppUnchanged

SendSetup ==
  /\ Move("app", "setup", "no")
  /\ ctx' = tx_part_setup(ctx, app.mqp)
  /\ UNCHANGED <<app, g_rx_tx_sync_obj, owed>> /\ AppUnchanged

\* net_send returns.
SendDone ==
  /\ app.pc = "sending" /\ Move("app", "no", "load")
  /\ ctx' = [ctx EXCEPT !.tx = Append(@, IF app.call = DisconnCall THEN VhMsg("DISCONNECT", 0) ELSE app.msg)]
  /\ UNCHANGED <<app, g_rx_tx_sync_obj, owed>> /\ AppUnchanged

\* What follows tx_part_reset, up to the end of the mutex: of a CONNECT, of a
\* DISCONNECT, and of a packet that is enlisted.
SendEnd ==
  /\ Move("app", "end", "no")
  /\ ctx' = CASE app.call = ConnectCall ->
                   [ctx EXCEPT !.flags = @ \cup {"CONNACK_AWAIT"} \cup (IF app.clean THEN {"CLEAN_SESSION"} ELSE {})]
              [] app.call = DisconnCall -> do_net_close_tx(ctx)
              [] app.call = Publish(0)  -> ctx
              [] OTHER                  -> [ctx EXCEPT !.qos_ack1_wl = Append(@, app.mqp)]
  /\ app' = After(IF Blocks(app.call) THEN "wait" ELSE "exit")
  /\ g_rx_tx_sync_obj' = (g_rx_tx_sync_obj \/ app.call = ConnectCall)
  /\ owed' = IF app.call.type = "PUBLISH" /\ app.call.qos > 0 THEN owed \cup {app.msg.body} ELSE owed
  /\ AppUnchanged

\* The receive task waits for a signal, for the mutex or for the network: only
\* then does an application with a lower priority run.
RxBlocked ==
  /\ at["rx"] = "no"
  /\ CASE rx = "signal" -> ~g_rx_tx_sync_obj
       [] rx \in {"alloc", "done", "failed"} -> app.pc = "sending"
       [] OTHER -> rx # "prep"

AppTask ==
  /\ RX_FIRST => RxBlocked
  /\ \/ /\ \/ \E clean \in CleanChoices : StartConnect(clean)
           \/ \E call \in Requests \cup {DisconnCall} : StartCall(call)
           \/ Compose \/ NetConnect
           \/ Dispatch /\ ~MaySend(ctx, FALSE)
           \/ SendFails /\ at["app"] = "no"
           \/ AckSignalWait \/ Return
        /\ UNCHANGED <<at, tx_mqp>>
     \/ SendTest \/ SendSetup \/ SendDone \/ TxPartReset("app") \/ SendEnd

-----------------------------------------------------------------------------
\* The receive task.  Under the mutex it is alone, and its steps are those of
\* SlMqttClient.

RxUnchanged ==
  UNCHANGED <<app, awaited_ack, conn_ack, ack_sync_obj, g_rx_tx_sync_obj, server,
              published, received, tx_mqp>>

\* single_ctx_rx_prep finds a reason to close.
CloseBegin ==
  /\ rx = "prep" /\ ctx.net
  /\ \/ ~is_connected(ctx)
     \/ KEEP_ALIVE /\ ("KA_PINGER_RSP" \in ctx.flags \/ ~MaySend(ctx, FALSE))
  /\ Move("rx", "no", "session")
  /\ UNCHANGED <<ctx, rx, link, down, count, owed>> /\ RxUnchanged

\* do_net_close before tx_part_reset
CloseSession ==
  /\ Move("rx", "session", "load")
  /\ ctx' = CASE "CLEAN_SESSION" \in ctx.flags -> session_delete(ctx)
              [] "CLEAN_SESSION" \notin ctx.flags /\ ~PROTO_V31 -> session_311fix(ctx)
              [] OTHER -> ctx
  /\ UNCHANGED <<rx, link, down, count, owed>> /\ RxUnchanged

\* do_net_close after tx_part_reset
CloseEnd ==
  /\ rx = "prep" /\ Move("rx", "end", "no")
  /\ ctx' = [ctx EXCEPT !.flags = @ \ ClosedFlags, !.net = FALSE, !.tx = <<>>]
  /\ link' = "none" /\ down' = <<>>
  /\ owed' = IF "CLEAN_SESSION" \in ctx.flags THEN {} ELSE owed
  /\ rx' = "closing"
  /\ UNCHANGED count /\ RxUnchanged

\* The keep-alive time is over, and tx_part is found to be free.
PingTest ==
  /\ rx = "prep" /\ KEEP_ALIVE /\ MoreMessages
  /\ "KA_PINGER_RSP" \notin ctx.flags /\ MaySend(ctx, FALSE)
  /\ Move("rx", "no", "setup")
  /\ rx' = "ping"
  /\ count' = [count EXCEPT !.pings = @ + 1]
  /\ UNCHANGED <<ctx, link, down, owed>> /\ RxUnchanged

PingSetup ==
  /\ Move("rx", "setup", "no")
  /\ ctx' = tx_part_setup(ctx, NULL)
  /\ UNCHANGED <<rx, link, down, count, owed>> /\ RxUnchanged

\* net_send returns.
PingDone ==
  /\ rx = "ping"
  /\ \/ /\ Move("rx", "no", "load") /\ UNCHANGED rx
        /\ ctx' = [ctx EXCEPT !.tx = Append(@, VhMsg("PINGREQ", 0))]
     \/ /\ FALSE \in SendOk
        /\ Move("rx", "no", "session") /\ rx' = "prep"
        /\ ctx' = do_net_close_tx(ctx)
  /\ UNCHANGED <<link, down, count, owed>> /\ RxUnchanged

PingEnd ==
  /\ rx = "ping" /\ Move("rx", "end", "no")
  /\ ctx' = [ctx EXCEPT !.flags = @ \cup {"KA_PINGER_RSP"}]
  /\ rx' = "alloc"
  /\ UNCHANGED <<link, down, count, owed>> /\ RxUnchanged

RxTask ==
  \/ /\ at["rx"] = "no"
     /\ \/ RxSignalWait \/ RxNotConn \/ RxClosed \/ RxOnTime
        \/ RxAlloc \/ RxTimeout \/ RxMisread \/ RxError \/ RxProcess \/ RxFree
     /\ UNCHANGED <<at, tx_mqp>>
  \/ CloseBegin \/ CloseSession \/ CloseEnd
  \/ PingTest \/ PingSetup \/ PingDone \/ PingEnd
  \/ TxPartReset("rx")

TasksNext ==
  \/ AppTask \/ RxTask
  \/ /\ ServerRecv \/ ServerRefuse \/ DropLink \/ \E qos \in ServerQos : ServerPublish(qos)
     /\ UNCHANGED <<at, tx_mqp>>

TasksSpec == TasksInit /\ [][TasksNext]_taskVars

-----------------------------------------------------------------------------
\* "The services of the library are multi-task safe": a packet that waits for
\* its acknowledgement, that is received or that a call has composed is not in
\* the pool, and has no second use.
PacketsNotShared ==
  LET composed == IF app.pc = "composed" THEN {app.mqp} \ {NULL} ELSE {}
      received_into == {ctx.rx_mqp} \ {NULL}
      waiting == ToSet(ctx.qos_ack1_wl)
  IN /\ (composed \cup received_into \cup waiting) \cap ToSet(ctx.free_list) = {}
     /\ composed \cap received_into = {}
     /\ (composed \cup received_into) \cap waiting = {}
     /\ IsInjective(ctx.free_list)
=============================================================================
