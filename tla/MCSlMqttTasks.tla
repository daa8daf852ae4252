--------------------------- MODULE MCSlMqttTasks ---------------------------
(***************************************************************************)
(* Two instances of SlMqttTasks for TLC: SlMqttTasks.cfg has the receive   *)
(* task above the application, SlMqttTasks_race.cfg lets either preempt    *)
(* the other.                                                              *)
(***************************************************************************)
EXTENDS SlMqttTasks

\* The requests of mqtt_session
MixedRequests == {Publish(2), Subscribe}
=============================================================================
