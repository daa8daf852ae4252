--------------------------- MODULE MCSlMqttClient ---------------------------
(***************************************************************************)
(* Instances of the MQTT client for TLC.                                   *)
(***************************************************************************)
EXTENDS SlMqttClient

\* A message with two acknowledgements, which is sent again after a reconnect,
\* and a subscription, which is not.
MixedRequests == {Publish(2), Subscribe}
=============================================================================
