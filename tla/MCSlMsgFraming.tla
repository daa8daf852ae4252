--------------------------- MODULE MCSlMsgFraming ---------------------------
(***************************************************************************)
(* An instance of SlMsgFraming for TLC.                                    *)
(***************************************************************************)
EXTENDS SlMsgFraming

\* Responses for a buffer of 4 bytes, with a payload that fills it and with one
\* byte more.
ShortBufferMessages ==
  {m \in AnyMessage :
     /\ m.class = "CMD_RESP_CLASS" /\ m.shift = 0 /\ m.again = 0 /\ m.args = 4
     /\ m.user = 4 /\ m.data \in {4, 5}}
=============================================================================
