---------------------------- MODULE MCSlTransfer ----------------------------
(***************************************************************************)
(* An instance of SlTransfer for TLC.                                      *)
(***************************************************************************)
EXTENDS SlTransfer

\* Messages that fit; receives for a buffer of one length, and the shifted or
\* repeated patterns with few lengths.
FittingMessages ==
  {m \in AnyMessage :
     /\ Fits(m)
     /\ m.class = "RECV_RESP_CLASS" => m.user = MaxLen
     /\ m.shift # 0 \/ m.again # 0 => m.data \in {0, MaxLen} /\ m.args \in {0, 4}}

\* Descriptors that are no multiple of 4, a payload, and sl_FsClose with a
\* certificate's name and a signature (RxPayloadLen < 0).
Commands ==
  {c \in AnyCommand : c.desc \in {0, 5, 12} /\ c.tx \in {0, 7, 8} /\ c.rx \in {-8, 0, 3}}
=============================================================================
