----------------------------- MODULE MCSlDrvPool -----------------------------
(***************************************************************************)
(* Instances of the action-object pool for TLC.                            *)
(***************************************************************************)
EXTENDS SlDrvPool, TLC

Ask(a, s)  == [ActionID |-> a, SocketID |-> s, v6 |-> FALSE]

\* Three actions that contend for one socket, a call of one of them on another
\* socket, and the query whose handler does not wake its caller.  The accept
\* is answered with an IPv6 address: only behind that query it is found.
AnswerRequests ==
  {Ask(RECV_ID, 0), [Ask(ACCEPT_ID, 0) EXCEPT !.v6 = TRUE],
   Ask(CONNECT_ID, 0), Ask(CONNECT_ID, 1),
   [ActionID |-> GETHOSYBYSERVICE_ID, SocketID |-> SL_MAX_SOCKETS, v6 |-> TRUE]}

\* Calls that contend only with calls of the same action, as the API notes
\* describe: receives on a socket, name queries of both families.
SameActionRequests ==
  {Ask(RECV_ID, 0), Ask(GETHOSYBYNAME_ID, SL_MAX_SOCKETS),
   [ActionID |-> GETHOSYBYNAME_ID, SocketID |-> SL_MAX_SOCKETS, v6 |-> TRUE]}

\* A socket is used by two different actions.
SharedSocketRequests == {Ask(RECV_ID, 0), Ask(CONNECT_ID, 0)}

Symmetry == Permutations(Task)
==============================================================================
