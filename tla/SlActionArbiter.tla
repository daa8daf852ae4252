--------------------------- MODULE SlActionArbiter ---------------------------
(***************************************************************************)
(* What the action-object pool promises the blocking APIs: a call waits    *)
(* until its socket (or its action) is free, then has it alone until it    *)
(* is done, and a call that returns an answer returns the answer to its    *)
(* own request.  Nothing here says how calls queue or are woken.           *)
(***************************************************************************)
CONSTANTS
  Caller,       \* the tasks
  Question,     \* the requests a caller may make
  Key(_),       \* the socket or action a request needs
  None          \* no request, no answer

VARIABLES
  phase,        \* "idle", "waiting", "holding" or "answered"
  asked,        \* the current request of each caller
  got           \* the answer in each caller's buffer

avars == <<phase, asked, got>>

AInit ==
  /\ phase = [c \in Caller |-> "idle"]
  /\ asked = [c \in Caller |-> None]
  /\ got = [c \in Caller |-> None]

Holders == {c \in Caller : phase[c] \in {"holding", "answered"}}

KeyIsFree(q) == \A c \in Holders : Key(asked[c]) # Key(q)

\* A call is made; it may have to wait even though its key is free.
Wait(c, q) ==
  /\ phase[c] = "idle"
  /\ phase' = [phase EXCEPT ![c] = "waiting"]
  /\ asked' = [asked EXCEPT ![c] = q]
  /\ got' = [got EXCEPT ![c] = None]

\* A call is made and finds its key free.
Enter(c, q) ==
  /\ phase[c] = "idle"
  /\ KeyIsFree(q)
  /\ phase' = [phase EXCEPT ![c] = "holding"]
  /\ asked' = [asked EXCEPT ![c] = q]
  /\ got' = [got EXCEPT ![c] = None]

\* A waiting call finds its key free.
Grant(c) ==
  /\ phase[c] = "waiting"
  /\ KeyIsFree(asked[c])
  /\ phase' = [phase EXCEPT ![c] = "holding"]
  /\ UNCHANGED <<asked, got>>

\* The answer to the caller's own request arrives.
Reply(c) ==
  /\ phase[c] = "holding"
  /\ got' = [got EXCEPT ![c] = asked[c]]
  /\ phase' = [phase EXCEPT ![c] = "answered"]
  /\ UNCHANGED asked

\* The call returns, with an answer or because the command was refused.
Return(c) ==
  /\ phase[c] \in {"holding", "answered"}
  /\ phase' = [phase EXCEPT ![c] = "idle"]
  /\ UNCHANGED <<asked, got>>

ANext ==
  \E c \in Caller :
    \/ \E q \in Question : Wait(c, q) \/ Enter(c, q)
    \/ Grant(c)
    \/ Reply(c)
    \/ Return(c)

ASpec == AInit /\ [][ANext]_avars
==============================================================================
