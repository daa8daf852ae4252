----------------------------- MODULE MqttCommon -----------------------------
(***************************************************************************)
(* The book-keeping of QoS 2 messages that client and server share         *)
(* (mqtt_common.c): a circular queue of message ids.                       *)
(***************************************************************************)
EXTENDS Integers, Sequences

CONSTANT MAX_PUBREL_INFLT   \* 8

\* A power of 2, as the mask needs it, and an index fits in a byte.
ASSUME CqAssumption == MAX_PUBREL_INFLT \in {1, 2, 4, 8, 16, 32, 64, 128}

\* qos2_pub_cq_reset
qos2_pub_cq_reset ==
  [id_vec |-> [i \in 0..(MAX_PUBREL_INFLT - 1) |-> 0],
   n_free |-> MAX_PUBREL_INFLT, rd_idx |-> 0, wr_idx |-> 0]

qos2_pub_cq_count(cq) == MAX_PUBREL_INFLT - cq.n_free

\* cq->id_vec[i].  Behind the vector lie n_free and rd_idx, which is not
\* masked by a failed qos2_pub_cq_unlog.
IdAt(cq, i) ==
  IF i < MAX_PUBREL_INFLT THEN cq.id_vec[i] ELSE cq.n_free + 256 * cq.rd_idx

Masked(i) == i % MAX_PUBREL_INFLT   \* i & (MAX_PUBREL_INFLT - 1)

\* qos2_pub_cq_logup: for a queue that is not full
qos2_pub_cq_logup(cq, id) ==
  [cq EXCEPT !.id_vec[cq.wr_idx] = id, !.wr_idx = Masked(@ + 1), !.n_free = @ - 1]

UnlogSucceeds(cq, id) == qos2_pub_cq_count(cq) > 0 /\ id = IdAt(cq, cq.rd_idx)

\* qos2_pub_cq_unlog: only the oldest id can be removed.  The attempt moves
\* rd_idx also when it fails.
qos2_pub_cq_unlog(cq, id) ==
  CASE qos2_pub_cq_count(cq) = 0 -> cq
    [] UnlogSucceeds(cq, id)     -> [cq EXCEPT !.rd_idx = Masked(@ + 1), !.n_free = @ + 1]
    [] OTHER                     -> [cq EXCEPT !.rd_idx = @ + 1]

\* qos2_pub_cq_check
qos2_pub_cq_check(cq, id) ==
  \E i \in 0..(qos2_pub_cq_count(cq) - 1) :
    id = IdAt(cq, IF i = 0 THEN cq.rd_idx ELSE Masked(cq.rd_idx + i))

-----------------------------------------------------------------------------
\* The items of a list that are in a set, in their order
Sift(s, keep) ==
  LET F[i \in 0..Len(s)] ==
        IF i = 0 THEN <<>>
        ELSE IF s[i] \in keep THEN Append(F[i - 1], s[i]) ELSE F[i - 1]
  IN F[Len(s)]
=============================================================================
