-------------------------- MODULE MqttClientProofs --------------------------
(***************************************************************************)
(* What the circular queue of QoS 2 message ids does for every capacity:   *)
(* used in order it is exactly a set of ids, and the one way to spoil it   *)
(* is an acknowledgement that is not for the oldest id.  Then lemmas about *)
(* the routines of the client library: how each changes references, queues *)
(* and what is sent, for every context.                                    *)
(***************************************************************************)
EXTENDS MqttClient, TLAPS
LOCAL INSTANCE SequencesExt
LOCAL INSTANCE FiniteSetTheorems

LastIdx == MAX_PUBREL_INFLT - 1

\* A queue as its routines mean it to be
CqOK(cq) ==
  /\ cq \in [id_vec : [0..LastIdx -> Nat], n_free : 0..MAX_PUBREL_INFLT,
             rd_idx : 0..LastIdx, wr_idx : 0..LastIdx]
  /\ cq.wr_idx = Masked(cq.rd_idx + qos2_pub_cq_count(cq))

\* The ids it holds, from the oldest on
Logged(cq) ==
  {cq.id_vec[Masked(cq.rd_idx + i)] : i \in 0..(qos2_pub_cq_count(cq) - 1)}

-----------------------------------------------------------------------------
\* MAX_PUBREL_INFLT is a number to count to.
LEMMA CapacityNat == MAX_PUBREL_INFLT \in Nat \ {0}
BY CqAssumption

\* Masking wraps an index that is at most one round ahead.
LEMMA MaskedWraps ==
  ASSUME NEW i \in 0..(2 * MAX_PUBREL_INFLT - 1)
  PROVE  /\ Masked(i) = IF i < MAX_PUBREL_INFLT THEN i ELSE i - MAX_PUBREL_INFLT
         /\ Masked(i) \in 0..LastIdx
<1>1. CASE i < MAX_PUBREL_INFLT
  BY <1>1, CapacityNat, SMT DEF Masked, LastIdx
<1>2. CASE ~(i < MAX_PUBREL_INFLT)
  BY <1>2, CapacityNat, SMT DEF Masked, LastIdx
<1> QED
  BY <1>1, <1>2

\* The place k behind the place r
LEMMA PlaceBehind ==
  ASSUME NEW r \in 0..LastIdx, NEW k \in 0..MAX_PUBREL_INFLT
  PROVE  /\ Masked(r + k) = IF r + k < MAX_PUBREL_INFLT THEN r + k ELSE (r + k) - MAX_PUBREL_INFLT
         /\ Masked(r + k) \in 0..LastIdx
<1>1. r + k \in 0..(2 * MAX_PUBREL_INFLT - 1)
  BY CapacityNat DEF LastIdx
<1>2. \A i \in 0..(2 * MAX_PUBREL_INFLT - 1) :
        /\ Masked(i) = IF i < MAX_PUBREL_INFLT THEN i ELSE i - MAX_PUBREL_INFLT
        /\ Masked(i) \in 0..LastIdx
  BY MaskedWraps
<1> QED
  BY <1>1, <1>2, Zenon

\* Places of the same round differ.
LEMMA PlacesDiffer ==
  ASSUME NEW r \in 0..LastIdx, NEW k \in 0..LastIdx, NEW i \in 0..(k - 1)
  PROVE  Masked(r + i) # Masked(r + k)
<1>1. k \in 0..MAX_PUBREL_INFLT /\ i \in 0..MAX_PUBREL_INFLT
  BY CapacityNat DEF LastIdx
<1>2. /\ Masked(r + k) = IF r + k < MAX_PUBREL_INFLT THEN r + k ELSE (r + k) - MAX_PUBREL_INFLT
      /\ Masked(r + i) = IF r + i < MAX_PUBREL_INFLT THEN r + i ELSE (r + i) - MAX_PUBREL_INFLT
  BY <1>1, PlaceBehind
<1> QED
  BY <1>2, CapacityNat DEF LastIdx

\* Stepping from place to place is counting on.
LEMMA PlaceNext ==
  ASSUME NEW r \in 0..LastIdx, NEW k \in 0..LastIdx
  PROVE  /\ Masked(Masked(r + k) + 1) = Masked(r + (k + 1))
         /\ Masked(Masked(r + 1) + k) = Masked(r + (k + 1))
<1> DEFINE N == MAX_PUBREL_INFLT
<1>1. k \in 0..N /\ k + 1 \in 0..N /\ 1 \in 0..N
  BY CapacityNat DEF LastIdx
<1>2. /\ Masked(r + k) = IF r + k < N THEN r + k ELSE (r + k) - N
      /\ Masked(r + k) \in 0..LastIdx
      /\ Masked(r + 1) = IF r + 1 < N THEN r + 1 ELSE (r + 1) - N
      /\ Masked(r + 1) \in 0..LastIdx
      /\ Masked(r + (k + 1)) = IF r + (k + 1) < N THEN r + (k + 1) ELSE (r + (k + 1)) - N
  BY <1>1, PlaceBehind
<1>3. /\ Masked(Masked(r + k) + 1) = IF Masked(r + k) + 1 < N THEN Masked(r + k) + 1
                                    ELSE (Masked(r + k) + 1) - N
      /\ Masked(Masked(r + 1) + k) = IF Masked(r + 1) + k < N THEN Masked(r + 1) + k
                                    ELSE (Masked(r + 1) + k) - N
  BY <1>1, <1>2, PlaceBehind
<1> HIDE DEF N
<1>4. N \in Nat \ {0} /\ r \in 0..(N - 1) /\ k \in 0..(N - 1)
  BY CapacityNat DEF LastIdx, N
<1>5. Masked(Masked(r + k) + 1) = Masked(r + (k + 1))
  BY <1>2, <1>3, <1>4
<1>6. Masked(Masked(r + 1) + k) = Masked(r + (k + 1))
  BY <1>2, <1>3, <1>4
<1> QED
  BY <1>5, <1>6

\* A queue in order is a record with fields of their types.
LEMMA CqFields ==
  ASSUME NEW cq, CqOK(cq)
  PROVE  /\ cq.id_vec \in [0..LastIdx -> Nat] /\ cq.n_free \in 0..MAX_PUBREL_INFLT
         /\ cq.rd_idx \in 0..LastIdx /\ cq.wr_idx \in 0..LastIdx
         /\ qos2_pub_cq_count(cq) \in 0..MAX_PUBREL_INFLT
         /\ qos2_pub_cq_count(cq) = MAX_PUBREL_INFLT - cq.n_free
         /\ cq.wr_idx = Masked(cq.rd_idx + qos2_pub_cq_count(cq))
BY CapacityNat DEF CqOK, qos2_pub_cq_count

\* The duplicate test of proc_pub_msg_rx (qos2_pub_cq_check) looks at the ids
\* that are logged and at no others.
THEOREM CheckIsLogged ==
  ASSUME NEW cq, CqOK(cq), NEW id \in Nat
  PROVE  qos2_pub_cq_check(cq, id) <=> id \in Logged(cq)
<1> DEFINE n == qos2_pub_cq_count(cq)
<1>1. cq.rd_idx \in 0..LastIdx /\ n \in 0..MAX_PUBREL_INFLT
  BY CqFields
<1>2. ASSUME NEW i \in 0..(n - 1)
      PROVE  IdAt(cq, IF i = 0 THEN cq.rd_idx ELSE Masked(cq.rd_idx + i))
               = cq.id_vec[Masked(cq.rd_idx + i)]
  <2>1. i \in 0..MAX_PUBREL_INFLT
    BY <1>1, CapacityNat
  <2>2. Masked(cq.rd_idx + i) \in 0..LastIdx
    BY <1>1, <2>1, PlaceBehind
  <2>3. Masked(cq.rd_idx + i) < MAX_PUBREL_INFLT
    BY <2>2, CapacityNat DEF LastIdx
  <2>4. i = 0 => Masked(cq.rd_idx + i) = cq.rd_idx
    <3>1. cq.rd_idx < MAX_PUBREL_INFLT /\ cq.rd_idx + 0 = cq.rd_idx
      BY <1>1, CapacityNat DEF LastIdx
    <3> QED
      BY <1>1, <2>1, <3>1, PlaceBehind
  <2> QED
    BY <2>3, <2>4, Zenon DEF IdAt
<1> QED
  BY <1>2, Zenon DEF qos2_pub_cq_check, Logged

\* A message that is recorded (qos2_pub_cq_logup, before its PUBREC or PUBREL
\* is sent) is remembered, and no other one is forgotten for it.
THEOREM LogupAdds ==
  ASSUME NEW cq, CqOK(cq), cq.n_free > 0, NEW id \in Nat
  PROVE  /\ CqOK(qos2_pub_cq_logup(cq, id))
         /\ Logged(qos2_pub_cq_logup(cq, id)) = Logged(cq) \cup {id}
<1> DEFINE n == qos2_pub_cq_count(cq)
           l == qos2_pub_cq_logup(cq, id)
<1>1. /\ cq.id_vec \in [0..LastIdx -> Nat] /\ cq.n_free \in 1..MAX_PUBREL_INFLT
      /\ cq.rd_idx \in 0..LastIdx /\ cq.wr_idx \in 0..LastIdx
      /\ cq.wr_idx = Masked(cq.rd_idx + n)
  BY CqFields, CapacityNat
<1>2. n \in 0..LastIdx /\ n = MAX_PUBREL_INFLT - cq.n_free
  BY <1>1, CqFields, CapacityNat DEF LastIdx
<1>3. /\ l \in [id_vec : [0..LastIdx -> Nat], n_free : 0..MAX_PUBREL_INFLT,
                 rd_idx : 0..LastIdx, wr_idx : 0..LastIdx]
      /\ l.id_vec = [cq.id_vec EXCEPT ![cq.wr_idx] = id] /\ l.n_free = cq.n_free - 1
      /\ l.rd_idx = cq.rd_idx /\ l.wr_idx = Masked(cq.wr_idx + 1)
  <2>1. Masked(cq.wr_idx + 1) \in 0..LastIdx
    <3>1. 1 \in 0..MAX_PUBREL_INFLT
      BY CapacityNat
    <3> QED
      BY <1>1, <3>1, PlaceBehind
  <2>2. cq.n_free - 1 \in 0..MAX_PUBREL_INFLT
    BY <1>1, CapacityNat
  <2>3. [cq.id_vec EXCEPT ![cq.wr_idx] = id] \in [0..LastIdx -> Nat]
    BY <1>1
  <2> QED
    BY <1>1, <2>1, <2>2, <2>3 DEF CqOK, qos2_pub_cq_logup
<1>4. qos2_pub_cq_count(l) = n + 1
  BY <1>1, <1>2, <1>3, CapacityNat DEF qos2_pub_cq_count
<1>5. CqOK(l)
  <2>1. Masked(cq.wr_idx + 1) = Masked(cq.rd_idx + (n + 1))
    BY <1>1, <1>2, PlaceNext
  <2> QED
    BY <1>3, <1>4, <2>1 DEF CqOK
<1>6. ASSUME NEW i \in 0..(n - 1)
      PROVE  l.id_vec[Masked(l.rd_idx + i)] = cq.id_vec[Masked(cq.rd_idx + i)]
  <2>1. i \in 0..MAX_PUBREL_INFLT
    BY <1>2, CapacityNat DEF LastIdx
  <2>2. Masked(cq.rd_idx + i) # cq.wr_idx
    BY <1>1, <1>2, PlacesDiffer
  <2>3. Masked(cq.rd_idx + i) \in 0..LastIdx
    BY <1>1, <2>1, PlaceBehind
  <2> QED
    BY <1>1, <1>3, <2>2, <2>3
<1>7. l.id_vec[Masked(l.rd_idx + n)] = id
  <2>1. l.id_vec[cq.wr_idx] = id
    BY <1>1, <1>3
  <2>2. Masked(l.rd_idx + n) = cq.wr_idx
    BY <1>1, <1>3, Zenon
  <2> HIDE DEF n, l
  <2> QED
    BY <2>1, <2>2, Zenon
<1>8. n \in Nat
  BY <1>2, CapacityNat DEF LastIdx
<1>9. 0..((n + 1) - 1) = 0..(n - 1) \cup {n}
  BY <1>8
<1>10. Logged(l) = {l.id_vec[Masked(l.rd_idx + i)] : i \in 0..(n - 1) \cup {n}}
  BY <1>4, <1>9, Zenon DEF Logged
<1>11. Logged(cq) = {cq.id_vec[Masked(cq.rd_idx + i)] : i \in 0..(n - 1)}
  BY Zenon DEF Logged
<1> HIDE DEF n, l
<1>12. Logged(l) = Logged(cq) \cup {id}
  BY <1>6, <1>7, <1>10, <1>11, Zenon
<1> QED
  BY <1>5, <1>12 DEF l

\* An acknowledgement of the oldest id (PUBREL for a message of the server,
\* PUBCOMP for one of the client) takes that id and no other from the queue.
THEOREM UnlogTakesOldest ==
  ASSUME NEW cq, CqOK(cq), NEW id \in Nat, UnlogSucceeds(cq, id)
  PROVE  /\ CqOK(qos2_pub_cq_unlog(cq, id))
         /\ Logged(cq) = Logged(qos2_pub_cq_unlog(cq, id)) \cup {id}
<1> DEFINE n == qos2_pub_cq_count(cq)
           u == qos2_pub_cq_unlog(cq, id)
<1>1. /\ cq.id_vec \in [0..LastIdx -> Nat] /\ cq.n_free \in 0..MAX_PUBREL_INFLT
      /\ cq.rd_idx \in 0..LastIdx /\ cq.wr_idx \in 0..LastIdx
      /\ cq.wr_idx = Masked(cq.rd_idx + n) /\ n = MAX_PUBREL_INFLT - cq.n_free
  BY CqFields
<1>2. n \in 1..MAX_PUBREL_INFLT /\ n \in Nat /\ n > 0
  BY CqFields, CapacityNat DEF UnlogSucceeds
<1>3. id = cq.id_vec[cq.rd_idx]
  <2>1. cq.rd_idx < MAX_PUBREL_INFLT
    BY <1>1, CapacityNat DEF LastIdx
  <2> QED
    BY <2>1 DEF UnlogSucceeds, IdAt
<1>4. /\ u \in [id_vec : [0..LastIdx -> Nat], n_free : 0..MAX_PUBREL_INFLT,
                 rd_idx : 0..LastIdx, wr_idx : 0..LastIdx]
      /\ u.id_vec = cq.id_vec /\ u.n_free = cq.n_free + 1
      /\ u.rd_idx = Masked(cq.rd_idx + 1) /\ u.wr_idx = cq.wr_idx
  <2>1. u = [cq EXCEPT !.rd_idx = Masked(@ + 1), !.n_free = @ + 1]
    <3>1. ~(n = 0)
      BY <1>2
    <3> QED
      BY <3>1 DEF qos2_pub_cq_unlog
  <2>2. 1 \in 0..MAX_PUBREL_INFLT /\ cq.n_free + 1 \in 0..MAX_PUBREL_INFLT
    BY SMTT(30), <1>1, <1>2, CapacityNat
  <2>3. Masked(cq.rd_idx + 1) \in 0..LastIdx
    BY <1>1, <2>2, PlaceBehind
  <2> QED
    BY <2>1, <2>2, <2>3 DEF CqOK
<1>5. qos2_pub_cq_count(u) = n - 1
  BY <1>1, <1>4, CapacityNat DEF qos2_pub_cq_count
<1>6. ASSUME NEW i \in 0..(n - 1)
      PROVE  Masked(u.rd_idx + i) = Masked(cq.rd_idx + (i + 1))
  <2>1. i \in 0..LastIdx
    BY <1>2, CapacityNat DEF LastIdx
  <2> QED
    BY ZenonT(30), <1>1, <1>4, <2>1, PlaceNext
<1>7. CqOK(u)
  <2>1. n - 1 \in 0..(n - 1) /\ (n - 1) + 1 = n
    BY <1>2
  <2>2. u.wr_idx = Masked(u.rd_idx + (n - 1))
    BY <1>1, <1>4, <1>6, <2>1
  <2> QED
    BY <1>4, <1>5, <2>2 DEF CqOK
<1>8. Masked(cq.rd_idx + 0) = cq.rd_idx
  <2>1. 0 \in 0..MAX_PUBREL_INFLT /\ cq.rd_idx + 0 = cq.rd_idx /\ cq.rd_idx < MAX_PUBREL_INFLT
    BY <1>1, CapacityNat DEF LastIdx
  <2> QED
    BY <1>1, <2>1, PlaceBehind
<1>9. \A i \in 0..(n - 1) : i = 0 \/ \E j \in 0..((n - 1) - 1) : i = j + 1
  <2> TAKE i \in 0..(n - 1)
  <2>1. i # 0 => i - 1 \in 0..((n - 1) - 1) /\ i = (i - 1) + 1
    BY <1>2
  <2> QED
    BY <2>1
<1>10. \A j \in 0..((n - 1) - 1) : j \in 0..(n - 1) /\ j + 1 \in 0..(n - 1)
  BY <1>2
<1>11. 0 \in 0..(n - 1)
  BY <1>2
<1>12. /\ Logged(u) = {cq.id_vec[Masked(u.rd_idx + j)] : j \in 0..((n - 1) - 1)}
       /\ Logged(cq) = {cq.id_vec[Masked(cq.rd_idx + i)] : i \in 0..(n - 1)}
  BY <1>4, <1>5 DEF Logged
<1> HIDE DEF n, u
<1>13. Logged(cq) = Logged(u) \cup {id}
  <2>1. ASSUME NEW x \in Logged(cq) PROVE x \in Logged(u) \cup {id}
    <3>1. PICK i \in 0..(n - 1) : x = cq.id_vec[Masked(cq.rd_idx + i)]
      BY <1>12, <2>1
    <3>2. CASE i = 0
      BY <3>1, <3>2, <1>3, <1>8
    <3>3. CASE i # 0
      <4>1. PICK j \in 0..((n - 1) - 1) : i = j + 1
        BY <1>9, <3>3
      <4>2. x = cq.id_vec[Masked(u.rd_idx + j)]
        BY <1>6, <1>10, <3>1, <4>1
      <4> QED
        BY <1>12, <4>2
    <3> QED
      BY <3>2, <3>3
  <2>2. ASSUME NEW x \in Logged(u) PROVE x \in Logged(cq)
    <3>1. PICK j \in 0..((n - 1) - 1) : x = cq.id_vec[Masked(u.rd_idx + j)]
      BY <1>12, <2>2
    <3>2. x = cq.id_vec[Masked(cq.rd_idx + (j + 1))] /\ j + 1 \in 0..(n - 1)
      BY <1>6, <1>10, <3>1
    <3> QED
      BY <1>12, <3>2
  <2>3. id \in Logged(cq)
    BY <1>3, <1>8, <1>11, <1>12
  <2> QED
    BY <2>1, <2>2, <2>3
<1> QED
  BY <1>7, <1>13 DEF u

\* An acknowledgement that is not for the oldest id makes the queue forget
\* that id without freeing its place: rd_idx moves, n_free does not, and the
\* queue is no longer in order.
THEOREM FailedUnlogSpoils ==
  ASSUME NEW cq, CqOK(cq), NEW id \in Nat, ~UnlogSucceeds(cq, id),
         qos2_pub_cq_count(cq) > 0, MAX_PUBREL_INFLT > 1
  PROVE  ~CqOK(qos2_pub_cq_unlog(cq, id))
<1> DEFINE n == qos2_pub_cq_count(cq)
           u == qos2_pub_cq_unlog(cq, id)
<1>1. /\ cq.rd_idx \in 0..LastIdx /\ n \in 0..MAX_PUBREL_INFLT /\ ~(n = 0)
      /\ cq.wr_idx = Masked(cq.rd_idx + n)
  BY CqFields, CapacityNat
<1>2. u = [cq EXCEPT !.rd_idx = @ + 1]
  BY <1>1 DEF qos2_pub_cq_unlog
<1>3. u.n_free = cq.n_free /\ u.rd_idx = cq.rd_idx + 1 /\ u.wr_idx = cq.wr_idx
  BY <1>2 DEF CqOK
<1> SUFFICES ASSUME CqOK(u) PROVE FALSE
  OBVIOUS
<1>4. cq.rd_idx + 1 \in 0..LastIdx /\ cq.wr_idx = Masked((cq.rd_idx + 1) + n)
  BY <1>3 DEF CqOK, qos2_pub_cq_count
<1> HIDE DEF n
<1>5. /\ Masked(cq.rd_idx + n) = IF cq.rd_idx + n < MAX_PUBREL_INFLT THEN cq.rd_idx + n
                                ELSE (cq.rd_idx + n) - MAX_PUBREL_INFLT
      /\ Masked((cq.rd_idx + 1) + n) =
           IF (cq.rd_idx + 1) + n < MAX_PUBREL_INFLT THEN (cq.rd_idx + 1) + n
           ELSE ((cq.rd_idx + 1) + n) - MAX_PUBREL_INFLT
  BY <1>1, <1>4, PlaceBehind
<1> QED
  BY <1>1, <1>4, <1>5, CapacityNat DEF LastIdx

-----------------------------------------------------------------------------
\* Every set of natural numbers has a least element: what induction on lists
\* rests on.
LEMMA LeastElement ==
  ASSUME NEW T \in SUBSET Nat, T # {}
  PROVE  \E m \in T : \A k \in T : m <= k
<1>1. IsWellFoundedOn(OpToRel(<, Nat), Nat)
  BY NatLessThanWellFounded
<1>2. PICK m \in T : \A y \in T : ~(<<y, m>> \in OpToRel(<, Nat))
  BY <1>1, WFMin
<1>3. \A y \in T : ~(y < m)
  BY <1>2 DEF OpToRel
<1>. QED  BY <1>3

\* F follows the definition of Sift(s, keep) for n items.
Sifts(F, s, keep, n) ==
  /\ F[0] = <<>>
  /\ \A i \in 1..n : F[i] = IF s[i] \in keep THEN Append(F[i - 1], s[i]) ELSE F[i - 1]

\* The recursion of Sift has a solution for every list.
LEMMA SiftsExists ==
  ASSUME NEW S, NEW s \in Seq(S), NEW keep, NEW n \in 0..Len(s)
  PROVE  \E F \in [0..n -> Seq(S)] : Sifts(F, s, keep, n)
<1> DEFINE Misfits == {k \in 0..Len(s) : ~\E F \in [0..k -> Seq(S)] : Sifts(F, s, keep, k)}
<1>1. SUFFICES ASSUME Misfits # {} PROVE FALSE
  OBVIOUS
<1>2. Len(s) \in Nat
  OBVIOUS
<1>3. PICK m \in Misfits : \A k \in Misfits : m <= k
  <2>1. Misfits \in SUBSET Nat
    BY <1>2
  <2> HIDE DEF Misfits
  <2>. QED  BY <1>1, <2>1, LeastElement
<1>4. m # 0
  <2>1. [k \in 0..0 |-> <<>>] \in [0..0 -> Seq(S)]
    OBVIOUS
  <2>2. Sifts([k \in 0..0 |-> <<>>], s, keep, 0)
    BY DEF Sifts
  <2>. QED  BY <2>1, <2>2, <1>3
<1>5. m - 1 \in 0..Len(s) /\ m - 1 \notin Misfits
  BY <1>2, <1>3, <1>4
<1>6. PICK G \in [0..(m - 1) -> Seq(S)] : Sifts(G, s, keep, m - 1)
  BY <1>5
<1> DEFINE last == IF s[m] \in keep THEN Append(G[m - 1], s[m]) ELSE G[m - 1]
           F == [k \in 0..m |-> IF k = m THEN last ELSE G[k]]
<1>7. G[m - 1] \in Seq(S) /\ s[m] \in S
  BY <1>2, <1>3, <1>4, <1>5
<1>8. last \in Seq(S)
  BY <1>7
<1>9. \A k \in 0..m : k # m => k \in 0..(m - 1)
  BY <1>2, <1>3, <1>4
<1>10. F \in [0..m -> Seq(S)]
  BY <1>8, <1>9
<1>11. Sifts(F, s, keep, m)
  <2>1. F[0] = <<>>
    BY <1>2, <1>3, <1>4, <1>6 DEF Sifts
  <2>2. ASSUME NEW i \in 1..m
        PROVE  F[i] = IF s[i] \in keep THEN Append(F[i - 1], s[i]) ELSE F[i - 1]
    <3>1. i - 1 \in 0..m /\ i - 1 # m /\ i \in 0..m
      BY <1>2, <1>3, <2>2
    <3>2. F[i - 1] = G[i - 1]
      BY <3>1
    <3>3. CASE i = m
      BY <3>1, <3>2, <3>3
    <3>4. CASE i # m
      <4>1. i \in 1..(m - 1) /\ F[i] = G[i]
        BY <1>2, <1>3, <3>1, <3>4
      <4>. QED  BY <4>1, <3>2, <1>6 DEF Sifts
    <3>. QED  BY <3>3, <3>4
  <2>. QED  BY <2>1, <2>2 DEF Sifts
<1>. QED  BY <1>3, <1>10, <1>11

\* The function in the definition of Sift
LEMMA SiftByFunction ==
  ASSUME NEW S, NEW s \in Seq(S), NEW keep
  PROVE  \E F : Sifts(F, s, keep, Len(s)) /\ Sift(s, keep) = F[Len(s)]
<1> DEFINE body(f) == [i \in 0..Len(s) |->
                         IF i = 0 THEN <<>>
                         ELSE IF s[i] \in keep THEN Append(f[i - 1], s[i]) ELSE f[i - 1]]
           F == CHOOSE f : f = body(f)
<1>1. Len(s) \in Nat
  OBVIOUS
<1>2. PICK G \in [0..Len(s) -> Seq(S)] : Sifts(G, s, keep, Len(s))
  <2>1. Len(s) \in 0..Len(s)
    BY <1>1
  <2> HIDE DEF body, F
  <2>. QED  BY <2>1, SiftsExists
<1>3. G = body(G)
  <2>1. ASSUME NEW i \in 0..Len(s) PROVE G[i] = body(G)[i]
    <3>1. CASE i = 0
      BY <1>2, <3>1 DEF Sifts
    <3>2. CASE i # 0
      <4>1. i \in 1..Len(s)
        BY <1>1, <3>2
      <4>. QED  BY <1>2, <3>2, <4>1 DEF Sifts
    <3>. QED  BY <3>1, <3>2
  <2>. QED  BY <2>1
<1>4. F = body(F)
  BY <1>3
<1>5. Sifts(F, s, keep, Len(s))
  <2> HIDE DEF F
  <2>1. F[0] = body(F)[0] /\ \A i \in 1..Len(s) : F[i] = body(F)[i]
    BY <1>4
  <2>2. body(F)[0] = <<>>
    BY <1>1
  <2>3. \A i \in 1..Len(s) : body(F)[i] = IF s[i] \in keep THEN Append(F[i - 1], s[i]) ELSE F[i - 1]
    BY <1>1
  <2>. QED  BY <2>1, <2>2, <2>3 DEF Sifts
<1>6. Sift(s, keep) = F[Len(s)]
  BY DEF Sift
<1>. QED  BY <1>5, <1>6

\* The definition determines every value.
LEMMA SiftsUnique ==
  ASSUME NEW S, NEW s \in Seq(S), NEW t \in Seq(S), NEW keep, NEW n \in Nat,
         NEW F, NEW G, Sifts(F, s, keep, n), Sifts(G, t, keep, n),
         \A i \in 1..n : s[i] = t[i]
  PROVE  F[n] = G[n]
<1> DEFINE Misfits == {k \in 0..n : F[k] # G[k]}
<1>1. SUFFICES ASSUME Misfits # {} PROVE FALSE
  OBVIOUS
<1>2. PICK m \in Misfits : \A k \in Misfits : m <= k
  <2>1. Misfits \in SUBSET Nat
    OBVIOUS
  <2> HIDE DEF Misfits
  <2>. QED  BY <1>1, <2>1, LeastElement
<1>3. m # 0
  BY <1>2 DEF Sifts
<1>4. m \in 1..n /\ F[m - 1] = G[m - 1]
  BY <1>2, <1>3
<1>. QED  BY <1>2, <1>4 DEF Sifts

\* Sift, one item at a time
LEMMA SiftEmpty ==
  ASSUME NEW keep
  PROVE  Sift(<<>>, keep) = <<>>
<1>1. <<>> \in Seq({}) /\ Len(<<>>) = 0
  OBVIOUS
<1>2. PICK F : Sifts(F, <<>>, keep, 0) /\ Sift(<<>>, keep) = F[0]
  BY <1>1, SiftByFunction
<1>. QED  BY <1>2 DEF Sifts

\* Sifting a list with one more item at its end
LEMMA SiftAppend ==
  ASSUME NEW S, NEW s \in Seq(S), NEW x \in S, NEW keep
  PROVE  Sift(Append(s, x), keep) = IF x \in keep THEN Append(Sift(s, keep), x) ELSE Sift(s, keep)
<1> DEFINE t == Append(s, x)
           n == Len(s)
<1>1. n \in Nat /\ t \in Seq(S) /\ Len(t) = n + 1 /\ t[n + 1] = x /\ \A i \in 1..n : t[i] = s[i]
  OBVIOUS
<1>2. PICK F : Sifts(F, s, keep, n) /\ Sift(s, keep) = F[n]
  BY SiftByFunction
<1>3. PICK G : Sifts(G, t, keep, n + 1) /\ Sift(t, keep) = G[n + 1]
  BY <1>1, SiftByFunction
<1>4. Sifts(G, t, keep, n)
  BY <1>1, <1>3 DEF Sifts
<1>5. F[n] = G[n]
  <2> HIDE DEF t, n
  <2>. QED  BY <1>1, <1>2, <1>4, SiftsUnique
<1>6. G[n + 1] = IF t[n + 1] \in keep THEN Append(G[n], t[n + 1]) ELSE G[n]
  <2>1. n + 1 \in 1..(n + 1) /\ (n + 1) - 1 = n
    BY <1>1
  <2>. QED  BY <1>3, <2>1 DEF Sifts
<1>. QED  BY <1>1, <1>2, <1>3, <1>5, <1>6

\* Lists with the same items are equal.
LEMMA SameList ==
  ASSUME NEW S, NEW s \in Seq(S), NEW t \in Seq(S), Len(s) = Len(t),
         \A i \in 1..Len(s) : s[i] = t[i]
  PROVE  s = t
<1>1. s \in [1..Len(s) -> S] /\ t \in [1..Len(s) -> S]
  OBVIOUS
<1>. QED  BY <1>1

\* Induction on lists: a set of lists that has the empty one, and with a list
\* every longer one, has all.
LEMMA ListInduction ==
  ASSUME NEW S, NEW P \in SUBSET Seq(S), <<>> \in P,
         \A s \in P, x \in S : Append(s, x) \in P
  PROVE  \A s \in Seq(S) : s \in P
<1> DEFINE Misfits == {n \in Nat : \E s \in Seq(S) : Len(s) = n /\ s \notin P}
<1>1. SUFFICES ASSUME Misfits # {} PROVE FALSE
  <2>1. Misfits = {} => \A s \in Seq(S) : Len(s) \in Nat => s \in P
    OBVIOUS
  <2>2. \A s \in Seq(S) : Len(s) \in Nat
    OBVIOUS
  <2> HIDE DEF Misfits
  <2>. QED  BY <1>1, <2>1, <2>2
<1>2. PICK m \in Misfits : \A k \in Misfits : m <= k
  <2>1. Misfits \in SUBSET Nat
    OBVIOUS
  <2> HIDE DEF Misfits
  <2>. QED  BY <1>1, <2>1, LeastElement
<1>3. PICK s \in Seq(S) : Len(s) = m /\ s \notin P
  BY <1>2
<1>4. m # 0
  BY <1>3
<1> DEFINE t == [i \in 1..(m - 1) |-> s[i]]
<1>5. t \in Seq(S) /\ Len(t) = m - 1 /\ s[m] \in S /\ m - 1 \in Nat
  <2>1. m \in Nat /\ m - 1 \in Nat /\ m \in 1..m /\ \A i \in 1..(m - 1) : i \in 1..m
    BY <1>2, <1>4
  <2>2. \A i \in 1..m : s[i] \in S
    BY <1>3
  <2>. QED  BY <2>1, <2>2
<1>6. s = Append(t, s[m])
  <2>1. Append(t, s[m]) \in Seq(S) /\ Len(Append(t, s[m])) = m
    BY <1>2, <1>5
  <2>2. ASSUME NEW i \in 1..m PROVE s[i] = Append(t, s[m])[i]
    <3>1. CASE i = m
      BY <1>5, <3>1
    <3>2. CASE i # m
      <4>1. i \in 1..(m - 1) /\ t[i] = s[i]
        BY <1>2, <3>2
      <4> HIDE DEF t
      <4>. QED  BY <1>5, <4>1
    <3>. QED  BY <3>1, <3>2
  <2> HIDE DEF t
  <2>. QED  BY <1>3, <2>1, <2>2, SameList
<1>7. m - 1 \notin Misfits
  BY <1>2, <1>5
<1>8. t \in P
  BY <1>5, <1>7
<1>. QED  BY <1>3, <1>5, <1>6, <1>8

Items(s) == {s[i] : i \in DOMAIN s}
NoRepeats(s) == \A i, j \in DOMAIN s : s[i] = s[j] => i = j

\* What Append does to the items of a list
LEMMA AppendItems ==
  ASSUME NEW S, NEW s \in Seq(S), NEW x \in S
  PROVE  /\ Append(s, x) \in Seq(S) /\ Items(Append(s, x)) = Items(s) \cup {x}
         /\ NoRepeats(Append(s, x)) <=> NoRepeats(s) /\ x \notin Items(s)
<1> DEFINE t == Append(s, x)
           n == Len(s)
<1>1. /\ t \in Seq(S) /\ n \in Nat /\ DOMAIN t = 1..(n + 1) /\ DOMAIN s = 1..n
      /\ t[n + 1] = x /\ \A i \in 1..n : t[i] = s[i]
  OBVIOUS
<1>2. \A i \in 1..(n + 1) : i # n + 1 => i \in 1..n
  BY <1>1
<1>3. Items(t) = Items(s) \cup {x}
  <2> HIDE DEF t, n
  <2>. QED  BY <1>1, <1>2 DEF Items
<1>4. NoRepeats(t) => NoRepeats(s) /\ x \notin Items(s)
  <2> HIDE DEF t, n
  <2>. QED  BY <1>1, <1>2 DEF Items, NoRepeats
<1>5. NoRepeats(s) /\ x \notin Items(s) => NoRepeats(t)
  <2> HIDE DEF t, n
  <2>. QED  BY <1>1, <1>2 DEF Items, NoRepeats
<1>. QED  BY <1>1, <1>3, <1>4, <1>5

\* Sift returns the items that are to be kept, and each as often as it was there.
LEMMA SiftMembers ==
  ASSUME NEW S, NEW s \in Seq(S), NEW keep
  PROVE  /\ Sift(s, keep) \in Seq(S) /\ Items(Sift(s, keep)) = Items(s) \cap keep
         /\ NoRepeats(s) => NoRepeats(Sift(s, keep))
<1> DEFINE good(t) == /\ Sift(t, keep) \in Seq(S) /\ Items(Sift(t, keep)) = Items(t) \cap keep
                      /\ NoRepeats(t) => NoRepeats(Sift(t, keep))
           P == {t \in Seq(S) : good(t)}
<1>1. <<>> \in P
  <2>1. Sift(<<>>, keep) = <<>> /\ <<>> \in Seq(S)
    BY SiftEmpty
  <2>2. Items(<<>>) = {}
    BY DEF Items
  <2>. QED  BY <2>1, <2>2
<1>2. ASSUME NEW t \in P, NEW x \in S PROVE Append(t, x) \in P
  <2>1. t \in Seq(S) /\ good(t)
    OBVIOUS
  <2>2. /\ Append(t, x) \in Seq(S) /\ Items(Append(t, x)) = Items(t) \cup {x}
        /\ NoRepeats(Append(t, x)) <=> NoRepeats(t) /\ x \notin Items(t)
    BY <2>1, AppendItems
  <2>3. CASE x \in keep
    <3>1. Sift(Append(t, x), keep) = Append(Sift(t, keep), x)
      BY <2>1, <2>3, SiftAppend
    <3>2. /\ Append(Sift(t, keep), x) \in Seq(S)
          /\ Items(Append(Sift(t, keep), x)) = Items(Sift(t, keep)) \cup {x}
          /\ NoRepeats(Append(Sift(t, keep), x)) <=>
               NoRepeats(Sift(t, keep)) /\ x \notin Items(Sift(t, keep))
      BY <2>1, AppendItems
    <3>. QED  BY <2>1, <2>2, <2>3, <3>1, <3>2
  <2>4. CASE x \notin keep
    <3>1. Sift(Append(t, x), keep) = Sift(t, keep)
      BY <2>1, <2>4, SiftAppend
    <3>. QED  BY <2>1, <2>2, <2>4, <3>1
  <2>. QED  BY <2>3, <2>4
<1>3. P \in SUBSET Seq(S)
  OBVIOUS
<1> HIDE DEF P
<1>4. s \in P
  BY <1>1, <1>2, <1>3, ListInduction
<1>. QED  BY <1>4 DEF P

\* Sift of two lists, one behind the other
LEMMA SiftConcat ==
  ASSUME NEW S, NEW s \in Seq(S), NEW u \in Seq(S), NEW keep
  PROVE  Sift(s \o u, keep) = Sift(s, keep) \o Sift(u, keep)
<1> DEFINE P == {t \in Seq(S) : Sift(s \o t, keep) = Sift(s, keep) \o Sift(t, keep)}
<1>1. Sift(s, keep) \in Seq(S)
  BY SiftMembers
<1>2. <<>> \in P
  <2>1. s \o <<>> = s /\ Sift(s, keep) \o <<>> = Sift(s, keep) /\ <<>> \in Seq(S)
    BY <1>1
  <2>. QED  BY <2>1, SiftEmpty
<1>3. ASSUME NEW t \in P, NEW x \in S PROVE Append(t, x) \in P
  <2>1. t \in Seq(S) /\ Append(t, x) \in Seq(S) /\ s \o t \in Seq(S)
    OBVIOUS
  <2>2. s \o Append(t, x) = Append(s \o t, x)
    BY <2>1
  <2>3. Sift(t, keep) \in Seq(S)
    BY <2>1, SiftMembers
  <2>6. \A v \in Seq(S) : Sift(Append(v, x), keep) =
                            IF x \in keep THEN Append(Sift(v, keep), x) ELSE Sift(v, keep)
    BY SiftAppend
  <2>4. CASE x \in keep
    <3>1. /\ Sift(Append(t, x), keep) = Append(Sift(t, keep), x)
          /\ Sift(Append(s \o t, x), keep) = Append(Sift(s \o t, keep), x)
      BY <2>1, <2>4, <2>6
    <3>2. Sift(s, keep) \o Append(Sift(t, keep), x) = Append(Sift(s, keep) \o Sift(t, keep), x)
      BY <1>1, <2>3
    <3>. QED  BY <2>1, <2>2, <3>1, <3>2
  <2>5. CASE x \notin keep
    <3>1. /\ Sift(Append(t, x), keep) = Sift(t, keep)
          /\ Sift(Append(s \o t, x), keep) = Sift(s \o t, keep)
      BY <2>1, <2>5, <2>6
    <3>. QED  BY <2>1, <2>2, <3>1
  <2>. QED  BY <2>4, <2>5
<1>4. P \in SUBSET Seq(S)
  OBVIOUS
<1> HIDE DEF P
<1>5. u \in P
  BY <1>2, <1>3, <1>4, ListInduction
<1>. QED  BY <1>5 DEF P

\* Sift of a list of one item, and of a list without its first item
LEMMA SiftOne ==
  ASSUME NEW x, NEW keep
  PROVE  Sift(<<x>>, keep) = IF x \in keep THEN <<x>> ELSE <<>>
<1>1. <<>> \in Seq({x}) /\ <<x>> = Append(<<>>, x) /\ x \in {x}
  OBVIOUS
<1>2. Sift(<<x>>, keep) = IF x \in keep THEN Append(Sift(<<>>, keep), x) ELSE Sift(<<>>, keep)
  BY ZenonT(30), <1>1, SiftAppend
<1>. QED  BY <1>1, <1>2, SiftEmpty

\* Sifting a list without its head
LEMMA SiftTail ==
  ASSUME NEW S, NEW s \in Seq(S), NEW keep, s # <<>>
  PROVE  Sift(s, keep) = IF Head(s) \in keep THEN <<Head(s)>> \o Sift(Tail(s), keep)
                         ELSE Sift(Tail(s), keep)
<1>1. Head(s) \in S /\ Tail(s) \in Seq(S) /\ <<Head(s)>> \in Seq(S) /\ s = <<Head(s)>> \o Tail(s)
  OBVIOUS
<1>2. Sift(s, keep) = Sift(<<Head(s)>>, keep) \o Sift(Tail(s), keep)
  <2>1. \A v, w \in Seq(S) : Sift(v \o w, keep) = Sift(v, keep) \o Sift(w, keep)
    BY SiftConcat
  <2>. QED  BY <1>1, <2>1
<1>3. Sift(Tail(s), keep) \in Seq(S)
  BY <1>1, SiftMembers
<1>4. <<>> \o Sift(Tail(s), keep) = Sift(Tail(s), keep)
  BY <1>3
<1>. QED  BY <1>2, <1>4, SiftOne

\* Sift of the beginning of a list is a beginning of its Sift.
LEMMA SiftPrefix ==
  ASSUME NEW S, NEW s \in Seq(S), NEW keep, NEW k \in 0..Len(s)
  PROVE  LET a == Sift(SubSeq(s, 1, k), keep)
             b == Sift(s, keep)
         IN  a \in Seq(S) /\ b \in Seq(S) /\ Len(a) <= Len(b) /\ \A i \in 1..Len(a) : a[i] = b[i]
<1> DEFINE s1 == SubSeq(s, 1, k)
           s2 == SubSeq(s, k + 1, Len(s))
<1>0. k \in Nat /\ Len(s) \in Nat /\ k <= Len(s)
  OBVIOUS
<1>1. s1 \in Seq(S) /\ s2 \in Seq(S) /\ s = s1 \o s2
  <2>1. s1 \in Seq(S) /\ Len(s1) = k /\ \A i \in 1..k : s1[i] = s[i]
    BY <1>0
  <2>2. s2 \in Seq(S) /\ Len(s2) = Len(s) - k /\ \A i \in 1..(Len(s) - k) : s2[i] = s[k + i]
    BY <1>0
  <2> HIDE DEF s1, s2
  <2>3. s1 \o s2 \in Seq(S) /\ Len(s1 \o s2) = Len(s)
    BY <1>0, <2>1, <2>2
  <2>4. ASSUME NEW i \in 1..Len(s) PROVE (s1 \o s2)[i] = s[i]
    <3>1. CASE i <= k
      BY <1>0, <2>1, <2>2, <3>1
    <3>2. CASE ~(i <= k)
      <4>1. i - k \in 1..(Len(s) - k) /\ k + (i - k) = i
        BY <1>0, <3>2
      <4>2. (s1 \o s2)[i] = s2[i - k]
        BY <1>0, <2>1, <2>2, <3>2, <4>1
      <4>. QED  BY <2>2, <4>1, <4>2
    <3>. QED  BY <3>1, <3>2
  <2>. QED  BY <2>1, <2>2, <2>3, <2>4, SameList
<1> HIDE DEF s1, s2
<1>2. Sift(s, keep) = Sift(s1, keep) \o Sift(s2, keep)
  BY <1>1, SiftConcat
<1>3. Sift(s1, keep) \in Seq(S) /\ Sift(s2, keep) \in Seq(S) /\ Sift(s, keep) \in Seq(S)
  BY <1>1, SiftMembers
<1>. QED  BY <1>2, <1>3 DEF s1

\* A list of which all, or none, is to be kept
LEMMA SiftAll ==
  ASSUME NEW S, NEW s \in Seq(S)
  PROVE  Sift(s, S) = s
<1> DEFINE P == {t \in Seq(S) : Sift(t, S) = t}
<1>1. <<>> \in P
  BY SiftEmpty
<1>2. ASSUME NEW t \in P, NEW x \in S PROVE Append(t, x) \in P
  <2>1. Sift(Append(t, x), S) = Append(Sift(t, S), x)
    BY SiftAppend
  <2>. QED  BY <2>1
<1>3. P \in SUBSET Seq(S)
  OBVIOUS
<1> HIDE DEF P
<1>4. s \in P
  BY <1>1, <1>2, <1>3, ListInduction
<1>. QED  BY <1>4 DEF P

\* Sifting takes nothing from a list without items of the set.
LEMMA SiftNone ==
  ASSUME NEW S, NEW s \in Seq(S), NEW keep, \A i \in DOMAIN s : s[i] \notin keep
  PROVE  Sift(s, keep) = <<>>
<1>1. Sift(s, keep) \in Seq(S) /\ Items(Sift(s, keep)) = Items(s) \cap keep
  BY SiftMembers
<1>2. Items(Sift(s, keep)) = {}
  BY <1>1 DEF Items
<1>. QED  BY <1>1, <1>2 DEF Items

\* Fewer than n values do not take up 1..n.
LEMMA Pigeonhole ==
  ASSUME NEW m \in Nat, NEW n \in Nat, m < n, NEW f \in [1..m -> Nat]
  PROVE  \E i \in 1..n : \A j \in 1..m : f[j] # i
<1> DEFINE T == {f[j] : j \in 1..m}
           g == [j \in 1..m |-> f[j]]
           M == 1..m
           N == 1..n
<1>1. SUFFICES ASSUME \A i \in 1..n : \E j \in 1..m : f[j] = i PROVE FALSE
  OBVIOUS
<1>2. IsFiniteSet(M) /\ Cardinality(M) <= m /\ Cardinality(N) = n
  <2>1. \A a, b \in Int : IsFiniteSet(a..b) /\ Cardinality(a..b) = IF a > b THEN 0 ELSE b - a + 1
    BY FS_Interval
  <2>2. /\ IsFiniteSet(M) /\ Cardinality(M) = IF 1 > m THEN 0 ELSE m - 1 + 1
        /\ Cardinality(N) = IF 1 > n THEN 0 ELSE n - 1 + 1
    BY <2>1
  <2> HIDE DEF M, N
  <2>. QED  BY <2>2
<1>3. N \in SUBSET T /\ g \in Surjection(M, T)
  BY <1>1 DEF Surjection
<1> HIDE DEF T, g, M, N
<1>4. IsFiniteSet(T) /\ Cardinality(T) <= Cardinality(M)
  BY <1>2, <1>3, FS_Surjection
<1>5. Cardinality(N) <= Cardinality(T)
  BY <1>3, <1>4, FS_Subset
<1>6. Cardinality(T) \in Nat /\ Cardinality(M) \in Nat
  BY <1>2, <1>4, FS_CardinalityType
<1>. QED  BY <1>2, <1>4, <1>5, <1>6


-----------------------------------------------------------------------------
(***************************************************************************)
(* The context of a client                                                 *)
(***************************************************************************)
PacketTypes ==
  {"CONNECT", "CONNACK", "PUBLISH", "PUBACK", "PUBREC", "PUBREL", "PUBCOMP", "SUBSCRIBE", "SUBACK",
   "UNSUBSCRIBE", "UNSUBACK", "PINGREQ", "PINGRSP", "DISCONNECT", "NONE"}

AnyMsg == [type : PacketTypes, id : Nat, qos : 0..2, body : Nat]

CtxFields ==
  {"net", "flags", "qos_ack1_wl", "qos2_rx_cq", "qos2_tx_cq", "tx_part", "tx_mqp", "rx_mqp",
   "msg_id", "free_list", "n_refs", "mqp", "tx"}

IsCtx(c) ==
  /\ DOMAIN c = CtxFields
  /\ c.mqp \in [Packets -> AnyMsg] /\ c.tx \in Seq(AnyMsg) /\ c.msg_id \in Nat
  /\ c.qos_ack1_wl \in Seq(Packets) /\ c.free_list \in Seq(Packets)
  /\ c.n_refs \in [Packets -> Nat]
  /\ c.tx_mqp \in Packets \cup {NULL} /\ c.rx_mqp \in Packets \cup {NULL}

\* A queue of ids, also one that a failed qos2_pub_cq_unlog left
CqType ==
  [id_vec : [0..LastIdx -> Nat], n_free : 0..MAX_PUBREL_INFLT, rd_idx : Nat, wr_idx : 0..LastIdx]

-----------------------------------------------------------------------------
\* References to packets.  n_refs may be higher than the uses: a packet that a
\* call left with nobody keeps its reference.
One(b) == IF b THEN 1 ELSE 0

Uses(c, own, p) ==
  One(p \in Items(c.qos_ack1_wl)) + One(p = c.tx_mqp) + One(p = c.rx_mqp) + One(p \in own)

PoolOK(c, own) ==
  /\ NoRepeats(c.qos_ack1_wl) /\ NoRepeats(c.free_list)
  /\ \A p \in Items(c.free_list) : c.n_refs[p] = 0
  /\ \A p \in Packets : Uses(c, own, p) <= c.n_refs[p]
  /\ c.rx_mqp \notin Items(c.qos_ack1_wl) \cup own
  /\ own \cap Items(c.qos_ack1_wl) = {}

-----------------------------------------------------------------------------
\* The acknowledgements under way to the client and the requests under way to
\* the server are the wait list, in its order.
AckMsgs == [type : {"PUBACK", "PUBREC", "SUBACK", "UNSUBACK"}, id : Nat, qos : 0..2, body : Nat]

ReqMsgs == [type : {"PUBLISH"}, id : Nat, qos : {1, 2}, body : Nat]
             \cup [type : {"SUBSCRIBE", "UNSUBSCRIBE"}, id : Nat, qos : 0..2, body : Nat]

\* The acknowledgement m gets
AckType(m) ==
  CASE m.type = "SUBSCRIBE"   -> "SUBACK"
    [] m.type = "UNSUBSCRIBE" -> "UNSUBACK"
    [] m.type = "PUBLISH" /\ m.qos = 1 -> "PUBACK"
    [] OTHER -> "PUBREC"

InOrder(acks, reqs, wl, mqp) ==
  /\ Len(acks) + Len(reqs) <= Len(wl)
  /\ \A i \in 1..Len(acks) : acks[i].id = mqp[wl[i]].id /\ acks[i].type = AckType(mqp[wl[i]])
  /\ \A i \in 1..Len(reqs) : reqs[i] = mqp[wl[Len(acks) + i]]

\* NULL is no packet.
LEMMA PacketFacts == NULL \notin Packets /\ Packets \subseteq Nat
BY MqttAssumption DEF Packets

\* Only the named fields differ.
SameBut(c, d, fields) == DOMAIN d = CtxFields /\ \A f \in CtxFields \ fields : d[f] = c[f]

\* Messages of the library are messages.
LEMMA MsgTypes ==
  /\ \A t \in PacketTypes, id, body \in Nat, qos \in 0..2 : Msg(t, id, qos, body) \in AnyMsg
  /\ \A t \in PacketTypes, id \in Nat : VhMsg(t, id) \in AnyMsg /\ VhMsg(t, id).type = t /\ VhMsg(t, id).id = id
  /\ NoMsg \in AnyMsg
  /\ AckMsgs \subseteq AnyMsg /\ ReqMsgs \subseteq AnyMsg
<1>1. \A t \in PacketTypes, id, body \in Nat, qos \in 0..2 : Msg(t, id, qos, body) \in AnyMsg
  BY DEF Msg, AnyMsg
<1>2. \A t \in PacketTypes, id \in Nat : VhMsg(t, id) \in AnyMsg /\ VhMsg(t, id).type = t /\ VhMsg(t, id).id = id
  BY DEF Msg, VhMsg, AnyMsg
<1>3. NoMsg \in AnyMsg
  BY DEF Msg, VhMsg, AnyMsg, NoMsg, PacketTypes
<1>4. AckMsgs \subseteq AnyMsg
  BY DEF AnyMsg, AckMsgs, PacketTypes
<1>5. ReqMsgs \subseteq AnyMsg
  BY DEF AnyMsg, ReqMsgs, PacketTypes
<1>. QED  BY <1>1, <1>2, <1>3, <1>4, <1>5

\* The uses of a packet are counted.
LEMMA UsesNat ==
  ASSUME NEW c, NEW own, NEW p
  PROVE  Uses(c, own, p) \in Nat
BY DEF Uses, One

\* A packet in use has a reference and is not in the pool.
LEMMA UsedIsNotFree ==
  ASSUME NEW c, IsCtx(c), NEW own, PoolOK(c, own), NEW p \in Packets, Uses(c, own, p) > 0
  PROVE  p \notin Items(c.free_list) /\ c.n_refs[p] > 0
<1>1. Uses(c, own, p) \in Nat /\ c.n_refs[p] \in Nat /\ Uses(c, own, p) <= c.n_refs[p]
  BY UsesNat DEF PoolOK, IsCtx
<1>. QED  BY <1>1 DEF PoolOK

\* A use is given up and the reference stays.
LEMMA UsesDropped ==
  ASSUME NEW c, IsCtx(c), NEW own, PoolOK(c, own), NEW d, NEW own2,
         d.n_refs = c.n_refs, d.free_list = c.free_list, NoRepeats(d.qos_ack1_wl),
         \A q \in Packets : Uses(d, own2, q) <= Uses(c, own, q),
         d.rx_mqp \notin Items(d.qos_ack1_wl) \cup own2, own2 \cap Items(d.qos_ack1_wl) = {}
  PROVE  PoolOK(d, own2)
<1>1. \A q \in Packets : Uses(d, own2, q) \in Nat /\ Uses(c, own, q) \in Nat /\ c.n_refs[q] \in Nat
  BY UsesNat DEF IsCtx
<1>2. \A q \in Packets : Uses(c, own, q) <= c.n_refs[q]
  BY DEF PoolOK
<1>3. \A q \in Packets : Uses(d, own2, q) <= d.n_refs[q]
  BY <1>1, <1>2
<1>. QED  BY <1>3 DEF PoolOK

\* An item put in front
LEMMA ConsItems ==
  ASSUME NEW S, NEW s \in Seq(S), NEW x \in S
  PROVE  /\ <<x>> \o s \in Seq(S) /\ Items(<<x>> \o s) = Items(s) \cup {x}
         /\ NoRepeats(s) /\ x \notin Items(s) => NoRepeats(<<x>> \o s)
<1> DEFINE t == <<x>> \o s
           n == Len(s)
<1>1. /\ t \in Seq(S) /\ n \in Nat /\ DOMAIN t = 1..(n + 1) /\ DOMAIN s = 1..n
      /\ t[1] = x /\ \A i \in 2..(n + 1) : t[i] = s[i - 1]
  OBVIOUS
<1>2. \A i \in 1..(n + 1) : i # 1 => i \in 2..(n + 1) /\ i - 1 \in 1..n
  BY <1>1
<1>3. \A i \in 1..n : i + 1 \in 2..(n + 1) /\ i + 1 \in 1..(n + 1) /\ (i + 1) - 1 = i
  BY <1>1
<1>4. 1 \in 1..(n + 1)
  BY <1>1
<1> HIDE DEF t, n
<1>5. ASSUME NEW y \in Items(s) PROVE y \in Items(t)
  <2>1. PICK i \in 1..n : y = s[i]
    BY <1>1 DEF Items
  <2>2. t[i + 1] = y
    BY <1>1, <1>3, <2>1
  <2>. QED  BY <1>1, <1>3, <2>2 DEF Items
<1>6. Items(t) = Items(s) \cup {x}
  <2>1. x \in Items(t)
    BY <1>1, <1>4 DEF Items
  <2>2. ASSUME NEW y \in Items(t) PROVE y \in Items(s) \cup {x}
    BY SMTT(30), <1>1, <1>2 DEF Items
  <2>. QED  BY <1>5, <2>1, <2>2
<1>7. ASSUME NoRepeats(s), x \notin Items(s) PROVE NoRepeats(t)
  <2>1. SUFFICES ASSUME NEW i \in 1..(n + 1), NEW j \in 1..(n + 1), t[i] = t[j] PROVE i = j
    BY <1>1 DEF NoRepeats
  <2>2. CASE i # 1 /\ j # 1
    <3>1. s[i - 1] = s[j - 1] /\ i - 1 \in DOMAIN s /\ j - 1 \in DOMAIN s
      BY <1>1, <1>2, <2>1, <2>2
    <3>2. i - 1 = j - 1
      BY <1>7, <3>1 DEF NoRepeats
    <3>. QED  BY <1>1, <3>2
  <2>3. CASE i = 1 /\ j # 1
    BY <1>1, <1>2, <1>7, <2>1, <2>3 DEF Items
  <2>4. CASE i # 1 /\ j = 1
    BY <1>1, <1>2, <1>7, <2>1, <2>4 DEF Items
  <2>. QED  BY <2>2, <2>3, <2>4
<1>. QED  BY <1>1, <1>6, <1>7 DEF t

\* mqp_free: the use and its reference are given up.
LEMMA FreeDrops ==
  ASSUME NEW c, IsCtx(c), NEW own, PoolOK(c, own), NEW d, NEW own2, NEW p \in Packets,
         d.n_refs = [c.n_refs EXCEPT ![p] = @ - 1],
         d.free_list = IF c.n_refs[p] = 1 THEN <<p>> \o c.free_list ELSE c.free_list,
         NoRepeats(d.qos_ack1_wl),
         \A q \in Packets : Uses(d, own2, q) + One(q = p) <= Uses(c, own, q),
         d.rx_mqp \notin Items(d.qos_ack1_wl) \cup own2, own2 \cap Items(d.qos_ack1_wl) = {}
  PROVE  PoolOK(d, own2)
<1>1. \A q \in Packets : Uses(d, own2, q) \in Nat /\ Uses(c, own, q) \in Nat /\ c.n_refs[q] \in Nat
  BY UsesNat DEF IsCtx
<1>0. \A q \in Packets : Uses(c, own, q) <= c.n_refs[q]
  BY DEF PoolOK
<1>9. One(p = p) = 1 /\ \A q \in Packets : q # p => One(q = p) = 0
  BY DEF One
<1>2. Uses(c, own, p) > 0
  BY <1>1, <1>9
<1>3. p \notin Items(c.free_list) /\ c.n_refs[p] > 0
  BY <1>2, UsedIsNotFree
<1>4. \A q \in Packets : d.n_refs[q] = IF q = p THEN c.n_refs[p] - 1 ELSE c.n_refs[q]
  BY DEF IsCtx
<1>5. \A q \in Packets : Uses(d, own2, q) <= d.n_refs[q]
  BY <1>0, <1>1, <1>4, <1>9
<1>6. c.free_list \in Seq(Packets) /\ NoRepeats(c.free_list) /\ \A q \in Items(c.free_list) : c.n_refs[q] = 0
  BY DEF PoolOK, IsCtx
<1>7. \A q \in Items(c.free_list) : q \in Packets
  BY <1>6 DEF Items
<1>8. NoRepeats(d.free_list) /\ \A q \in Items(d.free_list) : d.n_refs[q] = 0
  <2>1. CASE c.n_refs[p] = 1
    <3>1. d.free_list = <<p>> \o c.free_list
      BY <2>1
    <3>2. NoRepeats(d.free_list) /\ Items(d.free_list) = Items(c.free_list) \cup {p}
      BY <1>3, <1>6, <3>1, ConsItems
    <3>. QED  BY <1>3, <1>4, <1>6, <1>7, <2>1, <3>2
  <2>2. CASE c.n_refs[p] # 1
    BY <1>3, <1>4, <1>6, <1>7, <2>2
  <2>. QED  BY <2>1, <2>2
<1>. QED  BY <1>5, <1>8 DEF PoolOK

\* n_refs++ for a new use of a packet that is in use
LEMMA HoldAdds ==
  ASSUME NEW c, IsCtx(c), NEW own, PoolOK(c, own), NEW d, NEW own2, NEW p \in Packets,
         Uses(c, own, p) > 0,
         d.n_refs = [c.n_refs EXCEPT ![p] = @ + 1], d.free_list = c.free_list,
         NoRepeats(d.qos_ack1_wl),
         \A q \in Packets : Uses(d, own2, q) <= Uses(c, own, q) + One(q = p),
         d.rx_mqp \notin Items(d.qos_ack1_wl) \cup own2, own2 \cap Items(d.qos_ack1_wl) = {}
  PROVE  PoolOK(d, own2)
<1>1. \A q \in Packets : Uses(d, own2, q) \in Nat /\ Uses(c, own, q) \in Nat /\ c.n_refs[q] \in Nat
  BY UsesNat DEF IsCtx
<1>2. \A q \in Packets : Uses(c, own, q) <= c.n_refs[q]
  BY DEF PoolOK
<1>9. One(p = p) = 1 /\ \A q \in Packets : q # p => One(q = p) = 0
  BY DEF One
<1>3. p \notin Items(c.free_list)
  BY UsedIsNotFree
<1>4. \A q \in Packets : d.n_refs[q] = IF q = p THEN c.n_refs[p] + 1 ELSE c.n_refs[q]
  BY DEF IsCtx
<1>5. \A q \in Packets : Uses(d, own2, q) <= d.n_refs[q]
  BY <1>1, <1>2, <1>4, <1>9
<1>6. \A q \in Items(c.free_list) : q \in Packets /\ q # p /\ c.n_refs[q] = 0
  BY <1>3 DEF PoolOK, IsCtx, Items
<1>. QED  BY <1>4, <1>5, <1>6 DEF PoolOK

\* A context with its references in order, where own is the packet of the call
Ok(c, own) == IsCtx(c) /\ PoolOK(c, own) /\ own \subseteq Packets

\* What is in the listed packets and in the call's is untouched.
Kept(c, d, own) == \A p \in Items(d.qos_ack1_wl) \cup own : d.mqp[p] = c.mqp[p]

\* mqp_free leaves a context a context.
LEMMA FreeCtx ==
  ASSUME NEW c, IsCtx(c), NEW p \in Packets, c.n_refs[p] > 0, NEW d, d = mqp_free(c, p)
  PROVE  /\ IsCtx(d) /\ SameBut(c, d, {"n_refs", "free_list", "mqp"})
         /\ d.n_refs = [c.n_refs EXCEPT ![p] = @ - 1]
         /\ d.free_list = IF c.n_refs[p] = 1 THEN <<p>> \o c.free_list ELSE c.free_list
         /\ \A q \in Packets : d.mqp[q] = IF q = p /\ c.n_refs[p] = 1 THEN NoMsg ELSE c.mqp[q]
<1>0. DOMAIN c = CtxFields
  BY DEF IsCtx
<1>1. /\ DOMAIN d = CtxFields
      /\ d.n_refs = [c.n_refs EXCEPT ![p] = @ - 1]
      /\ d.free_list = IF c.n_refs[p] = 1 THEN <<p>> \o c.free_list ELSE c.free_list
      /\ d.mqp = [c.mqp EXCEPT ![p] = IF c.n_refs[p] = 1 THEN NoMsg ELSE @]
  BY <1>0 DEF mqp_free, CtxFields
<1>2. SameBut(c, d, {"n_refs", "free_list", "mqp"})
  BY <1>0, <1>1 DEF SameBut, mqp_free, CtxFields
<1>3. d.n_refs \in [Packets -> Nat] /\ d.mqp \in [Packets -> AnyMsg] /\ d.free_list \in Seq(Packets)
  <2>1. d.n_refs \in [Packets -> Nat]
    BY <1>1 DEF IsCtx
  <2>2. d.mqp \in [Packets -> AnyMsg]
    BY <1>1, MsgTypes DEF IsCtx
  <2>3. d.free_list \in Seq(Packets)
    BY <1>1 DEF IsCtx
  <2>. QED  BY <2>1, <2>2, <2>3
<1>4. /\ d.tx = c.tx /\ d.msg_id = c.msg_id /\ d.qos_ack1_wl = c.qos_ack1_wl
      /\ d.tx_mqp = c.tx_mqp /\ d.rx_mqp = c.rx_mqp
  BY <1>2 DEF SameBut, CtxFields
<1>5. IsCtx(d)
  BY <1>1, <1>3, <1>4 DEF IsCtx
<1>6. \A q \in Packets : d.mqp[q] = IF q = p /\ c.n_refs[p] = 1 THEN NoMsg ELSE c.mqp[q]
  BY <1>1 DEF IsCtx
<1>. QED  BY <1>1, <1>2, <1>5, <1>6

\* tx_part_reset
LEMMA TxReset ==
  ASSUME NEW c, NEW own, Ok(c, own), NEW d, d = tx_part_reset(c)
  PROVE  /\ Ok(d, own) /\ SameBut(c, d, {"n_refs", "free_list", "mqp", "tx_mqp", "tx_part"})
         /\ d.tx_mqp = NULL /\ ~d.tx_part /\ Kept(c, d, own)
<1>0. DOMAIN c = CtxFields /\ IsCtx(c) /\ PoolOK(c, own) /\ own \subseteq Packets
  BY DEF IsCtx, Ok
<1>1. CASE c.tx_mqp = NULL
  <2>1. d = [c EXCEPT !.tx_mqp = NULL, !.tx_part = FALSE]
    BY <1>1 DEF tx_part_reset
  <2>2. /\ SameBut(c, d, {"tx_mqp", "tx_part"}) /\ d.tx_mqp = NULL /\ d.tx_part = FALSE
    BY <1>0, <2>1 DEF SameBut, CtxFields
  <2>3. /\ d.tx = c.tx /\ d.msg_id = c.msg_id /\ d.qos_ack1_wl = c.qos_ack1_wl
        /\ d.rx_mqp = c.rx_mqp /\ d.free_list = c.free_list /\ d.n_refs = c.n_refs /\ d.mqp = c.mqp
    BY <2>2 DEF SameBut, CtxFields
  <2>4. IsCtx(d)
    BY <1>0, <2>2, <2>3 DEF IsCtx, SameBut
  <2>5. PoolOK(d, own)
    BY <1>0, <1>1, <2>2, <2>3 DEF PoolOK, Uses
  <2>. QED  BY <1>0, <2>2, <2>3, <2>4, <2>5 DEF Ok, Kept, SameBut
<1>2. CASE c.tx_mqp # NULL
  <2> DEFINE p == c.tx_mqp
             e == mqp_free(c, p)
  <2>1. p \in Packets
    BY <1>0, <1>2 DEF IsCtx
  <2>2. d = [e EXCEPT !.tx_mqp = NULL, !.tx_part = FALSE]
    BY <1>2 DEF tx_part_reset
  <2>3. Uses(c, own, p) > 0
    BY DEF Uses, One
  <2>4. c.n_refs[p] > 0
    BY <1>0, <2>1, <2>3, UsedIsNotFree
  <2>5. /\ IsCtx(e) /\ SameBut(c, e, {"n_refs", "free_list", "mqp"})
        /\ e.n_refs = [c.n_refs EXCEPT ![p] = @ - 1]
        /\ e.free_list = IF c.n_refs[p] = 1 THEN <<p>> \o c.free_list ELSE c.free_list
        /\ \A q \in Packets : e.mqp[q] = IF q = p /\ c.n_refs[p] = 1 THEN NoMsg ELSE c.mqp[q]
    BY <1>0, <2>1, <2>4, FreeCtx
  <2> HIDE DEF e
  <2>6. /\ SameBut(e, d, {"tx_mqp", "tx_part"}) /\ d.tx_mqp = NULL /\ d.tx_part = FALSE
    BY <2>2, <2>5 DEF SameBut, CtxFields, IsCtx
  <2>7. /\ d.tx = e.tx /\ d.msg_id = e.msg_id /\ d.qos_ack1_wl = e.qos_ack1_wl
        /\ d.rx_mqp = e.rx_mqp /\ d.free_list = e.free_list /\ d.n_refs = e.n_refs /\ d.mqp = e.mqp
    BY <2>6 DEF SameBut, CtxFields
  <2>8. IsCtx(d)
    BY <2>5, <2>6, <2>7 DEF IsCtx, SameBut
  <2>9. e.qos_ack1_wl = c.qos_ack1_wl /\ e.rx_mqp = c.rx_mqp
    BY <2>5 DEF SameBut, CtxFields
  <2>10. \A q \in Packets : Uses(d, own, q) + One(q = p) <= Uses(c, own, q)
    BY <2>6, <2>7, <2>9, PacketFacts DEF Uses, One
  <2>11. PoolOK(d, own)
    <3>1. d.n_refs = [c.n_refs EXCEPT ![p] = @ - 1]
      BY <2>5, <2>7
    <3>2. d.free_list = IF c.n_refs[p] = 1 THEN <<p>> \o c.free_list ELSE c.free_list
      BY <2>5, <2>7
    <3>3. NoRepeats(d.qos_ack1_wl) /\ d.rx_mqp \notin Items(d.qos_ack1_wl) \cup own
          /\ own \cap Items(d.qos_ack1_wl) = {}
      BY <1>0, <2>7, <2>9 DEF PoolOK
    <3> HIDE DEF p
    <3>. QED  BY <1>0, <2>1, <2>10, <3>1, <3>2, <3>3, FreeDrops
  <2>12. SameBut(c, d, {"n_refs", "free_list", "mqp", "tx_mqp", "tx_part"})
    BY <2>5, <2>6 DEF SameBut, CtxFields
  <2>13. ASSUME NEW q \in Items(d.qos_ack1_wl) \cup own PROVE d.mqp[q] = c.mqp[q]
    <3>1. q \in Packets
      BY <1>0, <2>7, <2>9 DEF IsCtx, Items
    <3>2. CASE q = p
      <4>1. Uses(c, own, p) >= 2
        BY <2>7, <2>9, <2>13, <3>2 DEF Uses, One
      <4>2. Uses(c, own, p) <= c.n_refs[p] /\ Uses(c, own, p) \in Nat /\ c.n_refs[p] \in Nat
        BY <1>0, <2>1, UsesNat DEF PoolOK, IsCtx
      <4>3. c.n_refs[p] # 1
        BY <4>1, <4>2
      <4>. QED  BY <2>5, <2>7, <3>1, <4>3
    <3>3. CASE q # p
      BY <2>5, <2>7, <3>1, <3>3
    <3>. QED  BY <3>2, <3>3
  <2>. QED  BY <1>0, <2>6, <2>8, <2>11, <2>12, <2>13 DEF Ok, Kept
<1>. QED  BY <1>1, <1>2

\* A change of fields that do not count references
LEMMA PlainChange ==
  ASSUME NEW c, NEW own, Ok(c, own), NEW d,
         SameBut(c, d, {"tx", "flags", "net", "qos2_rx_cq", "qos2_tx_cq", "msg_id", "tx_part"}),
         d.tx \in Seq(AnyMsg), d.msg_id \in Nat
  PROVE  Ok(d, own) /\ Kept(c, d, own)
<1>1. /\ d.qos_ack1_wl = c.qos_ack1_wl /\ d.tx_mqp = c.tx_mqp /\ d.rx_mqp = c.rx_mqp
      /\ d.free_list = c.free_list /\ d.n_refs = c.n_refs /\ d.mqp = c.mqp /\ DOMAIN d = CtxFields
  BY DEF SameBut, CtxFields
<1>2. IsCtx(d)
  BY <1>1 DEF Ok, IsCtx
<1>3. PoolOK(d, own)
  BY <1>1 DEF Ok, PoolOK, Uses
<1>. QED  BY <1>1, <1>2, <1>3 DEF Ok, Kept

\* The socket takes a packet: cl_ctx_part_send
LEMMA PartSent ==
  ASSUME NEW c, NEW own, Ok(c, own), NEW m \in AnyMsg, NEW d, d = cl_ctx_part_send(c, m, TRUE)
  PROVE  /\ Ok(d, own) /\ SameBut(c, d, {"n_refs", "free_list", "mqp", "tx_mqp", "tx_part", "tx"})
         /\ d.tx_mqp = NULL /\ ~d.tx_part /\ Kept(c, d, own) /\ d.tx = Append(c.tx, m)
<1> DEFINE e == [c EXCEPT !.tx = Append(@, m)]
<1>1. d = tx_part_reset(e)
  BY DEF cl_ctx_part_send
<1>2. SameBut(c, e, {"tx"}) /\ e.tx = Append(c.tx, m)
  BY DEF SameBut, CtxFields, Ok, IsCtx
<1>3. c.tx \in Seq(AnyMsg) /\ c.msg_id \in Nat /\ e.msg_id = c.msg_id
  BY <1>2 DEF Ok, IsCtx, SameBut, CtxFields
<1>4. e.tx \in Seq(AnyMsg)
  BY <1>2, <1>3
<1> HIDE DEF e
<1>5. SameBut(c, e, {"tx", "flags", "net", "qos2_rx_cq", "qos2_tx_cq", "msg_id", "tx_part"})
  BY <1>2 DEF SameBut
<1>6. Ok(e, own) /\ Kept(c, e, own)
  BY <1>3, <1>4, <1>5, PlainChange
<1>7. /\ Ok(d, own) /\ SameBut(e, d, {"n_refs", "free_list", "mqp", "tx_mqp", "tx_part"})
      /\ d.tx_mqp = NULL /\ ~d.tx_part /\ Kept(e, d, own)
  BY <1>1, <1>6, TxReset
<1>8. SameBut(c, d, {"n_refs", "free_list", "mqp", "tx_mqp", "tx_part", "tx"})
  BY <1>2, <1>7 DEF SameBut, CtxFields
<1>9. d.tx = e.tx /\ d.qos_ack1_wl = e.qos_ack1_wl
  BY <1>7 DEF SameBut, CtxFields
<1>10. Kept(c, d, own)
  BY <1>6, <1>7, <1>9 DEF Kept
<1>. QED  BY <1>2, <1>7, <1>8, <1>9, <1>10

\* tx_part is set up for a packet without a buffer of the pool.
LEMMA TxSetup ==
  ASSUME NEW c, NEW own, Ok(c, own), NEW e, e = tx_part_setup(c, NULL)
  PROVE  /\ Ok(e, own) /\ SameBut(c, e, {"tx_mqp", "tx_part"}) /\ Kept(c, e, own)
         /\ e.tx_mqp = NULL /\ e.tx_part = TRUE
<1>1. DOMAIN c = CtxFields
  BY DEF Ok, IsCtx
<1>2. SameBut(c, e, {"tx_mqp", "tx_part"}) /\ e.tx_mqp = NULL /\ e.tx_part = TRUE
  BY <1>1 DEF SameBut, CtxFields, tx_part_setup
<1>3. /\ e.qos_ack1_wl = c.qos_ack1_wl /\ e.rx_mqp = c.rx_mqp /\ e.tx = c.tx
      /\ e.free_list = c.free_list /\ e.n_refs = c.n_refs /\ e.mqp = c.mqp
      /\ e.msg_id = c.msg_id /\ DOMAIN e = CtxFields
  BY <1>2 DEF SameBut, CtxFields
<1>4. IsCtx(e)
  BY <1>2, <1>3 DEF IsCtx, Ok
<1>5. PoolOK(e, own)
  <2>1. \A q \in Packets : Uses(e, own, q) <= Uses(c, own, q)
    BY <1>2, <1>3, PacketFacts DEF Uses, One
  <2>2. NoRepeats(e.qos_ack1_wl) /\ e.rx_mqp \notin Items(e.qos_ack1_wl) \cup own
        /\ own \cap Items(e.qos_ack1_wl) = {}
    BY <1>3 DEF PoolOK, Ok
  <2>3. IsCtx(c) /\ PoolOK(c, own)
    BY DEF Ok
  <2>. QED  BY <1>3, <2>1, <2>2, <2>3, UsesDropped
<1>. QED  BY <1>2, <1>3, <1>4, <1>5 DEF Ok, Kept

\* A part of a packet is read.
LEMMA PartRead ==
  ASSUME NEW c, NEW own, Ok(c, own), c.rx_mqp \in Packets, NEW m \in AnyMsg,
         NEW d, d = [c EXCEPT !.mqp[c.rx_mqp] = m]
  PROVE  Ok(d, own) /\ SameBut(c, d, {"mqp"}) /\ Kept(c, d, own)
<1>1. DOMAIN c = CtxFields /\ c.mqp \in [Packets -> AnyMsg]
  BY DEF Ok, IsCtx
<1>2. SameBut(c, d, {"mqp"}) /\ d.mqp = [c.mqp EXCEPT ![c.rx_mqp] = m]
  BY <1>1 DEF SameBut, CtxFields
<1>3. /\ d.qos_ack1_wl = c.qos_ack1_wl /\ d.tx_mqp = c.tx_mqp /\ d.rx_mqp = c.rx_mqp
      /\ d.free_list = c.free_list /\ d.n_refs = c.n_refs /\ DOMAIN d = CtxFields
      /\ d.tx = c.tx /\ d.msg_id = c.msg_id
  BY <1>2 DEF SameBut, CtxFields
<1>4. d.mqp \in [Packets -> AnyMsg]
  BY <1>1, <1>2
<1>5. IsCtx(d)
  BY <1>3, <1>4 DEF Ok, IsCtx
<1>6. PoolOK(d, own)
  BY <1>3 DEF Ok, PoolOK, Uses
<1>7. c.rx_mqp \notin Items(c.qos_ack1_wl) \cup own
  BY DEF Ok, PoolOK
<1>8. Kept(c, d, own)
  BY <1>1, <1>2, <1>3, <1>7 DEF Kept
<1>. QED  BY <1>2, <1>5, <1>6, <1>8 DEF Ok

\* A packet is sent or not, and the connection may have to be closed.
TxMore(c, d, m) == d.tx = c.tx \/ d.tx = Append(c.tx, m)
FlagsMore(c, d) == d.flags = c.flags \/ d.flags = c.flags \cup {"NETWORK_CLOSE"}

\* A packet without a buffer of the pool is sent, or not: vh_msg_send
LEMMA VhSent ==
  ASSUME NEW c, NEW own, Ok(c, own), NEW t \in PacketTypes, NEW id \in Nat,
         NEW d, d = vh_msg_send(c, t, id, TRUE) \/ d = vh_msg_send(c, t, id, FALSE)
  PROVE  /\ Ok(d, own) /\ SameBut(c, d, {"tx", "flags", "tx_mqp", "tx_part"})
         /\ TxMore(c, d, VhMsg(t, id)) /\ FlagsMore(c, d)
         /\ MaySend(d, FALSE) => MaySend(c, FALSE)
<1> DEFINE e == tx_part_setup(c, NULL)
           m == VhMsg(t, id)
<1>0. DOMAIN c = CtxFields /\ m \in AnyMsg
  BY MsgTypes DEF Ok, IsCtx
<1>1. CASE ~MaySend(c, FALSE)
  <2>1. d = c
    BY <1>1 DEF vh_msg_send, cl_ctx_seg1_send
  <2>. QED  BY <1>0, <2>1 DEF SameBut, TxMore, FlagsMore
<1>2. CASE MaySend(c, FALSE)
  <2>1. d = cl_ctx_part_send(e, m, TRUE) \/ d = cl_ctx_part_send(e, m, FALSE)
    BY <1>2 DEF vh_msg_send, cl_ctx_seg1_send
  <2>2. SameBut(c, e, {"tx_mqp", "tx_part"}) /\ e.tx_mqp = NULL /\ e.tx_part = TRUE /\ Ok(e, own)
    BY TxSetup
  <2>3. /\ e.tx = c.tx /\ e.msg_id = c.msg_id /\ DOMAIN e = CtxFields /\ e.flags = c.flags
    BY <2>2 DEF SameBut, CtxFields
  <2> HIDE DEF e, m
  <2>4. IsCtx(e)
    BY <2>2 DEF Ok
  <2>6. Ok(e, own)
    BY <2>2
  <2>7. CASE d = cl_ctx_part_send(e, m, TRUE)
    <3> DEFINE g == [e EXCEPT !.tx = Append(@, m)]
    <3>1. d = [g EXCEPT !.tx_mqp = NULL, !.tx_part = FALSE]
      BY <2>1, <2>2, <2>3, <2>7 DEF cl_ctx_part_send, tx_part_reset, CtxFields
    <3>2. SameBut(e, d, {"tx", "tx_mqp", "tx_part"}) /\ d.tx = Append(c.tx, m) /\ d.tx_mqp = NULL
          /\ d.tx_part = FALSE
      BY <2>3, <3>1 DEF SameBut, CtxFields
    <3>3. SameBut(e, d, {"tx", "tx_part"})
      BY <2>2, <3>2 DEF SameBut, CtxFields
    <3>4. SameBut(e, d, {"tx", "flags", "net", "qos2_rx_cq", "qos2_tx_cq", "msg_id", "tx_part"})
      BY <3>3 DEF SameBut
    <3>5. d.tx \in Seq(AnyMsg) /\ d.msg_id \in Nat
      <4>1. c.tx \in Seq(AnyMsg) /\ e.msg_id \in Nat
        BY <2>4 DEF Ok, IsCtx
      <4>2. d.msg_id = e.msg_id
        BY <3>3 DEF SameBut, CtxFields
      <4>. QED  BY <1>0, <3>2, <4>1, <4>2
    <3>6. Ok(d, own)
      BY <2>6, <3>4, <3>5, PlainChange
    <3>7. SameBut(c, d, {"tx", "flags", "tx_mqp", "tx_part"}) /\ d.flags = c.flags
      BY <2>2, <3>3 DEF SameBut, CtxFields
    <3>. QED  BY <1>2, <3>2, <3>6, <3>7 DEF m, TxMore, FlagsMore
  <2>8. CASE d = cl_ctx_part_send(e, m, FALSE)
    <3>1. d = [e EXCEPT !.flags = @ \cup {"NETWORK_CLOSE"}]
      BY <2>1, <2>8 DEF cl_ctx_part_send, do_net_close_tx
    <3>2. SameBut(e, d, {"flags"}) /\ d.flags = c.flags \cup {"NETWORK_CLOSE"}
      BY <2>3, <3>1 DEF SameBut, CtxFields
    <3>4. SameBut(e, d, {"tx", "flags", "net", "qos2_rx_cq", "qos2_tx_cq", "msg_id", "tx_part"})
      BY <3>2 DEF SameBut
    <3>5. d.tx = c.tx /\ d.msg_id = c.msg_id
      BY <2>3, <3>2 DEF SameBut, CtxFields
    <3>6. d.tx \in Seq(AnyMsg) /\ d.msg_id \in Nat
      BY <3>5 DEF Ok, IsCtx
    <3>7. Ok(d, own)
      BY <2>6, <3>4, <3>6, PlainChange
    <3>8. SameBut(c, d, {"tx", "flags", "tx_mqp", "tx_part"})
      BY <2>2, <3>2 DEF SameBut, CtxFields
    <3>. QED  BY <1>2, <3>2, <3>5, <3>7, <3>8 DEF TxMore, FlagsMore
  <2>. QED  BY <2>1, <2>7, <2>8
<1>. QED  BY <1>1, <1>2

\* The first item and the others
LEMMA HeadTail ==
  ASSUME NEW S, NEW s \in Seq(S), s # <<>>
  PROVE  /\ Tail(s) \in Seq(S) /\ Len(Tail(s)) = Len(s) - 1 /\ Head(s) = s[1] /\ Len(s) \in Nat \ {0}
         /\ \A i \in 1..(Len(s) - 1) : Tail(s)[i] = s[i + 1]
         /\ s[1] \in S /\ Items(s) = {s[1]} \cup Items(Tail(s))
         /\ NoRepeats(s) => NoRepeats(Tail(s)) /\ s[1] \notin Items(Tail(s))
<1> DEFINE t == Tail(s)
           n == Len(s)
<1>1. /\ t \in Seq(S) /\ n \in Nat \ {0} /\ DOMAIN t = 1..(n - 1) /\ DOMAIN s = 1..n
      /\ Head(s) = s[1] /\ Len(t) = n - 1 /\ \A i \in 1..(n - 1) : t[i] = s[i + 1]
  OBVIOUS
<1>2. \A i \in 1..n : i # 1 => i - 1 \in 1..(n - 1) /\ (i - 1) + 1 = i
  BY <1>1
<1>3. 1 \in 1..n /\ \A i \in 1..(n - 1) : i + 1 \in 1..n /\ i + 1 # 1 /\ i \in Int
  BY <1>1
<1> HIDE DEF t, n
<1>4. Items(s) = {s[1]} \cup Items(t)
  <2>1. ASSUME NEW x \in Items(s) PROVE x \in {s[1]} \cup Items(t)
    <3>1. PICK i \in 1..n : x = s[i]
      BY <1>1 DEF Items
    <3>2. i # 1 => t[i - 1] = x
      BY <1>1, <1>2, <3>1
    <3>. QED  BY <1>1, <1>2, <3>1, <3>2 DEF Items
  <2>2. ASSUME NEW x \in Items(t) PROVE x \in Items(s)
    BY <1>1, <1>3 DEF Items
  <2>3. s[1] \in Items(s)
    BY <1>1, <1>3 DEF Items
  <2>. QED  BY <2>1, <2>2, <2>3
<1>5. ASSUME NoRepeats(s) PROVE NoRepeats(t) /\ s[1] \notin Items(t)
  <2>0. \A i, j \in 1..n : s[i] = s[j] => i = j
    BY <1>1, <1>5 DEF NoRepeats
  <2>1. s[1] \notin Items(t)
    <3>1. SUFFICES ASSUME NEW i \in 1..(n - 1), t[i] = s[1] PROVE FALSE
      BY <1>1 DEF Items
    <3>2. s[i + 1] = s[1] /\ i + 1 \in 1..n /\ i + 1 # 1
      BY <1>1, <1>3, <3>1
    <3>. QED  BY <1>3, <2>0, <3>2
  <2>2. ASSUME NEW i \in 1..(n - 1), NEW j \in 1..(n - 1), t[i] = t[j] PROVE i = j
    <3>2. s[i + 1] = s[j + 1] /\ i + 1 \in 1..n /\ j + 1 \in 1..n
      BY <1>1, <1>3, <2>2
    <3>1. i + 1 = j + 1
      BY <2>0, <3>2
    <3>. QED  BY <1>3, <3>1
  <2>. QED  BY <1>1, <2>1, <2>2 DEF NoRepeats
<1>6. s[1] \in S
  BY <1>1, <1>3
<1>. QED  BY <1>1, <1>4, <1>5, <1>6 DEF t, n

\* The packet at the head is the first with its id.
LEMMA FindsHead ==
  ASSUME NEW wl \in Seq(Packets), wl # <<>>, NEW idOf, NEW id, idOf[wl[1]] = id
  PROVE  AckWlistFind(wl, idOf, id) = 1 /\ mqp_ack_wlist_remove(wl, idOf, id) = Tail(wl)
<1> DEFINE I == {i \in 1..Len(wl) : idOf[wl[i]] = id}
<1>1. Len(wl) \in Nat \ {0}
  OBVIOUS
<1>2. 1 \in I /\ \A i \in I : 1 <= i /\ i \in Nat
  BY <1>1
<1>3. AckWlistFind(wl, idOf, id) = IF I # {} THEN Min(I) ELSE 0
  BY DEF AckWlistFind, SelectInSeq
<1> HIDE DEF I
<1>4. Min(I) = 1
  BY <1>2 DEF Min
<1>5. AckWlistFind(wl, idOf, id) = 1
  BY <1>2, <1>3, <1>4
<1>6. RemoveAt(wl, 1) = Tail(wl)
  <2>1. SubSeq(wl, 1, 1 - 1) = <<>> /\ SubSeq(wl, 1 + 1, Len(wl)) = Tail(wl)
    BY <1>1
  <2>2. <<>> \o Tail(wl) = Tail(wl)
    <3>1. Tail(wl) \in Seq(Packets)
      OBVIOUS
    <3>. QED  BY <3>1
  <2>. QED  BY <2>1, <2>2 DEF RemoveAt
<1>. QED  BY <1>5, <1>6 DEF mqp_ack_wlist_remove

\* The acknowledgement of the packet at the head: ack1_wl_rmfree
LEMMA RmFree ==
  ASSUME NEW c, NEW own, Ok(c, own), c.qos_ack1_wl # <<>>, NEW id, id = c.mqp[c.qos_ack1_wl[1]].id,
         NEW d, d = ack1_wl_rmfree(c, id)
  PROVE  /\ Ok(d, own) /\ SameBut(c, d, {"n_refs", "free_list", "mqp", "qos_ack1_wl"})
         /\ d.qos_ack1_wl = Tail(c.qos_ack1_wl) /\ Kept(c, d, own)
<1> DEFINE wl == c.qos_ack1_wl
           p  == wl[1]
           e  == [c EXCEPT !.qos_ack1_wl = Tail(wl)]
<1>0. DOMAIN c = CtxFields /\ IsCtx(c) /\ PoolOK(c, own) /\ own \subseteq Packets /\ wl \in Seq(Packets)
  BY DEF IsCtx, Ok
<1>1. /\ Tail(wl) \in Seq(Packets) /\ p \in Packets /\ Items(wl) = {p} \cup Items(Tail(wl))
      /\ NoRepeats(Tail(wl)) /\ p \notin Items(Tail(wl))
  BY <1>0, HeadTail DEF PoolOK
<1>2. IdOf(c)[wl[1]] = id
  BY <1>1 DEF IdOf
<1>3. d = mqp_free(e, p)
  <2>1. \A w \in Seq(Packets) : \A f : w # <<>> /\ f[w[1]] = id =>
          AckWlistFind(w, f, id) = 1 /\ mqp_ack_wlist_remove(w, f, id) = Tail(w)
    BY FindsHead
  <2>2. AckWlistFind(wl, IdOf(c), id) = 1 /\ mqp_ack_wlist_remove(wl, IdOf(c), id) = Tail(wl)
    BY <1>0, <1>2, <2>1
  <2>. QED  BY <2>2, Zenon DEF ack1_wl_rmfree
<1>4. SameBut(c, e, {"qos_ack1_wl"}) /\ e.qos_ack1_wl = Tail(wl)
  BY <1>0 DEF SameBut, CtxFields
<1>5. /\ e.tx_mqp = c.tx_mqp /\ e.rx_mqp = c.rx_mqp /\ e.tx = c.tx
      /\ e.free_list = c.free_list /\ e.n_refs = c.n_refs /\ e.mqp = c.mqp
      /\ e.msg_id = c.msg_id /\ DOMAIN e = CtxFields
  BY <1>4 DEF SameBut, CtxFields
<1> HIDE DEF wl, p, e
<1>6. IsCtx(e)
  BY <1>0, <1>1, <1>4, <1>5 DEF IsCtx
<1>7. Uses(c, own, p) > 0
  <2>1. One(p \in Items(c.qos_ack1_wl)) = 1
    BY <1>1 DEF One, wl
  <2>. QED  BY <2>1 DEF Uses, One
<1>8. c.n_refs[p] > 0 /\ e.n_refs[p] > 0
  BY <1>0, <1>1, <1>5, <1>7, UsedIsNotFree
<1>9. /\ IsCtx(d) /\ SameBut(e, d, {"n_refs", "free_list", "mqp"})
      /\ d.n_refs = [c.n_refs EXCEPT ![p] = @ - 1]
      /\ d.free_list = IF c.n_refs[p] = 1 THEN <<p>> \o c.free_list ELSE c.free_list
      /\ \A q \in Packets : d.mqp[q] = IF q = p /\ c.n_refs[p] = 1 THEN NoMsg ELSE c.mqp[q]
  <2>1. /\ IsCtx(d) /\ SameBut(e, d, {"n_refs", "free_list", "mqp"})
        /\ d.n_refs = [e.n_refs EXCEPT ![p] = @ - 1]
        /\ d.free_list = IF e.n_refs[p] = 1 THEN <<p>> \o e.free_list ELSE e.free_list
        /\ \A q \in Packets : d.mqp[q] = IF q = p /\ e.n_refs[p] = 1 THEN NoMsg ELSE e.mqp[q]
    <3>1. e.n_refs[p] > 0
      BY <1>8
    <3>2. p \in Packets
      BY <1>1
    <3>. QED  BY ONLY <1>3, <1>6, <3>1, <3>2, FreeCtx
  <2>. QED  BY <1>5, <2>1
<1>10. d.qos_ack1_wl = Tail(wl) /\ d.tx_mqp = c.tx_mqp /\ d.rx_mqp = c.rx_mqp
  BY <1>4, <1>5, <1>9 DEF SameBut, CtxFields
<1>11. \A q \in Packets : Uses(d, own, q) + One(q = p) <= Uses(c, own, q)
  BY <1>1, <1>10 DEF Uses, One, wl
<1>12. NoRepeats(d.qos_ack1_wl) /\ d.rx_mqp \notin Items(d.qos_ack1_wl) \cup own
       /\ own \cap Items(d.qos_ack1_wl) = {}
  BY <1>0, <1>1, <1>10 DEF PoolOK, wl
<1>13. PoolOK(d, own)
  BY <1>0, <1>1, <1>9, <1>11, <1>12, FreeDrops
<1>14. Kept(c, d, own)
  <2>1. \A q \in Items(Tail(wl)) \cup own : q \in Packets /\ q # p
    <3>1. Items(Tail(wl)) \subseteq Packets
      BY <1>1 DEF Items
    <3>2. own \cap Items(wl) = {}
      BY <1>0 DEF PoolOK, wl
    <3>. QED  BY <1>0, <1>1, <3>1, <3>2
  <2>. QED  BY <1>9, <1>10, <2>1 DEF Kept
<1>15. SameBut(c, d, {"n_refs", "free_list", "mqp", "qos_ack1_wl"})
  BY <1>4, <1>9 DEF SameBut, CtxFields
<1>. QED  BY <1>0, <1>9, <1>10, <1>13, <1>14, <1>15 DEF Ok, wl

\* Two lists without a common item, one behind the other
LEMMA ConcatItems ==
  ASSUME NEW S, NEW s \in Seq(S), NEW t \in Seq(S), NoRepeats(s), NoRepeats(t),
         Items(s) \cap Items(t) = {}
  PROVE  /\ s \o t \in Seq(S) /\ Items(s \o t) \subseteq Items(s) \cup Items(t)
         /\ NoRepeats(s \o t)
<1> DEFINE u == s \o t
           n == Len(s)
           m == Len(t)
<1>1. /\ u \in Seq(S) /\ n \in Nat /\ m \in Nat /\ DOMAIN u = 1..(n + m)
      /\ DOMAIN s = 1..n /\ DOMAIN t = 1..m
      /\ \A i \in 1..(n + m) : u[i] = IF i <= n THEN s[i] ELSE t[i - n]
  OBVIOUS
<1>2. \A i \in 1..(n + m) : IF i <= n THEN i \in 1..n ELSE i - n \in 1..m
  BY <1>1
<1> HIDE DEF u, n, m
<1>3. \A i \in 1..(n + m) : IF i <= n THEN u[i] \in Items(s) ELSE u[i] \in Items(t)
  BY <1>1, <1>2 DEF Items
<1>4. Items(u) \subseteq Items(s) \cup Items(t)
  BY <1>1, <1>3 DEF Items
<1>5. NoRepeats(u)
  <2>1. SUFFICES ASSUME NEW i \in 1..(n + m), NEW j \in 1..(n + m), u[i] = u[j] PROVE i = j
    BY <1>1 DEF NoRepeats
  <2>2. CASE i <= n /\ j <= n
    <3>1. i \in DOMAIN s /\ j \in DOMAIN s /\ s[i] = s[j]
      BY <1>1, <1>2, <2>1, <2>2
    <3>. QED  BY <3>1 DEF NoRepeats
  <2>3. CASE ~(i <= n) /\ ~(j <= n)
    <3>1. i - n \in DOMAIN t /\ j - n \in DOMAIN t /\ t[i - n] = t[j - n]
      BY <1>1, <1>2, <2>1, <2>3
    <3>2. i - n = j - n
      BY <3>1 DEF NoRepeats
    <3>. QED  BY <1>1, <3>2
  <2>4. CASE (i <= n) # (j <= n)
    BY <1>3, <2>1, <2>4
  <2>. QED  BY <2>2, <2>3, <2>4
<1>. QED  BY <1>1, <1>4, <1>5 DEF u

\* A list turned around has the same items.
LEMMA ReverseItems ==
  ASSUME NEW S, NEW s \in Seq(S)
  PROVE  /\ Reverse(s) \in Seq(S) /\ Items(Reverse(s)) = Items(s)
         /\ NoRepeats(s) => NoRepeats(Reverse(s))
<1> DEFINE r == Reverse(s)
           n == Len(s)
<1>1. /\ n \in Nat /\ DOMAIN s = 1..n /\ \A i \in 1..n : s[i] \in S
  OBVIOUS
<1>2. \A i \in 1..n : (n - i) + 1 \in 1..n /\ (n - ((n - i) + 1)) + 1 = i
  BY <1>1
<1>3. r = [i \in 1..n |-> s[(n - i) + 1]]
  BY DEF Reverse
<1> HIDE DEF r, n
<1>4. DOMAIN r = 1..n /\ \A i \in 1..n : r[i] = s[(n - i) + 1]
  BY <1>3
<1>5. r \in Seq(S)
  <2>1. r \in [1..n -> S]
    BY <1>1, <1>2, <1>3
  <2>. QED  BY <1>1, <2>1
<1>6. Items(r) = Items(s)
  <2>1. ASSUME NEW i \in 1..n PROVE r[i] \in Items(s) /\ s[i] \in Items(r)
    <3>1. r[(n - i) + 1] = s[i]
      BY <1>2, <1>4
    <3>. QED  BY <1>1, <1>2, <1>4, <3>1 DEF Items
  <2>. QED  BY <1>1, <1>4, <2>1 DEF Items
<1>7. ASSUME NoRepeats(s) PROVE NoRepeats(r)
  <2>1. SUFFICES ASSUME NEW i \in 1..n, NEW j \in 1..n, r[i] = r[j] PROVE i = j
    BY <1>4 DEF NoRepeats
  <2>2. (n - i) + 1 = (n - j) + 1
    BY <1>1, <1>2, <1>4, <1>7, <2>1 DEF NoRepeats
  <2>. QED  BY <1>1, <2>2
<1>. QED  BY <1>5, <1>6, <1>7 DEF r

\* mqp_ack_wlist_purge
LEMMA Purge ==
  ASSUME NEW c, NEW own, Ok(c, own), NEW d, d = mqp_ack_wlist_purge(c)
  PROVE  /\ Ok(d, own) /\ SameBut(c, d, {"n_refs", "free_list", "mqp", "qos_ack1_wl"})
         /\ d.qos_ack1_wl = <<>> /\ Kept(c, d, own)
<1> DEFINE wl     == c.qos_ack1_wl
           listed == Items(wl)
           last   == {p \in listed : c.n_refs[p] = 1}
           freed  == Reverse(Sift(wl, last))
<1>0. /\ DOMAIN c = CtxFields /\ IsCtx(c) /\ PoolOK(c, own) /\ own \subseteq Packets
      /\ wl \in Seq(Packets) /\ c.free_list \in Seq(Packets)
      /\ c.n_refs \in [Packets -> Nat] /\ c.mqp \in [Packets -> AnyMsg]
  BY DEF IsCtx, Ok
<1>1. /\ DOMAIN d = CtxFields /\ d.qos_ack1_wl = <<>>
      /\ d.n_refs = [p \in Packets |-> IF p \in listed THEN c.n_refs[p] - 1 ELSE c.n_refs[p]]
      /\ d.free_list = freed \o c.free_list
      /\ d.mqp = [p \in Packets |-> IF p \in last THEN NoMsg ELSE c.mqp[p]]
  BY <1>0 DEF mqp_ack_wlist_purge, CtxFields, ToSet, Items
<1>2. SameBut(c, d, {"n_refs", "free_list", "mqp", "qos_ack1_wl"})
  BY <1>0, <1>1 DEF SameBut, mqp_ack_wlist_purge, CtxFields
<1>3. d.tx_mqp = c.tx_mqp /\ d.rx_mqp = c.rx_mqp /\ d.tx = c.tx /\ d.msg_id = c.msg_id
  BY <1>2 DEF SameBut, CtxFields
<1>4. listed \subseteq Packets
  BY <1>0 DEF Items
<1>5. \A p \in listed : c.n_refs[p] \in Nat /\ c.n_refs[p] > 0 /\ p \notin Items(c.free_list)
  <2> TAKE p \in listed
  <2>1. p \in Packets
    BY <1>4
  <2>2. Uses(c, own, p) > 0
    <3>1. One(p \in Items(c.qos_ack1_wl)) = 1
      BY DEF One
    <3>. QED  BY <3>1 DEF Uses, One
  <2>3. p \notin Items(c.free_list) /\ c.n_refs[p] > 0
    BY <1>0, <2>1, <2>2, UsedIsNotFree
  <2>. QED  BY <1>0, <2>1, <2>3
<1>6. freed \in Seq(Packets) /\ Items(freed) = last /\ NoRepeats(freed)
  <2>1. NoRepeats(wl)
    BY <1>0 DEF PoolOK
  <2>2. Sift(wl, last) \in Seq(Packets) /\ Items(Sift(wl, last)) = listed \cap last
        /\ NoRepeats(Sift(wl, last))
    BY <1>0, <2>1, SiftMembers
  <2>. QED  BY <2>2, ReverseItems
<1> HIDE DEF freed, wl
<1>7. d.free_list \in Seq(Packets) /\ NoRepeats(d.free_list)
      /\ Items(d.free_list) \subseteq last \cup Items(c.free_list)
  <2>1. NoRepeats(c.free_list) /\ Items(freed) \cap Items(c.free_list) = {}
    BY <1>0, <1>5, <1>6 DEF PoolOK
  <2>. QED  BY <1>0, <1>1, <1>6, <2>1, ConcatItems
<1>8. d.n_refs \in [Packets -> Nat]
  BY <1>0, <1>1, <1>5
<1>9. d.mqp \in [Packets -> AnyMsg]
  BY <1>0, <1>1, MsgTypes
<1>10. IsCtx(d)
  BY <1>0, <1>1, <1>3, <1>7, <1>8, <1>9 DEF IsCtx
<1>11. \A p \in Items(d.free_list) : d.n_refs[p] = 0
  <2> TAKE p \in Items(d.free_list)
  <2>1. CASE p \in last
    BY <1>1, <1>4, <1>5, <2>1
  <2>2. CASE p \notin last
    <3>1. p \in Items(c.free_list) /\ p \in Packets /\ c.n_refs[p] = 0
      <4>1. p \in Items(c.free_list)
        BY <1>7, <2>2
      <4>2. p \in Packets
        BY <1>0, <4>1 DEF Items
      <4>. QED  BY <1>0, <4>1, <4>2 DEF PoolOK
    <3>. QED  BY <1>1, <1>5, <3>1
  <2>. QED  BY <2>1, <2>2
<1>12. Items(d.qos_ack1_wl) = {} /\ NoRepeats(d.qos_ack1_wl)
  BY <1>1 DEF Items, NoRepeats
<1>13. ASSUME NEW p \in Packets PROVE Uses(d, own, p) <= d.n_refs[p]
  <2>1. Uses(c, own, p) <= c.n_refs[p] /\ c.n_refs[p] \in Nat
    BY <1>0 DEF PoolOK
  <2>2. Uses(c, own, p) = Uses(d, own, p) + One(p \in listed)
    BY <1>3, <1>12 DEF Uses, One, wl
  <2>3. Uses(d, own, p) \in Nat
    BY UsesNat
  <2>. QED  BY <1>1, <2>1, <2>2, <2>3 DEF One
<1>14. PoolOK(d, own)
  <2>1. d.rx_mqp \notin own
    BY <1>0, <1>3 DEF PoolOK
  <2>. QED  BY <1>7, <1>11, <1>12, <1>13, <2>1 DEF PoolOK
<1>15. Kept(c, d, own)
  <2>1. own \cap listed = {}
    BY <1>0 DEF PoolOK, wl
  <2>. QED  BY <1>0, <1>1, <1>12, <2>1 DEF Kept
<1>. QED  BY <1>0, <1>1, <1>2, <1>10, <1>14, <1>15 DEF Ok

\* session_delete
LEMMA SessionDeleted ==
  ASSUME NEW c, NEW own, Ok(c, own), NEW d, d = session_delete(c)
  PROVE  /\ Ok(d, own)
         /\ SameBut(c, d, {"n_refs", "free_list", "mqp", "qos_ack1_wl", "qos2_rx_cq", "qos2_tx_cq"})
         /\ d.qos_ack1_wl = <<>> /\ Kept(c, d, own)
<1> DEFINE e == mqp_ack_wlist_purge(c)
<1>1. /\ Ok(e, own) /\ SameBut(c, e, {"n_refs", "free_list", "mqp", "qos_ack1_wl"})
      /\ e.qos_ack1_wl = <<>> /\ Kept(c, e, own)
  BY Purge
<1>2. d = [e EXCEPT !.qos2_rx_cq = qos2_pub_cq_reset, !.qos2_tx_cq = qos2_pub_cq_reset]
  BY DEF session_delete
<1> HIDE DEF e
<1>3. SameBut(e, d, {"qos2_rx_cq", "qos2_tx_cq"})
  BY <1>1, <1>2 DEF SameBut, CtxFields
<1>4. d.tx = e.tx /\ d.msg_id = e.msg_id /\ d.qos_ack1_wl = e.qos_ack1_wl /\ d.mqp = e.mqp
  BY <1>3 DEF SameBut, CtxFields
<1>5. SameBut(e, d, {"tx", "flags", "net", "qos2_rx_cq", "qos2_tx_cq", "msg_id", "tx_part"})
  BY <1>3 DEF SameBut
<1>6. Ok(d, own)
  <2>1. d.tx \in Seq(AnyMsg) /\ d.msg_id \in Nat
    BY <1>1, <1>4 DEF Ok, IsCtx
  <2>. QED  BY <1>1, <1>5, <2>1, PlainChange
<1>7. SameBut(c, d, {"n_refs", "free_list", "mqp", "qos_ack1_wl", "qos2_rx_cq", "qos2_tx_cq"})
  BY <1>1, <1>3 DEF SameBut, CtxFields
<1>. QED  BY <1>1, <1>4, <1>6, <1>7 DEF Kept

\* session_311fix: the list loses packets, their references stay.
LEMMA SessionFixed ==
  ASSUME NEW c, NEW own, Ok(c, own), NEW d, d = session_311fix(c)
  PROVE  /\ Ok(d, own) /\ SameBut(c, d, {"qos_ack1_wl"}) /\ Kept(c, d, own)
         /\ Items(d.qos_ack1_wl) = {p \in Items(c.qos_ack1_wl) : c.mqp[p].type = "PUBLISH"}
<1> DEFINE keep == {p \in Packets : c.mqp[p].type = "PUBLISH"}
<1>0. DOMAIN c = CtxFields /\ IsCtx(c) /\ PoolOK(c, own) /\ c.qos_ack1_wl \in Seq(Packets)
  BY DEF IsCtx, Ok
<1>1. SameBut(c, d, {"qos_ack1_wl"}) /\ d.qos_ack1_wl = Sift(c.qos_ack1_wl, keep)
  BY <1>0 DEF SameBut, CtxFields, session_311fix
<1>2. /\ d.tx_mqp = c.tx_mqp /\ d.rx_mqp = c.rx_mqp /\ d.tx = c.tx /\ d.msg_id = c.msg_id
      /\ d.free_list = c.free_list /\ d.n_refs = c.n_refs /\ d.mqp = c.mqp /\ DOMAIN d = CtxFields
  BY <1>1 DEF SameBut, CtxFields
<1>3. /\ d.qos_ack1_wl \in Seq(Packets) /\ NoRepeats(d.qos_ack1_wl)
      /\ Items(d.qos_ack1_wl) = Items(c.qos_ack1_wl) \cap keep
  BY <1>0, <1>1, SiftMembers DEF PoolOK
<1>4. IsCtx(d)
  BY <1>0, <1>2, <1>3 DEF IsCtx
<1>5. \A q \in Packets : Uses(d, own, q) <= Uses(c, own, q)
  BY <1>2, <1>3 DEF Uses, One
<1>6. d.rx_mqp \notin Items(d.qos_ack1_wl) \cup own /\ own \cap Items(d.qos_ack1_wl) = {}
  BY <1>0, <1>2, <1>3 DEF PoolOK
<1>7. PoolOK(d, own)
  BY <1>0, <1>2, <1>3, <1>5, <1>6, UsesDropped
<1>8. Items(c.qos_ack1_wl) \subseteq Packets
  BY <1>0 DEF Items
<1>. QED  BY <1>1, <1>2, <1>3, <1>4, <1>7, <1>8 DEF Ok, Kept

\* do_net_close
LEMMA NetClosed ==
  ASSUME NEW c, NEW own, Ok(c, own), NEW d, d = do_net_close(c)
  PROVE  /\ Ok(d, own) /\ Kept(c, d, own) /\ d.rx_mqp = c.rx_mqp /\ d.msg_id = c.msg_id
         /\ Items(d.qos_ack1_wl) \subseteq Items(c.qos_ack1_wl)
         /\ "CLEAN_SESSION" \notin c.flags \/ ~c.net =>
              \A p \in Items(c.qos_ack1_wl) : c.mqp[p].type = "PUBLISH" => p \in Items(d.qos_ack1_wl)
         /\ c.net => ~d.net /\ d.tx = <<>> /\ d.flags = c.flags \ ClosedFlags
         /\ ~c.net => d = c
<1>1. CASE ~c.net
  BY <1>1 DEF do_net_close, Kept
<1>2. CASE c.net
  <2> DEFINE s == CASE "CLEAN_SESSION" \in c.flags -> session_delete(c)
                    [] "CLEAN_SESSION" \notin c.flags /\ ~PROTO_V31 -> session_311fix(c)
                    [] OTHER -> c
             r == tx_part_reset(s)
  <2>1. d = [r EXCEPT !.flags = @ \ ClosedFlags, !.net = FALSE, !.tx = <<>>]
    BY <1>2 DEF do_net_close
  <2>2. /\ Ok(s, own) /\ Kept(c, s, own) /\ Items(s.qos_ack1_wl) \subseteq Items(c.qos_ack1_wl)
        /\ SameBut(c, s, {"n_refs", "free_list", "mqp", "qos_ack1_wl", "qos2_rx_cq", "qos2_tx_cq"})
        /\ "CLEAN_SESSION" \notin c.flags =>
             \A p \in Items(c.qos_ack1_wl) : c.mqp[p].type = "PUBLISH" => p \in Items(s.qos_ack1_wl)
    <3>1. CASE "CLEAN_SESSION" \in c.flags
      <4>1. s = session_delete(c)
        BY <3>1
      <4> HIDE DEF s
      <4>2. /\ Ok(s, own) /\ s.qos_ack1_wl = <<>> /\ Kept(c, s, own)
            /\ SameBut(c, s, {"n_refs", "free_list", "mqp", "qos_ack1_wl", "qos2_rx_cq", "qos2_tx_cq"})
        BY <4>1, SessionDeleted
      <4>3. Items(s.qos_ack1_wl) = {}
        BY <4>2 DEF Items
      <4>. QED  BY <3>1, <4>2, <4>3
    <3>2. CASE "CLEAN_SESSION" \notin c.flags /\ ~PROTO_V31
      <4>1. s = session_311fix(c)
        BY <3>2
      <4> HIDE DEF s
      <4>2. /\ Ok(s, own) /\ SameBut(c, s, {"qos_ack1_wl"}) /\ Kept(c, s, own)
            /\ Items(s.qos_ack1_wl) = {p \in Items(c.qos_ack1_wl) : c.mqp[p].type = "PUBLISH"}
        BY <4>1, SessionFixed
      <4>3. SameBut(c, s, {"n_refs", "free_list", "mqp", "qos_ack1_wl", "qos2_rx_cq", "qos2_tx_cq"})
        BY <4>2 DEF SameBut
      <4>. QED  BY <4>2, <4>3
    <3>3. CASE "CLEAN_SESSION" \notin c.flags /\ PROTO_V31
      <4>1. s = c
        BY <3>3
      <4>. QED  BY <4>1 DEF Kept, SameBut, Ok, IsCtx
    <3>. QED  BY <3>1, <3>2, <3>3
  <2> HIDE DEF s
  <2>3. /\ Ok(r, own) /\ SameBut(s, r, {"n_refs", "free_list", "mqp", "tx_mqp", "tx_part"})
        /\ r.tx_mqp = NULL /\ ~r.tx_part /\ Kept(s, r, own)
    BY <2>2, TxReset
  <2>4. DOMAIN r = CtxFields
    BY <2>3 DEF SameBut
  <2> HIDE DEF r
  <2>5. /\ SameBut(r, d, {"flags", "net", "tx"}) /\ d.tx = <<>> /\ d.net = FALSE
        /\ d.flags = r.flags \ ClosedFlags
    BY <2>1, <2>4 DEF SameBut, CtxFields
  <2>6. SameBut(r, d, {"tx", "flags", "net", "qos2_rx_cq", "qos2_tx_cq", "msg_id", "tx_part"})
    BY <2>5 DEF SameBut
  <2>7. d.msg_id = r.msg_id /\ d.qos_ack1_wl = r.qos_ack1_wl /\ d.mqp = r.mqp /\ d.rx_mqp = r.rx_mqp
    BY <2>5 DEF SameBut, CtxFields
  <2>8. r.msg_id = s.msg_id /\ r.qos_ack1_wl = s.qos_ack1_wl /\ r.rx_mqp = s.rx_mqp
        /\ r.flags = s.flags
    BY <2>3 DEF SameBut, CtxFields
  <2>9. s.msg_id = c.msg_id /\ s.rx_mqp = c.rx_mqp /\ s.flags = c.flags
    BY <2>2 DEF SameBut, CtxFields
  <2>10. Ok(d, own)
    <3>1. d.tx \in Seq(AnyMsg)
      BY <2>5
    <3>2. d.msg_id \in Nat
      BY <2>3, <2>7 DEF Ok, IsCtx
    <3>. QED  BY <2>3, <2>6, <3>1, <3>2, PlainChange
  <2>11. Kept(c, d, own)
    BY <2>2, <2>3, <2>7, <2>8 DEF Kept
  <2>. QED  BY <1>2, <2>2, <2>5, <2>7, <2>8, <2>9, <2>10, <2>11
<1>. QED  BY <1>1, <1>2


\* The ids that ack2_msg_id_dispatch takes from the queue are numbers.
LEMMA PendingType ==
  ASSUME NEW c, c.qos2_tx_cq \in CqType
  PROVE  PendingPubrel(c) \in Seq(Nat)
<1> DEFINE cq == c.qos2_tx_cq
           n  == qos2_pub_cq_count(cq) - cq.rd_idx
<1>1. /\ cq.id_vec \in [0..LastIdx -> Nat] /\ cq.n_free \in Nat /\ cq.rd_idx \in Nat
      /\ qos2_pub_cq_count(cq) \in Nat
  BY CapacityNat DEF CqType, qos2_pub_cq_count
<1>2. \A i \in Nat : IdAt(cq, i) \in Nat
  <2> TAKE i \in Nat
  <2>1. CASE i < MAX_PUBREL_INFLT
    <3>1. i \in 0..LastIdx
      BY <2>1, CapacityNat DEF LastIdx
    <3>. QED  BY <1>1, <2>1, <3>1 DEF IdAt
  <2>2. CASE ~(i < MAX_PUBREL_INFLT)
    <3>1. IdAt(cq, i) = cq.n_free + 256 * cq.rd_idx
      BY <2>2 DEF IdAt
    <3>. QED  BY <1>1, <3>1
  <2>. QED  BY <2>1, <2>2
<1>3. CASE cq.rd_idx >= qos2_pub_cq_count(cq)
  <2>1. PendingPubrel(c) = <<>>
    BY <1>3 DEF PendingPubrel
  <2>. QED  BY <2>1
<1>4. CASE ~(cq.rd_idx >= qos2_pub_cq_count(cq))
  <2>1. PendingPubrel(c) = [i \in 1..n |-> IdAt(cq, cq.rd_idx + (i - 1))]
    BY ONLY <1>4, Zenon DEF PendingPubrel
  <2>2. n \in Nat /\ \A i \in 1..n : cq.rd_idx + (i - 1) \in Nat
    BY <1>1, <1>4
  <2> HIDE DEF n, cq
  <2>3. PendingPubrel(c) \in [1..n -> Nat]
    BY <1>2, <2>1, <2>2
  <2>. QED  BY <2>2, <2>3
<1>. QED  BY <1>3, <1>4

ItemType(wl) == [mqp : Items(wl) \cup {NULL}, msg : AnyMsg]

\* What session_resume sends: the listed packets, then PUBRELs.
LEMMA ResendItems ==
  ASSUME NEW c, IsCtx(c), c.qos2_tx_cq \in CqType
  PROVE  LET wl    == c.qos_ack1_wl
             items == ToResend(c)
         IN  /\ items \in Seq(ItemType(wl)) /\ Len(wl) \in Nat /\ Len(items) \in Nat
             /\ Len(wl) <= Len(items)
             /\ \A i \in 1..Len(items) :
                  IF i <= Len(wl) THEN items[i].msg = c.mqp[wl[i]] ELSE items[i].msg.type = "PUBREL"
<1> DEFINE wl  == c.qos_ack1_wl
           ids == PendingPubrel(c)
           A   == [i \in DOMAIN wl |-> [mqp |-> wl[i], msg |-> c.mqp[wl[i]]]]
           B   == [i \in DOMAIN ids |-> [mqp |-> NULL, msg |-> VhMsg("PUBREL", ids[i])]]
<1>1. wl \in Seq(Packets) /\ c.mqp \in [Packets -> AnyMsg] /\ ids \in Seq(Nat)
  BY PendingType DEF IsCtx
<1>2. "PUBREL" \in PacketTypes
  BY DEF PacketTypes
<1>3. /\ Len(wl) \in Nat /\ DOMAIN wl = 1..Len(wl) /\ Len(ids) \in Nat /\ DOMAIN ids = 1..Len(ids)
      /\ \A i \in 1..Len(wl) : wl[i] \in Packets /\ wl[i] \in Items(wl)
      /\ \A i \in 1..Len(ids) : ids[i] \in Nat
  BY <1>1 DEF Items
<1>4. ToResend(c) = A \o B
  BY DEF ToResend
<1> HIDE DEF ids
<1>5. A \in Seq(ItemType(wl)) /\ Len(A) = Len(wl) /\ \A i \in 1..Len(wl) : A[i].msg = c.mqp[wl[i]]
  <2>1. A \in [1..Len(wl) -> ItemType(wl)]
    BY <1>1, <1>3 DEF ItemType
  <2>2. \A i \in 1..Len(wl) : A[i].msg = c.mqp[wl[i]]
    BY <1>3
  <2> HIDE DEF A
  <2>. QED  BY <1>3, <2>1, <2>2
<1>6. B \in Seq(ItemType(wl)) /\ Len(B) = Len(ids) /\ \A i \in 1..Len(ids) : B[i].msg.type = "PUBREL"
  <2>1. \A i \in 1..Len(ids) : VhMsg("PUBREL", ids[i]) \in AnyMsg /\ VhMsg("PUBREL", ids[i]).type = "PUBREL"
    BY <1>2, <1>3, MsgTypes
  <2>2. B \in [1..Len(ids) -> ItemType(wl)]
    BY <1>3, <2>1 DEF ItemType
  <2>3. \A i \in 1..Len(ids) : B[i].msg.type = "PUBREL"
    BY <1>3, <2>1
  <2> HIDE DEF B
  <2>. QED  BY <1>3, <2>2, <2>3
<1> HIDE DEF A, B, wl
<1>7. /\ A \o B \in Seq(ItemType(wl)) /\ Len(A \o B) = Len(wl) + Len(ids)
      /\ \A i \in 1..(Len(wl) + Len(ids)) : (A \o B)[i] = IF i <= Len(wl) THEN A[i] ELSE B[i - Len(wl)]
  <2> DEFINE T == ItemType(wl)
  <2>3. A \in Seq(T) /\ B \in Seq(T)
    BY <1>5, <1>6
  <2> HIDE DEF T
  <2>4. A \o B \in Seq(T) /\ Len(A \o B) = Len(A) + Len(B)
    BY ONLY <2>3
  <2>1. A \o B \in Seq(ItemType(wl)) /\ Len(A \o B) = Len(A) + Len(B)
    BY <2>4 DEF T
  <2>2. \A i \in 1..(Len(A) + Len(B)) : (A \o B)[i] = IF i <= Len(A) THEN A[i] ELSE B[i - Len(A)]
    BY <1>5, <1>6
  <2>. QED  BY <1>5, <1>6, <2>1, <2>2
<1>8. \A i \in 1..(Len(wl) + Len(ids)) : IF i <= Len(wl) THEN i \in 1..Len(wl) ELSE i - Len(wl) \in 1..Len(ids)
  BY <1>3
<1>9. \A i \in 1..Len(A \o B) :
        IF i <= Len(wl) THEN (A \o B)[i].msg = c.mqp[wl[i]] ELSE (A \o B)[i].msg.type = "PUBREL"
  <2> TAKE i \in 1..Len(A \o B)
  <2>1. i \in 1..(Len(wl) + Len(ids))
    BY <1>7
  <2>2. CASE i <= Len(wl)
    BY <1>5, <1>7, <1>8, <2>1, <2>2
  <2>3. CASE ~(i <= Len(wl))
    BY <1>6, <1>7, <1>8, <2>1, <2>3
  <2>. QED  BY <2>2, <2>3
<1>10. Len(A \o B) \in Nat /\ Len(wl) <= Len(A \o B)
  BY <1>3, <1>7
<1>. QED  BY <1>3, <1>4, <1>7, <1>9, <1>10 DEF wl

\* The first k of them
Sent(c, k) == [i \in 1..k |-> ToResend(c)[i].msg]

\* The requests among them are the listed packets.
LEMMA SentReqs ==
  ASSUME NEW c, IsCtx(c), c.qos2_tx_cq \in CqType, NEW k \in 0..Len(ToResend(c)),
         \A p \in Items(c.qos_ack1_wl) : c.mqp[p] \in ReqMsgs
  PROVE  LET r == Sift(Sent(c, k), ReqMsgs)
         IN  /\ Sent(c, k) \in Seq(AnyMsg) /\ Len(r) \in Nat /\ Len(r) <= Len(c.qos_ack1_wl)
             /\ \A i \in 1..Len(r) : r[i] = c.mqp[c.qos_ack1_wl[i]]
             /\ k = Len(ToResend(c)) => Len(r) = Len(c.qos_ack1_wl)
<1> DEFINE wl    == c.qos_ack1_wl
           items == ToResend(c)
           j     == IF k <= Len(wl) THEN k ELSE Len(wl)
           s     == Sent(c, k)
           s1    == [i \in 1..j |-> c.mqp[wl[i]]]
           s2    == [i \in 1..(k - j) |-> items[j + i].msg]
<1>1. /\ items \in Seq(ItemType(wl)) /\ Len(wl) \in Nat /\ Len(items) \in Nat /\ Len(wl) <= Len(items)
      /\ \A i \in 1..Len(items) :
           IF i <= Len(wl) THEN items[i].msg = c.mqp[wl[i]] ELSE items[i].msg.type = "PUBREL"
  BY ResendItems
<1>2. wl \in Seq(Packets) /\ \A i \in 1..Len(wl) : wl[i] \in Items(wl)
  BY DEF IsCtx, Items
<1>3. k \in Nat /\ j \in Nat /\ j <= k /\ j <= Len(wl) /\ k - j \in Nat /\ k <= Len(items)
  BY <1>1
<1>4. j < k => j = Len(wl)
  BY <1>1, <1>3
<1>5. k = Len(items) => j = Len(wl)
  BY <1>1
<1>6. s = [i \in 1..k |-> items[i].msg]
  BY DEF Sent
<1> HIDE DEF j, s, items, wl
<1>7. \A i \in 1..Len(items) : items[i].msg \in AnyMsg
  <2>1. \A i \in 1..Len(items) : items[i] \in ItemType(wl)
    BY <1>1
  <2>. QED  BY <2>1 DEF ItemType
<1>8. s \in Seq(AnyMsg) /\ Len(s) = k /\ \A i \in 1..k : s[i] = items[i].msg
  <2>1. s \in [1..k -> AnyMsg]
    BY <1>1, <1>3, <1>6, <1>7
  <2>. QED  BY <1>3, <1>6, <2>1
<1>9. s1 \in Seq(ReqMsgs) /\ Len(s1) = j /\ \A i \in 1..j : s1[i] = c.mqp[wl[i]]
  <2>1. s1 \in [1..j -> ReqMsgs]
    BY <1>1, <1>2, <1>3 DEF wl
  <2>2. \A i \in 1..j : s1[i] = c.mqp[wl[i]]
    OBVIOUS
  <2> HIDE DEF s1
  <2>. QED  BY <1>3, <2>1, <2>2
<1>10. /\ s2 \in Seq(AnyMsg) /\ Len(s2) = k - j
       /\ \A i \in 1..(k - j) : s2[i] = items[j + i].msg /\ s2[i].type = "PUBREL"
  <2>1. \A i \in 1..(k - j) : j + i \in 1..Len(items) /\ ~(j + i <= Len(wl))
    BY <1>1, <1>3, <1>4
  <2>2. s2 \in [1..(k - j) -> AnyMsg]
    BY <1>7, <2>1
  <2>3. \A i \in 1..(k - j) : s2[i] = items[j + i].msg /\ s2[i].type = "PUBREL"
    BY <1>1, <2>1
  <2> HIDE DEF s2
  <2>. QED  BY <1>3, <2>2, <2>3
<1> HIDE DEF s1, s2
<1>11. s = s1 \o s2
  <2>1. s1 \in Seq(AnyMsg)
    <3>1. s1 \in [1..j -> AnyMsg]
      BY <1>3, <1>9, MsgTypes
    <3>. QED  BY <1>3, <3>1
  <2>2. s1 \o s2 \in Seq(AnyMsg) /\ Len(s1 \o s2) = k
    <3>1. s1 \o s2 \in Seq(AnyMsg) /\ Len(s1 \o s2) = Len(s1) + Len(s2)
      BY SMTT(30), <1>10, <2>1
    <3>. QED  BY <1>3, <1>9, <1>10, <3>1
  <2>3. ASSUME NEW i \in 1..k PROVE s[i] = (s1 \o s2)[i]
    <3>1. CASE i <= j
      <4>1. i \in 1..j /\ i \in 1..Len(items) /\ i <= Len(wl)
        BY <1>1, <1>3, <3>1
      <4>2. (s1 \o s2)[i] = s1[i]
        BY <1>3, <1>9, <1>10, <2>1, <4>1
      <4>. QED  BY <1>1, <1>8, <1>9, <4>1, <4>2
    <3>2. CASE ~(i <= j)
      <4>1. i - j \in 1..(k - j) /\ j + (i - j) = i
        BY <1>3, <3>2
      <4>2. (s1 \o s2)[i] = s2[i - j]
        BY <1>3, <1>9, <1>10, <2>1, <3>2, <4>1
      <4>. QED  BY <1>8, <1>10, <4>1, <4>2
    <3>. QED  BY <3>1, <3>2
  <2>. QED  BY <1>8, <2>2, <2>3, SameList
<1>12. Sift(s1, ReqMsgs) = s1
  BY <1>9, SiftAll
<1>13. Sift(s2, ReqMsgs) = <<>>
  <2>1. \A i \in DOMAIN s2 : s2[i] \notin ReqMsgs
    BY <1>10 DEF ReqMsgs
  <2>. QED  BY <1>10, <2>1, SiftNone
<1>14. s1 \in Seq(AnyMsg)
  <2>1. s1 \in [1..j -> AnyMsg]
    BY <1>3, <1>9, MsgTypes
  <2>. QED  BY <1>3, <2>1
<1>15. Sift(s, ReqMsgs) = s1
  <2>1. Sift(s, ReqMsgs) = Sift(s1, ReqMsgs) \o Sift(s2, ReqMsgs)
    BY <1>10, <1>11, <1>14, SiftConcat
  <2>. QED  BY <1>12, <1>13, <1>14, <2>1
<1>. QED  BY <1>3, <1>5, <1>8, <1>9, <1>15 DEF s, wl, items

\* The socket took a part of them, all if more can be sent.
SomeSent(c, d) ==
  \E k \in 0..Len(ToResend(c)) :
    d.tx = c.tx \o Sent(c, k) /\ (MaySend(d, FALSE) => k = Len(ToResend(c)))

\* session_resume
LEMMA Resumed ==
  ASSUME NEW c, NEW own, Ok(c, own), c.qos2_tx_cq \in CqType, NEW n \in Nat,
         \A p \in Items(c.qos_ack1_wl) : c.mqp[p] \in ReqMsgs,
         NEW d, d = session_resume(c, n)
  PROVE  /\ Ok(d, own) /\ SameBut(c, d, {"n_refs", "tx", "flags", "tx_mqp", "tx_part"})
         /\ FlagsMore(c, d) /\ SomeSent(c, d)
<1> DEFINE items == ToResend(c)
           k     == IF n < Len(items) THEN n ELSE Len(items)
           held(x, item) == IF item.mqp = NULL THEN x ELSE Hold(x, item.mqp)
           sent  == [c EXCEPT !.tx = @ \o Sent(c, k), !.tx_part = FALSE, !.tx_mqp = NULL]
           wl    == c.qos_ack1_wl
<1>0. /\ DOMAIN c = CtxFields /\ IsCtx(c) /\ PoolOK(c, own) /\ own \subseteq Packets
      /\ c.tx \in Seq(AnyMsg) /\ c.msg_id \in Nat /\ c.n_refs \in [Packets -> Nat]
      /\ Items(wl) \subseteq Packets
  BY DEF IsCtx, Ok, Items
<1>1. /\ items \in Seq(ItemType(wl)) /\ Len(items) \in Nat
      /\ \A i \in 1..Len(items) : items[i] \in ItemType(wl)
  <2>1. items \in Seq(ItemType(wl)) /\ Len(items) \in Nat
    BY <1>0, ResendItems
  <2>2. \A S : \A s \in Seq(S) : \A i \in 1..Len(s) : s[i] \in S
    OBVIOUS
  <2>. QED  BY <2>1, <2>2
<1>2. k \in 0..Len(items)
  BY <1>1
<1>3. \A j \in 0..Len(items) : Sent(c, j) \in Seq(AnyMsg)
  BY <1>0, SentReqs
<1>4. \A i \in 1..Len(items) : items[i].mqp = NULL \/ items[i].mqp \in Items(wl)
  <2> HIDE DEF items, wl
  <2>. QED  BY <1>1 DEF ItemType
<1>5. \A p \in Items(wl) : Uses(c, own, p) > 0
  <2> TAKE p \in Items(wl)
  <2>1. One(p \in Items(c.qos_ack1_wl)) = 1
    BY DEF One
  <2>. QED  BY <2>1 DEF Uses, One
<1>6. CASE items = <<>>
  <2>1. d = c
    BY <1>6 DEF session_resume
  <2>2. Len(items) = 0 /\ Sent(c, 0) = <<>>
    BY <1>6 DEF Sent
  <2>3. c.tx \o <<>> = c.tx
    BY <1>0
  <2>4. 0 \in 0..Len(items)
    BY <2>2
  <2>. QED  BY <1>0, <2>1, <2>2, <2>3, <2>4 DEF SameBut, FlagsMore, SomeSent
<1>7. CASE items # <<>> /\ ~MaySend(c, FALSE)
  <2>1. d = held(c, items[1])
    BY <1>7 DEF session_resume
  <2>2. items[1].mqp = NULL \/ items[1].mqp \in Items(wl)
    <3>1. 1 \in 1..Len(items)
      BY <1>1, <1>7
    <3>. QED  BY <1>4, <3>1
  <2>3. Sent(c, 0) = <<>> /\ c.tx \o <<>> = c.tx /\ 0 \in 0..Len(items)
    BY <1>0, <1>1 DEF Sent
  <2>4. CASE items[1].mqp = NULL
    <3>1. d = c
      BY <2>1, <2>4
    <3>. QED  BY <1>0, <1>7, <2>3, <3>1 DEF SameBut, FlagsMore, SomeSent
  <2>5. CASE items[1].mqp # NULL
    <3> DEFINE p == items[1].mqp
    <3>1. d = [c EXCEPT !.n_refs[p] = @ + 1] /\ p \in Items(wl) /\ p \in Packets
      BY <1>0, <2>1, <2>2, <2>5 DEF Hold
    <3> HIDE DEF p
    <3>2. SameBut(c, d, {"n_refs"}) /\ d.n_refs = [c.n_refs EXCEPT ![p] = @ + 1]
      BY <1>0, <3>1 DEF SameBut, CtxFields
    <3>3. /\ d.qos_ack1_wl = c.qos_ack1_wl /\ d.tx_mqp = c.tx_mqp /\ d.rx_mqp = c.rx_mqp
          /\ d.free_list = c.free_list /\ d.mqp = c.mqp /\ d.tx = c.tx /\ d.msg_id = c.msg_id
          /\ d.flags = c.flags /\ d.tx_part = c.tx_part /\ DOMAIN d = CtxFields
      BY <3>2 DEF SameBut, CtxFields
    <3>4. IsCtx(d)
      <4>1. d.n_refs \in [Packets -> Nat]
        BY <1>0, <3>1, <3>2
      <4>. QED  BY <1>0, <3>3, <4>1 DEF IsCtx
    <3>5. PoolOK(d, own)
      <4>1. \A q \in Packets : Uses(d, own, q) <= Uses(c, own, q) + One(q = p)
        BY <3>3 DEF Uses, One
      <4>2. NoRepeats(d.qos_ack1_wl) /\ d.rx_mqp \notin Items(d.qos_ack1_wl) \cup own
            /\ own \cap Items(d.qos_ack1_wl) = {}
        BY <1>0, <3>3 DEF PoolOK
      <4>3. Uses(c, own, p) > 0
        BY <1>5, <3>1
      <4>. QED  BY ONLY <1>0, <3>1, <3>2, <3>3, <4>1, <4>2, <4>3, HoldAdds
    <3>6. ~MaySend(d, FALSE)
      BY <1>7, <3>3 DEF MaySend, is_connected
    <3>7. SameBut(c, d, {"n_refs", "tx", "flags", "tx_mqp", "tx_part"})
      BY <3>2 DEF SameBut
    <3>. QED  BY <1>0, <2>3, <3>3, <3>4, <3>5, <3>6, <3>7 DEF Ok, FlagsMore, SomeSent
  <2>. QED  BY <2>4, <2>5
<1>8. /\ SameBut(c, sent, {"tx", "tx_part", "tx_mqp"}) /\ sent.tx = c.tx \o Sent(c, k)
      /\ sent.tx_mqp = NULL /\ sent.tx_part = FALSE
  BY <1>0 DEF SameBut, CtxFields
<1>9. /\ sent.qos_ack1_wl = c.qos_ack1_wl /\ sent.rx_mqp = c.rx_mqp
      /\ sent.free_list = c.free_list /\ sent.n_refs = c.n_refs /\ sent.mqp = c.mqp
      /\ sent.msg_id = c.msg_id /\ DOMAIN sent = CtxFields /\ sent.flags = c.flags
  BY <1>8 DEF SameBut, CtxFields
<1>10. sent.tx \in Seq(AnyMsg)
  <2>1. Sent(c, k) \in Seq(AnyMsg)
    BY <1>2, <1>3
  <2>. QED  BY ONLY <1>0, <1>8, <2>1
<1>11. session_resume(c, n) =
         CASE items = <<>> -> c
           [] items # <<>> /\ ~MaySend(c, FALSE) -> held(c, items[1])
           [] items # <<>> /\ MaySend(c, FALSE) /\ k = Len(items) -> sent
           [] OTHER -> do_net_close_tx(tx_part_setup(held(sent, items[k + 1]), items[k + 1].mqp))
  BY DEF session_resume, Sent
<1>12. CASE items # <<>> /\ MaySend(c, FALSE) /\ k = Len(items)
  <2>1. d = sent
    BY <1>11, <1>12
  <2> HIDE DEF sent, items, k, wl
  <2>2. IsCtx(d)
    BY <1>0, <1>8, <1>9, <1>10, <2>1 DEF IsCtx
  <2>3. PoolOK(d, own)
    <3>1. \A q \in Packets : Uses(d, own, q) <= Uses(c, own, q)
      BY <1>8, <1>9, <2>1, PacketFacts DEF Uses, One
    <3>2. NoRepeats(d.qos_ack1_wl) /\ d.rx_mqp \notin Items(d.qos_ack1_wl) \cup own
          /\ own \cap Items(d.qos_ack1_wl) = {}
      BY <1>0, <1>9, <2>1 DEF PoolOK
    <3>3. d.n_refs = c.n_refs /\ d.free_list = c.free_list
      BY <1>9, <2>1
    <3>. QED  BY ONLY <1>0, <3>1, <3>2, <3>3, UsesDropped
  <2>4. SameBut(c, d, {"n_refs", "tx", "flags", "tx_mqp", "tx_part"})
    BY <1>8, <2>1 DEF SameBut
  <2>. QED  BY <1>0, <1>2, <1>8, <1>9, <1>12, <2>1, <2>2, <2>3, <2>4 DEF Ok, items, FlagsMore, SomeSent
<1>13. CASE items # <<>> /\ MaySend(c, FALSE) /\ k # Len(items)
  <2> DEFINE p == items[k + 1].mqp
             h == held(sent, items[k + 1])
  <2>1. d = do_net_close_tx(tx_part_setup(h, p))
    BY <1>11, <1>13, Zenon
  <2>2. p = NULL \/ p \in Items(wl)
    <3>1. k + 1 \in 1..Len(items)
      BY <1>1, <1>2, <1>13
    <3>. QED  BY <1>4, <3>1
  <2>3. h = IF p = NULL THEN sent ELSE [sent EXCEPT !.n_refs[p] = @ + 1]
    BY DEF Hold
  <2> HIDE DEF p, h, sent, items, k, wl
  <2>4. /\ SameBut(sent, h, {"n_refs"})
        /\ h.n_refs = IF p = NULL THEN c.n_refs ELSE [c.n_refs EXCEPT ![p] = @ + 1]
    BY <1>9, <2>3 DEF SameBut, CtxFields
  <2>5. d = [h EXCEPT !.tx_part = TRUE, !.tx_mqp = p, !.flags = @ \cup {"NETWORK_CLOSE"}]
    <3>1. DOMAIN h = CtxFields
      BY <2>4 DEF SameBut
    <3>. QED  BY <2>1, <3>1 DEF do_net_close_tx, tx_part_setup, CtxFields
  <2>6. /\ SameBut(h, d, {"tx_part", "tx_mqp", "flags"}) /\ d.tx_mqp = p
        /\ d.flags = h.flags \cup {"NETWORK_CLOSE"}
    BY <2>4, <2>5 DEF SameBut, CtxFields
  <2>7. /\ d.qos_ack1_wl = h.qos_ack1_wl /\ d.rx_mqp = h.rx_mqp /\ d.tx = h.tx
        /\ d.free_list = h.free_list /\ d.n_refs = h.n_refs /\ d.mqp = h.mqp
        /\ d.msg_id = h.msg_id /\ DOMAIN d = CtxFields
    BY <2>6 DEF SameBut, CtxFields
  <2>8. /\ h.qos_ack1_wl = sent.qos_ack1_wl /\ h.rx_mqp = sent.rx_mqp /\ h.tx = sent.tx
        /\ h.free_list = sent.free_list /\ h.mqp = sent.mqp
        /\ h.msg_id = sent.msg_id /\ h.flags = sent.flags
    BY <2>4 DEF SameBut, CtxFields
  <2>9. p = NULL \/ p \in Packets
    BY <1>0, <2>2
  <2>10. IsCtx(d)
    <3>1. d.n_refs \in [Packets -> Nat]
      BY <1>0, <2>4, <2>7, <2>9
    <3>. QED  BY <1>0, <1>9, <1>10, <2>6, <2>7, <2>8, <2>9, <3>1 DEF IsCtx
  <2>11. NoRepeats(d.qos_ack1_wl) /\ d.rx_mqp \notin Items(d.qos_ack1_wl) \cup own
         /\ own \cap Items(d.qos_ack1_wl) = {} /\ d.free_list = c.free_list
    BY <1>0, <1>9, <2>7, <2>8 DEF PoolOK
  <2>12. PoolOK(d, own)
    <3>1. CASE p = NULL
      <4>1. \A q \in Packets : Uses(d, own, q) <= Uses(c, own, q)
        BY <1>9, <2>6, <2>7, <2>8, <3>1, PacketFacts DEF Uses, One
      <4>2. d.n_refs = c.n_refs
        BY <2>4, <2>7, <3>1
      <4>. QED  BY ONLY <1>0, <2>11, <4>1, <4>2, UsesDropped
    <3>2. CASE p # NULL
      <4>1. \A q \in Packets : Uses(d, own, q) <= Uses(c, own, q) + One(q = p)
        BY <1>9, <2>6, <2>7, <2>8 DEF Uses, One
      <4>2. d.n_refs = [c.n_refs EXCEPT ![p] = @ + 1]
        BY <2>4, <2>7, <3>2
      <4>3. p \in Packets /\ Uses(c, own, p) > 0
        BY <1>5, <2>2, <2>9, <3>2
      <4>. QED  BY ONLY <1>0, <2>11, <4>1, <4>2, <4>3, HoldAdds
    <3>. QED  BY <3>1, <3>2
  <2>13. SameBut(c, d, {"n_refs", "tx", "flags", "tx_mqp", "tx_part"})
    BY <1>8, <2>4, <2>6 DEF SameBut, CtxFields
  <2>14. ~MaySend(d, FALSE) /\ d.flags = c.flags \cup {"NETWORK_CLOSE"} /\ d.tx = c.tx \o Sent(c, k)
    BY <1>8, <1>9, <2>6, <2>7, <2>8 DEF MaySend, is_connected
  <2>. QED  BY <1>0, <1>2, <2>10, <2>12, <2>13, <2>14 DEF Ok, items, FlagsMore, SomeSent
<1>. QED  BY <1>6, <1>7, <1>12, <1>13

-----------------------------------------------------------------------------
(***************************************************************************)
(* The order of what is under way.                                         *)
(***************************************************************************)
LEMMA OrderSame ==
  ASSUME NEW acks \in Seq(AnyMsg), NEW reqs \in Seq(AnyMsg), NEW wl \in Seq(Packets),
         NEW mqp, NEW mqp2, InOrder(acks, reqs, wl, mqp),
         \A p \in Items(wl) : mqp2[p] = mqp[p]
  PROVE  InOrder(acks, reqs, wl, mqp2)
<1>1. Len(acks) \in Nat /\ Len(reqs) \in Nat /\ Len(wl) \in Nat /\ Len(acks) + Len(reqs) <= Len(wl)
  BY DEF InOrder
<1>2. \A i \in 1..Len(wl) : wl[i] \in Items(wl)
  BY DEF Items
<1>3. \A i \in 1..Len(acks) : i \in 1..Len(wl)
  BY <1>1
<1>4. \A i \in 1..Len(reqs) : Len(acks) + i \in 1..Len(wl)
  BY <1>1
<1>. QED  BY <1>1, <1>2, <1>3, <1>4 DEF InOrder

\* Nothing under way is in order with every list.
LEMMA OrderEmpty ==
  ASSUME NEW wl \in Seq(Packets), NEW mqp
  PROVE  InOrder(<<>>, <<>>, wl, mqp)
<1>1. Len(wl) \in Nat
  OBVIOUS
<1>. QED  BY <1>1 DEF InOrder

\* A request is put in the list, and sent if all before it was.
LEMMA OrderAppend ==
  ASSUME NEW acks \in Seq(AnyMsg), NEW reqs \in Seq(AnyMsg), NEW wl \in Seq(Packets),
         NEW mqp, NEW m \in AnyMsg, NEW p \in Packets, InOrder(acks, reqs, wl, mqp), mqp[p] = m
  PROVE  /\ InOrder(acks, reqs, Append(wl, p), mqp)
         /\ Len(acks) + Len(reqs) = Len(wl) => InOrder(acks, Append(reqs, m), Append(wl, p), mqp)
<1> DEFINE v == Append(wl, p)
           r == Append(reqs, m)
<1>1. Len(acks) \in Nat /\ Len(reqs) \in Nat /\ Len(wl) \in Nat /\ Len(acks) + Len(reqs) <= Len(wl)
  BY DEF InOrder
<1>2. /\ Len(v) = Len(wl) + 1 /\ v[Len(wl) + 1] = p /\ \A i \in 1..Len(wl) : v[i] = wl[i]
      /\ Len(r) = Len(reqs) + 1 /\ r[Len(reqs) + 1] = m /\ \A i \in 1..Len(reqs) : r[i] = reqs[i]
  OBVIOUS
<1>3. \A i \in 1..Len(acks) : i \in 1..Len(wl)
  BY <1>1
<1>4. \A i \in 1..Len(reqs) : Len(acks) + i \in 1..Len(wl)
  BY <1>1
<1> HIDE DEF v, r
<1>5. InOrder(acks, reqs, v, mqp)
  <2>1. Len(acks) + Len(reqs) <= Len(v)
    BY <1>1, <1>2
  <2>. QED  BY <1>2, <1>3, <1>4, <2>1 DEF InOrder
<1>6. ASSUME Len(acks) + Len(reqs) = Len(wl) PROVE InOrder(acks, r, v, mqp)
  <2>1. Len(acks) + Len(r) <= Len(v)
    BY <1>1, <1>2, <1>6
  <2>2. ASSUME NEW i \in 1..Len(r) PROVE r[i] = mqp[v[Len(acks) + i]]
    <3>1. CASE i = Len(reqs) + 1
      <4>1. Len(acks) + i = Len(wl) + 1
        BY SMTT(30), <1>1, <1>6, <3>1
      <4>. QED  BY <1>2, <3>1, <4>1
    <3>2. CASE i # Len(reqs) + 1
      <4>1. i \in 1..Len(reqs)
        BY <1>1, <1>2, <3>2
      <4>. QED  BY <1>2, <1>4, <4>1 DEF InOrder
    <3>. QED  BY <3>1, <3>2
  <2>. QED  BY <1>2, <1>3, <2>1, <2>2 DEF InOrder
<1>. QED  BY <1>5, <1>6 DEF v, r

\* The server acknowledges the first request.
LEMMA OrderServe ==
  ASSUME NEW acks \in Seq(AnyMsg), NEW reqs \in Seq(AnyMsg), NEW wl \in Seq(Packets),
         NEW mqp, InOrder(acks, reqs, wl, mqp), reqs # <<>>, NEW a \in AnyMsg,
         a.id = Head(reqs).id, a.type = AckType(Head(reqs))
  PROVE  InOrder(Append(acks, a), Tail(reqs), wl, mqp)
<1> DEFINE b == Append(acks, a)
           r == Tail(reqs)
<1>1. Len(acks) \in Nat /\ Len(reqs) \in Nat \ {0} /\ Len(wl) \in Nat /\ Len(acks) + Len(reqs) <= Len(wl)
  BY DEF InOrder
<1>2. /\ Len(b) = Len(acks) + 1 /\ b[Len(acks) + 1] = a /\ \A i \in 1..Len(acks) : b[i] = acks[i]
      /\ Len(r) = Len(reqs) - 1 /\ Head(reqs) = reqs[1] /\ \A i \in 1..(Len(reqs) - 1) : r[i] = reqs[i + 1]
  OBVIOUS
<1> HIDE DEF b, r
<1>3. Len(b) + Len(r) <= Len(wl)
  BY <1>1, <1>2
<1>4. ASSUME NEW i \in 1..Len(b) PROVE b[i].id = mqp[wl[i]].id /\ b[i].type = AckType(mqp[wl[i]])
  <2>1. CASE i = Len(acks) + 1
    <3>1. 1 \in 1..Len(reqs)
      BY <1>1
    <3>2. reqs[1] = mqp[wl[Len(acks) + 1]]
      BY <3>1 DEF InOrder
    <3>. QED  BY <1>2, <2>1, <3>2
  <2>2. CASE i # Len(acks) + 1
    <3>1. i \in 1..Len(acks)
      BY <1>1, <1>2, <2>2
    <3>. QED  BY <1>2, <3>1 DEF InOrder
  <2>. QED  BY <2>1, <2>2
<1>5. ASSUME NEW i \in 1..Len(r) PROVE r[i] = mqp[wl[Len(b) + i]]
  <2>1. i + 1 \in 1..Len(reqs) /\ Len(b) + i = Len(acks) + (i + 1) /\ i \in 1..(Len(reqs) - 1)
    <3>1. i \in 1..(Len(reqs) - 1)
      BY <1>2
    <3>2. Len(b) + i = Len(acks) + (i + 1)
      BY <1>1, <1>2, <3>1
    <3>. QED  BY <1>1, <3>1, <3>2
  <2>2. reqs[i + 1] = mqp[wl[Len(acks) + (i + 1)]]
    BY <2>1 DEF InOrder
  <2>. QED  BY <1>2, <2>1, <2>2
<1>6. InOrder(b, r, wl, mqp)
  BY <1>3, <1>4, <1>5 DEF InOrder
<1>. QED  BY <1>6 DEF b, r

\* The first acknowledgement is for the head of the list.
LEMMA OrderAcked ==
  ASSUME NEW acks \in Seq(AnyMsg), NEW reqs \in Seq(AnyMsg), NEW wl \in Seq(Packets),
         NEW mqp, InOrder(acks, reqs, wl, mqp), acks # <<>>
  PROVE  /\ wl # <<>> /\ Head(acks).id = mqp[wl[1]].id /\ Head(acks).type = AckType(mqp[wl[1]])
         /\ InOrder(Tail(acks), reqs, Tail(wl), mqp)
<1> DEFINE b == Tail(acks)
           v == Tail(wl)
<1>1. Len(acks) \in Nat \ {0} /\ Len(reqs) \in Nat /\ Len(wl) \in Nat /\ Len(acks) + Len(reqs) <= Len(wl)
  BY DEF InOrder
<1>2. wl # <<>>
  BY <1>1
<1>3. /\ Len(b) = Len(acks) - 1 /\ Head(acks) = acks[1] /\ \A i \in 1..(Len(acks) - 1) : b[i] = acks[i + 1]
      /\ Len(v) = Len(wl) - 1 /\ \A i \in 1..(Len(wl) - 1) : v[i] = wl[i + 1]
  BY <1>2
<1> HIDE DEF b, v
<1>4. Head(acks).id = mqp[wl[1]].id /\ Head(acks).type = AckType(mqp[wl[1]])
  <2>1. 1 \in 1..Len(acks)
    BY <1>1
  <2>. QED  BY <1>3, <2>1 DEF InOrder
<1>5. Len(b) + Len(reqs) <= Len(v)
  BY <1>1, <1>3
<1>6. ASSUME NEW i \in 1..Len(b) PROVE b[i].id = mqp[v[i]].id /\ b[i].type = AckType(mqp[v[i]])
  <2>1. i + 1 \in 1..Len(acks) /\ i \in 1..(Len(acks) - 1) /\ i \in 1..(Len(wl) - 1)
    BY <1>1, <1>3
  <2>2. acks[i + 1].id = mqp[wl[i + 1]].id /\ acks[i + 1].type = AckType(mqp[wl[i + 1]])
    BY <2>1 DEF InOrder
  <2>. QED  BY <1>3, <2>1, <2>2
<1>7. ASSUME NEW i \in 1..Len(reqs) PROVE reqs[i] = mqp[v[Len(b) + i]]
  <2>1. Len(b) + i \in 1..(Len(wl) - 1) /\ (Len(b) + i) + 1 = Len(acks) + i
    BY <1>1, <1>3
  <2>2. reqs[i] = mqp[wl[Len(acks) + i]]
    BY DEF InOrder
  <2>. QED  BY <1>3, <2>1, <2>2
<1>8. InOrder(b, reqs, v, mqp)
  BY <1>5, <1>6, <1>7 DEF InOrder
<1>. QED  BY <1>2, <1>4, <1>8 DEF b, v

\* The connection breaks: the last acknowledgements and all requests are lost.
LEMMA OrderPrefix ==
  ASSUME NEW acks \in Seq(AnyMsg), NEW reqs \in Seq(AnyMsg), NEW wl \in Seq(Packets),
         NEW mqp, InOrder(acks, reqs, wl, mqp), NEW b \in Seq(AnyMsg), Len(b) <= Len(acks),
         \A i \in 1..Len(b) : b[i] = acks[i]
  PROVE  InOrder(b, <<>>, wl, mqp)
<1>1. Len(acks) \in Nat /\ Len(b) \in Nat /\ Len(reqs) \in Nat /\ Len(wl) \in Nat
      /\ Len(acks) + Len(reqs) <= Len(wl)
  BY DEF InOrder
<1>2. Len(b) + Len(<<>>) <= Len(wl) /\ \A i \in 1..Len(b) : i \in 1..Len(acks)
  BY <1>1
<1>. QED  BY <1>2 DEF InOrder

\* A call that gives up its packet leaves the pool in order.
LEMMA OwnShrinks ==
  ASSUME NEW c, NEW own, Ok(c, own), NEW own2, own2 \subseteq own
  PROVE  Ok(c, own2)
<1>1. \A q \in Packets : Uses(c, own2, q) <= Uses(c, own, q)
  BY DEF Uses, One
<1>2. /\ NoRepeats(c.qos_ack1_wl) /\ c.rx_mqp \notin Items(c.qos_ack1_wl) \cup own2
      /\ own2 \cap Items(c.qos_ack1_wl) = {} /\ own2 \subseteq Packets
  BY DEF Ok, PoolOK
<1>3. PoolOK(c, own2)
  BY <1>1, <1>2, UsesDropped DEF Ok
<1>. QED  BY <1>2, <1>3 DEF Ok

\* mqp_client_alloc: nobody uses the packet.
LEMMA AllocCtx ==
  ASSUME NEW c, NEW own, Ok(c, own), c.free_list # <<>>, NEW m \in AnyMsg, NEW p, p = Head(c.free_list),
         NEW d, d = mqp_client_alloc(c, m)
  PROVE  /\ p \in Packets /\ p \notin Items(c.qos_ack1_wl) \cup own \cup {c.tx_mqp, c.rx_mqp}
         /\ IsCtx(d) /\ SameBut(c, d, {"n_refs", "free_list", "mqp"})
         /\ d.n_refs = [c.n_refs EXCEPT ![p] = 1] /\ d.free_list = Tail(c.free_list)
         /\ \A q \in Packets : d.mqp[q] = IF q = p THEN m ELSE c.mqp[q]
<1>0. DOMAIN c = CtxFields /\ IsCtx(c) /\ PoolOK(c, own) /\ c.free_list \in Seq(Packets)
  BY DEF Ok, IsCtx
<1>1. p \in Packets /\ p \in Items(c.free_list) /\ Tail(c.free_list) \in Seq(Packets)
  BY <1>0, HeadTail
<1>2. c.n_refs[p] = 0 /\ Uses(c, own, p) \in Nat /\ Uses(c, own, p) <= c.n_refs[p]
  BY <1>0, <1>1, UsesNat DEF PoolOK
<1>3. p \notin Items(c.qos_ack1_wl) \cup own \cup {c.tx_mqp, c.rx_mqp}
  <2>1. Uses(c, own, p) = 0
    BY <1>2
  <2>. QED  BY <2>1 DEF Uses, One
<1>4. /\ DOMAIN d = CtxFields
      /\ d.n_refs = [c.n_refs EXCEPT ![p] = 1] /\ d.free_list = Tail(c.free_list)
      /\ d.mqp = [c.mqp EXCEPT ![p] = m]
  BY <1>0 DEF mqp_client_alloc, CtxFields
<1>5. SameBut(c, d, {"n_refs", "free_list", "mqp"})
  BY <1>0, <1>4 DEF SameBut, mqp_client_alloc, CtxFields
<1>6. /\ d.tx = c.tx /\ d.msg_id = c.msg_id /\ d.qos_ack1_wl = c.qos_ack1_wl
      /\ d.tx_mqp = c.tx_mqp /\ d.rx_mqp = c.rx_mqp
  BY <1>5 DEF SameBut, CtxFields
<1>7. d.n_refs \in [Packets -> Nat] /\ d.mqp \in [Packets -> AnyMsg]
  BY <1>0, <1>4 DEF IsCtx
<1>8. IsCtx(d)
  BY <1>0, <1>1, <1>4, <1>6, <1>7 DEF IsCtx
<1>9. \A q \in Packets : d.mqp[q] = IF q = p THEN m ELSE c.mqp[q]
  BY <1>0, <1>4 DEF IsCtx
<1>. QED  BY <1>1, <1>3, <1>4, <1>5, <1>8, <1>9

\* The packet gets one use.
LEMMA AllocAdds ==
  ASSUME NEW c, NEW own, Ok(c, own), c.free_list # <<>>, NEW d, NEW own2, NEW p, p = Head(c.free_list),
         d.n_refs = [c.n_refs EXCEPT ![p] = 1], d.free_list = Tail(c.free_list),
         NoRepeats(d.qos_ack1_wl),
         \A q \in Packets : Uses(d, own2, q) <= Uses(c, own, q) + One(q = p),
         d.rx_mqp \notin Items(d.qos_ack1_wl) \cup own2, own2 \cap Items(d.qos_ack1_wl) = {}
  PROVE  PoolOK(d, own2)
<1>0. IsCtx(c) /\ PoolOK(c, own) /\ c.free_list \in Seq(Packets) /\ NoRepeats(c.free_list)
  BY DEF Ok, IsCtx, PoolOK
<1>1. /\ p \in Packets /\ Items(c.free_list) = {p} \cup Items(Tail(c.free_list))
      /\ NoRepeats(Tail(c.free_list)) /\ p \notin Items(Tail(c.free_list))
      /\ Tail(c.free_list) \in Seq(Packets)
  BY <1>0, HeadTail
<1>2. \A q \in Packets : Uses(d, own2, q) \in Nat /\ Uses(c, own, q) \in Nat /\ c.n_refs[q] \in Nat
  BY <1>0, UsesNat DEF IsCtx
<1>3. c.n_refs[p] = 0 /\ \A q \in Packets : Uses(c, own, q) <= c.n_refs[q]
  BY <1>0, <1>1 DEF PoolOK
<1>4. One(p = p) = 1 /\ \A q \in Packets : q # p => One(q = p) = 0
  BY DEF One
<1>5. \A q \in Packets : d.n_refs[q] = IF q = p THEN 1 ELSE c.n_refs[q]
  BY <1>0 DEF IsCtx
<1>6. \A q \in Packets : Uses(d, own2, q) <= d.n_refs[q]
  BY <1>1, <1>2, <1>3, <1>4, <1>5
<1>7. \A q \in Items(d.free_list) : q \in Packets /\ q # p /\ c.n_refs[q] = 0
  BY <1>0, <1>1 DEF PoolOK, Items
<1>8. \A q \in Items(d.free_list) : d.n_refs[q] = 0
  BY <1>5, <1>7
<1>. QED  BY <1>1, <1>6, <1>8 DEF PoolOK

\* An empty queue
LEMMA ResetType == qos2_pub_cq_reset \in CqType
<1>1. MAX_PUBREL_INFLT \in Nat \ {0}
  BY CapacityNat
<1>2. [i \in 0..(MAX_PUBREL_INFLT - 1) |-> 0] \in [0..LastIdx -> Nat]
  BY DEF LastIdx
<1>3. MAX_PUBREL_INFLT \in 0..MAX_PUBREL_INFLT /\ 0 \in 0..LastIdx /\ 0 \in Nat
  BY <1>1 DEF LastIdx
<1>. QED  BY <1>2, <1>3 DEF qos2_pub_cq_reset, CqType

\* Deleting a session leaves queues of ids.
LEMMA DeletedQueues ==
  ASSUME NEW c, NEW own, Ok(c, own), NEW d, d = session_delete(c)
  PROVE  d.qos2_rx_cq \in CqType /\ d.qos2_tx_cq \in CqType
<1> DEFINE e == mqp_ack_wlist_purge(c)
<1>1. Ok(e, own)
  BY Purge
<1>2. DOMAIN e = CtxFields
  BY <1>1 DEF Ok, IsCtx
<1>3. d = [e EXCEPT !.qos2_rx_cq = qos2_pub_cq_reset, !.qos2_tx_cq = qos2_pub_cq_reset]
  BY DEF session_delete
<1> HIDE DEF e
<1>4. d.qos2_rx_cq = qos2_pub_cq_reset /\ d.qos2_tx_cq = qos2_pub_cq_reset
  BY ONLY <1>2, <1>3 DEF CtxFields
<1>. QED  BY ONLY <1>4, ResetType

\* do_net_close leaves the queues or empties them.
LEMMA ClosedQueues ==
  ASSUME NEW c, NEW own, Ok(c, own), c.qos2_rx_cq \in CqType, c.qos2_tx_cq \in CqType,
         NEW d, d = do_net_close(c)
  PROVE  d.qos2_rx_cq \in CqType /\ d.qos2_tx_cq \in CqType
<1>1. CASE ~c.net
  BY <1>1 DEF do_net_close
<1>2. CASE c.net
  <2> DEFINE s == CASE "CLEAN_SESSION" \in c.flags -> session_delete(c)
                    [] "CLEAN_SESSION" \notin c.flags /\ ~PROTO_V31 -> session_311fix(c)
                    [] OTHER -> c
             e == tx_part_reset(s)
  <2>1. Ok(s, own) /\ s.qos2_rx_cq \in CqType /\ s.qos2_tx_cq \in CqType
    <3>1. CASE "CLEAN_SESSION" \in c.flags
      <4>1. s = session_delete(c)
        BY <3>1
      <4>. QED  BY <4>1, SessionDeleted, DeletedQueues
    <3>2. CASE "CLEAN_SESSION" \notin c.flags /\ ~PROTO_V31
      <4>1. s = session_311fix(c)
        BY <3>2
      <4>2. Ok(s, own) /\ SameBut(c, s, {"qos_ack1_wl"})
        BY <4>1, SessionFixed
      <4>. QED  BY <4>2 DEF SameBut, CtxFields
    <3>3. CASE "CLEAN_SESSION" \notin c.flags /\ PROTO_V31
      BY <3>3
    <3>. QED  BY <3>1, <3>2, <3>3
  <2>2. d = [e EXCEPT !.flags = @ \ ClosedFlags, !.net = FALSE, !.tx = <<>>]
    BY <1>2 DEF do_net_close
  <2> HIDE DEF s
  <2>3. Ok(e, own) /\ SameBut(s, e, {"n_refs", "free_list", "mqp", "tx_mqp", "tx_part"})
    BY <2>1, TxReset
  <2> HIDE DEF e
  <2>4. e.qos2_rx_cq = s.qos2_rx_cq /\ e.qos2_tx_cq = s.qos2_tx_cq
    BY <2>3 DEF SameBut, CtxFields
  <2>5. d.qos2_rx_cq = e.qos2_rx_cq /\ d.qos2_tx_cq = e.qos2_tx_cq
    BY <2>2
  <2>. QED  BY <2>1, <2>4, <2>5
<1>. QED  BY <1>1, <1>2

-----------------------------------------------------------------------------
\* The queues keep their type.
LEMMA QueueTypes ==
  ASSUME NEW cq \in CqType, NEW id \in Nat
  PROVE  /\ cq.n_free > 0 => qos2_pub_cq_logup(cq, id) \in CqType
         /\ qos2_pub_cq_unlog(cq, id) \in CqType
<1>0. MAX_PUBREL_INFLT \in Nat \ {0}
  BY CapacityNat
<1>1. /\ cq.id_vec \in [0..LastIdx -> Nat] /\ cq.n_free \in 0..MAX_PUBREL_INFLT
      /\ cq.rd_idx \in Nat /\ cq.wr_idx \in 0..LastIdx
      /\ DOMAIN cq = {"id_vec", "n_free", "rd_idx", "wr_idx"}
  BY DEF CqType
<1>2. \A i \in Nat : Masked(i) \in 0..LastIdx
  BY <1>0 DEF Masked, LastIdx
<1>3. cq.wr_idx + 1 \in Nat /\ cq.rd_idx + 1 \in Nat
  BY <1>0, <1>1 DEF LastIdx
<1>4. ASSUME cq.n_free > 0 PROVE qos2_pub_cq_logup(cq, id) \in CqType
  <2>1. [cq.id_vec EXCEPT ![cq.wr_idx] = id] \in [0..LastIdx -> Nat]
    BY <1>1
  <2>2. cq.n_free - 1 \in 0..MAX_PUBREL_INFLT
    BY <1>0, <1>1, <1>4
  <2>3. Masked(cq.wr_idx + 1) \in 0..LastIdx
    BY <1>2, <1>3
  <2> HIDE DEF Masked
  <2>. QED  BY <1>1, <2>1, <2>2, <2>3 DEF qos2_pub_cq_logup, CqType
<1>5. qos2_pub_cq_unlog(cq, id) \in CqType
  <2>1. CASE qos2_pub_cq_count(cq) = 0
    <3>1. ~UnlogSucceeds(cq, id)
      BY <2>1 DEF UnlogSucceeds
    <3>2. qos2_pub_cq_unlog(cq, id) = cq
      BY <2>1, <3>1 DEF qos2_pub_cq_unlog
    <3>. QED  BY <3>2
  <2>2. CASE qos2_pub_cq_count(cq) # 0 /\ UnlogSucceeds(cq, id)
    <3>1. cq.n_free + 1 \in 0..MAX_PUBREL_INFLT
      BY <1>0, <1>1, <2>2 DEF qos2_pub_cq_count, UnlogSucceeds
    <3>2. Masked(cq.rd_idx + 1) \in Nat
      BY <1>0, <1>2, <1>3 DEF LastIdx
    <3>3. qos2_pub_cq_unlog(cq, id) = [cq EXCEPT !.rd_idx = Masked(@ + 1), !.n_free = @ + 1]
      BY <2>2 DEF qos2_pub_cq_unlog
    <3> HIDE DEF Masked
    <3>. QED  BY <1>1, <3>1, <3>2, <3>3 DEF CqType
  <2>3. CASE qos2_pub_cq_count(cq) # 0 /\ ~UnlogSucceeds(cq, id)
    <3>1. qos2_pub_cq_unlog(cq, id) = [cq EXCEPT !.rd_idx = @ + 1]
      BY <2>3 DEF qos2_pub_cq_unlog
    <3>. QED  BY <1>1, <1>3, <3>1 DEF CqType
  <2>. QED  BY <2>1, <2>2, <2>3
<1>. QED  BY <1>4, <1>5

\* A packet that is freed is none of the wait list.
LEMMA FreeKeeps ==
  ASSUME NEW c, DOMAIN c = CtxFields, c.mqp \in [Packets -> AnyMsg], NEW p, p \notin Items(c.qos_ack1_wl),
         Items(c.qos_ack1_wl) \subseteq Packets,
         NEW d, d = mqp_free(c, p)
  PROVE  SameBut(c, d, {"n_refs", "free_list", "mqp"}) /\ Kept(c, d, {})
<1>1. SameBut(c, d, {"n_refs", "free_list", "mqp"})
  BY DEF mqp_free, SameBut, CtxFields
<1>2. d.mqp = [c.mqp EXCEPT ![p] = IF c.n_refs[p] = 1 THEN NoMsg ELSE @]
  BY DEF mqp_free, CtxFields
<1>3. \A q \in Items(c.qos_ack1_wl) : d.mqp[q] = c.mqp[q]
  BY <1>2
<1>. QED  BY <1>1, <1>3 DEF SameBut, CtxFields, Kept

\* A reset queue holds no id.
LEMMA ClosedTxQueue ==
  ASSUME NEW c, NEW own, Ok(c, own), NEW d, d = do_net_close(c)
  PROVE  d.qos2_tx_cq = c.qos2_tx_cq \/ d.qos2_tx_cq = qos2_pub_cq_reset
<1>0. DOMAIN c = CtxFields
  BY DEF Ok, IsCtx
<1> DEFINE s == CASE "CLEAN_SESSION" \in c.flags -> session_delete(c)
                  [] "CLEAN_SESSION" \notin c.flags /\ ~PROTO_V31 -> session_311fix(c)
                  [] OTHER -> c
<1>1. Ok(s, own) /\ (s.qos2_tx_cq = c.qos2_tx_cq \/ s.qos2_tx_cq = qos2_pub_cq_reset)
  <2>1. CASE "CLEAN_SESSION" \in c.flags
    <3> DEFINE e == session_delete(c)
               g == mqp_ack_wlist_purge(c)
    <3>1. Ok(g, own) /\ SameBut(c, g, {"n_refs", "free_list", "mqp", "qos_ack1_wl"})
          /\ g.qos_ack1_wl = <<>> /\ Kept(c, g, own)
      BY Purge
    <3>2. e = [g EXCEPT !.qos2_rx_cq = qos2_pub_cq_reset, !.qos2_tx_cq = qos2_pub_cq_reset]
      BY DEF session_delete
    <3>3. e.qos2_tx_cq = qos2_pub_cq_reset
      <4>1. DOMAIN g = CtxFields
        BY <3>1 DEF SameBut
      <4> HIDE DEF g, e
      <4>. QED  BY <3>2, <4>1 DEF CtxFields
    <3>4. Ok(e, own)
      BY SessionDeleted
    <3>. QED  BY <2>1, <3>3, <3>4
  <2>2. CASE "CLEAN_SESSION" \notin c.flags /\ ~PROTO_V31
    <3> DEFINE e == session_311fix(c)
    <3>1. Ok(e, own) /\ SameBut(c, e, {"qos_ack1_wl"})
      BY SessionFixed
    <3> HIDE DEF e
    <3>2. e.qos2_tx_cq = c.qos2_tx_cq
      BY <3>1 DEF SameBut, CtxFields
    <3>. QED  BY <2>2, <3>1, <3>2 DEF e
  <2>3. CASE ~("CLEAN_SESSION" \in c.flags) /\ PROTO_V31
    BY <2>3
  <2>. QED  BY <2>1, <2>2, <2>3
<1> HIDE DEF s
<1> DEFINE t == tx_part_reset(s)
<1>2. Ok(t, own) /\ SameBut(s, t, {"n_refs", "free_list", "mqp", "tx_mqp", "tx_part"})
      /\ t.tx_mqp = NULL /\ ~t.tx_part /\ Kept(s, t, own)
  BY <1>1, TxReset
<1> HIDE DEF t
<1>3. t.qos2_tx_cq = s.qos2_tx_cq /\ DOMAIN t = CtxFields
  BY <1>2 DEF SameBut, CtxFields
<1>4. d = IF ~c.net THEN c ELSE [t EXCEPT !.flags = @ \ ClosedFlags, !.net = FALSE, !.tx = <<>>]
  BY DEF do_net_close, t, s
<1>5. CASE ~c.net
  BY <1>4, <1>5
<1>6. CASE c.net
  BY <1>1, <1>3, <1>4, <1>6 DEF CtxFields
<1>. QED  BY <1>5, <1>6

\* The ids of the PUBRELs a resumed session sends are in the queue.
LEMMA ResendIds ==
  ASSUME NEW c, IsCtx(c), c.qos2_tx_cq \in CqType, NEW i \in 1..Len(ToResend(c)), i > Len(c.qos_ack1_wl)
  PROVE  \E j \in 0..LastIdx : ToResend(c)[i].msg.id = c.qos2_tx_cq.id_vec[j]
<1> DEFINE wl  == c.qos_ack1_wl
           cq  == c.qos2_tx_cq
           ids == PendingPubrel(c)
           n   == qos2_pub_cq_count(cq) - cq.rd_idx
           A   == [k \in DOMAIN wl |-> [mqp |-> wl[k], msg |-> c.mqp[wl[k]]]]
           B   == [k \in DOMAIN ids |-> [mqp |-> NULL, msg |-> VhMsg("PUBREL", ids[k])]]
<1>1. wl \in Seq(Packets) /\ ids \in Seq(Nat) /\ Len(wl) \in Nat /\ Len(ids) \in Nat
      /\ DOMAIN wl = 1..Len(wl) /\ DOMAIN ids = 1..Len(ids)
  BY PendingType DEF IsCtx
<1>2. ToResend(c) = A \o B
  BY DEF ToResend
<1>3. /\ \A k \in 1..Len(ids) : B[k].msg.id = ids[k]
      /\ B \in Seq(ItemType(wl)) /\ A \in Seq(ItemType(wl)) /\ Len(A) = Len(wl) /\ Len(B) = Len(ids)
  <2> HIDE DEF ids, wl
  <2>1. \A k \in 1..Len(ids) : ids[k] \in Nat
    BY <1>1
  <2>2. \A k \in 1..Len(ids) : VhMsg("PUBREL", ids[k]) \in AnyMsg /\ VhMsg("PUBREL", ids[k]).id = ids[k]
    BY <2>1, MsgTypes DEF PacketTypes
  <2>3. \A k \in 1..Len(ids) : B[k].msg.id = ids[k]
    BY <1>1, <2>2
  <2>4. B \in [1..Len(ids) -> ItemType(wl)]
    BY <1>1, <2>2 DEF ItemType
  <2>5. A \in [1..Len(wl) -> ItemType(wl)]
    <3>1. \A k \in 1..Len(wl) : wl[k] \in Packets /\ wl[k] \in Items(wl)
      BY <1>1 DEF Items
    <3>2. c.mqp \in [Packets -> AnyMsg]
      BY DEF IsCtx
    <3>. QED  BY <1>1, <3>1, <3>2 DEF ItemType
  <2> DEFINE T == ItemType(wl)
  <2> HIDE DEF A, B, T
  <2>8. B \in [1..Len(ids) -> T] /\ A \in [1..Len(wl) -> T] /\ Len(ids) \in Nat /\ Len(wl) \in Nat
    BY <1>1, <2>4, <2>5 DEF T
  <2>6. B \in Seq(T) /\ Len(B) = Len(ids)
    BY ONLY <2>8
  <2>7. A \in Seq(T) /\ Len(A) = Len(wl)
    BY ONLY <2>8
  <2>. QED  BY <2>3, <2>6, <2>7 DEF T
<1> HIDE DEF A, B, ids
<1>4. PICK k \in 1..Len(ids) : ToResend(c)[i] = B[k]
  <2> HIDE DEF wl
  <2>1. Len(A \o B) = Len(A) + Len(B) /\ \A x \in 1..(Len(A) + Len(B)) : (A \o B)[x] = IF x <= Len(A) THEN A[x] ELSE B[x - Len(A)]
    <3> DEFINE T == ItemType(wl)
    <3>1. A \in Seq(T) /\ B \in Seq(T)
      BY <1>3
    <3> HIDE DEF T
    <3>. QED  BY ONLY <3>1
  <2>2. i \in 1..(Len(wl) + Len(ids)) /\ i > Len(wl)
    BY <1>2, <1>3, <2>1 DEF wl
  <2>3. i - Len(wl) \in 1..Len(ids) /\ ToResend(c)[i] = B[i - Len(wl)]
    BY <1>1, <1>2, <1>3, <2>1, <2>2
  <2>. QED  BY <2>3
<1>5. ToResend(c)[i].msg.id = ids[k]
  BY <1>3, <1>4
<1>6. /\ cq.n_free \in 0..MAX_PUBREL_INFLT /\ cq.rd_idx \in Nat /\ qos2_pub_cq_count(cq) \in 0..MAX_PUBREL_INFLT
      /\ MAX_PUBREL_INFLT \in Nat
  BY SMTT(30), CapacityNat DEF CqType, qos2_pub_cq_count
<1>7. CASE cq.rd_idx >= qos2_pub_cq_count(cq)
  <2>1. ids = <<>>
    BY <1>7 DEF PendingPubrel, ids
  <2>. QED  BY <2>1
<1>8. CASE ~(cq.rd_idx >= qos2_pub_cq_count(cq))
  <2>1. ids = [x \in 1..n |-> IdAt(cq, cq.rd_idx + (x - 1))]
    BY ONLY <1>8, Zenon DEF PendingPubrel, ids
  <2>2. n \in Nat
    BY <1>6, <1>8
  <2> HIDE DEF cq, n
  <2>3. k \in 1..n
    BY <1>1, <2>1, <2>2
  <2>4. ids[k] = IdAt(cq, cq.rd_idx + (k - 1))
    BY <2>1, <2>3
  <2> DEFINE j == cq.rd_idx + (k - 1)
  <2>5. j \in 0..LastIdx /\ j < MAX_PUBREL_INFLT
    <3>1. \A q, r, m, x \in Nat : q <= m /\ x >= 1 /\ x <= q - r => r + (x - 1) \in 0..(m - 1) /\ r + (x - 1) < m
      OBVIOUS
    <3>2. k \in Nat /\ k >= 1 /\ k <= n
      BY <2>2, <2>3
    <3>3. qos2_pub_cq_count(cq) \in Nat /\ qos2_pub_cq_count(cq) <= MAX_PUBREL_INFLT /\ n = qos2_pub_cq_count(cq) - cq.rd_idx
      BY <1>6 DEF n
    <3>. QED  BY ONLY <1>6, <3>1, <3>2, <3>3 DEF LastIdx
  <2>6. ids[k] = cq.id_vec[j]
    BY <2>4, <2>5 DEF IdAt
  <2>. QED  BY <1>5, <2>5, <2>6 DEF cq
<1>. QED  BY <1>7, <1>8

\* A deleted session has no ids.
LEMMA DeletedIds ==
  ASSUME NEW c, NEW own, Ok(c, own), NEW d, d = session_delete(c)
  PROVE  \A i \in 0..LastIdx : d.qos2_tx_cq.id_vec[i] = 0
<1> DEFINE g == mqp_ack_wlist_purge(c)
<1>1. Ok(g, own) /\ SameBut(c, g, {"n_refs", "free_list", "mqp", "qos_ack1_wl"})
      /\ g.qos_ack1_wl = <<>> /\ Kept(c, g, own)
  BY Purge
<1>2. d = [g EXCEPT !.qos2_rx_cq = qos2_pub_cq_reset, !.qos2_tx_cq = qos2_pub_cq_reset]
  BY DEF session_delete
<1> HIDE DEF g
<1>3. d.qos2_tx_cq = qos2_pub_cq_reset
  BY <1>1, <1>2 DEF SameBut, CtxFields
<1>. QED  BY <1>3 DEF qos2_pub_cq_reset, LastIdx
=============================================================================
