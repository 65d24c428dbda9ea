--------------------------- MODULE Ranking_proofs ---------------------------
(***************************************************************************)
(* Proofs about the ranking: the queue of unranked postings, for every      *)
(* number of postings, batch size, budget and price of a call; and the      *)
(* owner's feedback it learns from, for any reasons, any number of open     *)
(* requests, clicks and faults.                                             *)
(***************************************************************************)
EXTENDS RankQueue, OwnerFeedback, FiniteSetTheorems, FunctionTheorems,
        SequenceTheorems, TLAPS

-----------------------------------------------------------------------------
(* The queue. *)

(* How many of I precede p. *)
Place(I, p) == Cardinality({j \in I : j < p})

(* The places of a finite set of numbers are those from none to all but one.  *)
LEMMA PlacesGrow ==
    ASSUME NEW I \in SUBSET Nat, IsFiniteSet(I)
    PROVE  /\ Cardinality(I) \in Nat
           /\ \A p \in I : Place(I, p) \in 0..(Cardinality(I) - 1)
           /\ \A p, q \in I : p < q => Place(I, p) < Place(I, q)
<1>1. ASSUME NEW p \in Nat PROVE IsFiniteSet({j \in I : j < p}) /\ Place(I, p) \in Nat
  BY FS_Subset, FS_CardinalityType DEF Place
<1>2. ASSUME NEW p \in I, NEW T \in SUBSET I, {j \in I : j < p} \subseteq T, p \in T
      PROVE  Place(I, p) < Cardinality(T)
  <2>1. IsFiniteSet(T) /\ Cardinality(T) \in Nat
    BY FS_Subset, FS_CardinalityType
  <2>2. {j \in I : j < p} # T
    BY <1>2
  <2> QED
    BY <1>1, <1>2, <2>1, <2>2, FS_Subset DEF Place
<1>3. Cardinality(I) \in Nat
  BY FS_CardinalityType
<1>4. ASSUME NEW p \in I PROVE Place(I, p) \in 0..(Cardinality(I) - 1)
  <2>1. Place(I, p) < Cardinality(I)
    BY <1>2
  <2>2. p \in Nat /\ Place(I, p) \in Nat
    BY <1>1
  <2> QED
    BY <1>3, <2>1, <2>2
<1>5. ASSUME NEW p \in I, NEW q \in I, p < q PROVE Place(I, p) < Place(I, q)
  <2>1. {j \in I : j < p} \subseteq {j \in I : j < q} /\ p \in {j \in I : j < q}
    <3>1. \A j \in I : j \in Nat
      OBVIOUS
    <3>2. \A j \in I : j < p => j < q
      BY <1>5, <3>1
    <3> QED
      BY <1>5, <3>2
  <2> QED
    BY <1>2, <2>1 DEF Place
<1> QED
  BY <1>3, <1>4, <1>5

(* Nth counts through a finite set of numbers: every one of them once.       *)
LEMMA NthCounts ==
    ASSUME NEW I \in SUBSET Nat, IsFiniteSet(I)
    PROVE  /\ \A k \in 1..Cardinality(I) : Nth(I, k) \in I
           /\ \A k, l \in 1..Cardinality(I) : Nth(I, k) = Nth(I, l) => k = l
           /\ \A i \in I : \E k \in 1..Cardinality(I) : Nth(I, k) = i
<1> DEFINE n == Cardinality(I)
           f == [p \in I |-> Place(I, p) + 1]
<1>1. /\ n \in Nat
      /\ \A p \in I : Place(I, p) \in 0..(n - 1)
      /\ \A p, q \in I : p < q => Place(I, p) < Place(I, q)
  BY PlacesGrow
<1>2. \A p, q \in I : Place(I, p) = Place(I, q) => p = q
  <2>1. ASSUME NEW p \in I, NEW q \in I, p # q PROVE Place(I, p) # Place(I, q)
    <3>1. p < q \/ q < p
      BY <2>1
    <3> QED
      BY <1>1, <3>1
  <2> QED
    BY <2>1
<1> HIDE DEF n
<1>3. f \in Injection(I, 1..n)
  <2>1. f \in [I -> 1..n]
    BY <1>1
  <2>2. \A p, q \in I : f[p] = f[q] => p = q
    BY <1>1, <1>2
  <2> QED
    BY <2>1, <2>2 DEF Injection, IsInjective
<1>4. IsFiniteSet(1..n) /\ Cardinality(1..n) = n
  BY <1>1, FS_Interval
<1>5. f \in Surjection(I, 1..n)
  BY <1>1, <1>3, <1>4, FS_Injection DEF n
<1>6. ASSUME NEW k \in 1..n PROVE Nth(I, k) \in I /\ Place(I, Nth(I, k)) = k - 1
  <2>1. PICK p \in I : f[p] = k
    BY <1>5 DEF Surjection
  <2>2. Place(I, p) = k - 1
    BY <1>1, <2>1
  <2>3. Nth(I, k) = CHOOSE i \in I : Place(I, i) = k - 1
    BY DEF Nth, Place
  <2> QED
    BY <2>2, <2>3
<1>7. ASSUME NEW i \in I PROVE \E k \in 1..n : Nth(I, k) = i
  <2>1. Place(I, i) + 1 \in 1..n
    BY <1>1
  <2>2. Place(I, Nth(I, Place(I, i) + 1)) = Place(I, i)
    BY <1>1, <1>6, <2>1
  <2> QED
    BY <1>2, <1>6, <2>1, <2>2
<1>8. ASSUME NEW k \in 1..n, NEW l \in 1..n, Nth(I, k) = Nth(I, l) PROVE k = l
  <2>1. k - 1 = l - 1
    BY <1>6, <1>8
  <2> QED
    BY <2>1
<1> QED
  BY <1>6, <1>7, <1>8 DEF n

(* The rows that are queued again: those at the unanswered positions of the   *)
(* batch, each once, and flagged.                                            *)
Requeues(m, answered) ==
    /\ m \in Seq(QueueRow)
    /\ \E at \in [DOMAIN m -> Unanswered(answered)] :
         /\ \A k \in DOMAIN m : m[k].id = cur[at[k]].id /\ m[k].retried
         /\ \A k, l \in DOMAIN m : at[k] = at[l] => k = l
         /\ \A i \in Unanswered(answered) : \E k \in DOMAIN m : at[k] = i

LEMMA MissedRequeues ==
    ASSUME cur \in Seq(QueueRow), NEW answered
    PROVE  Requeues(Missed(answered), answered)
<1> DEFINE I == Unanswered(answered)
           n == Cardinality(I)
           m == Missed(answered)
           at == [k \in 1..n |-> Nth(I, k)]
<1>1. Len(cur) \in Nat /\ DOMAIN cur = 1..Len(cur)
  BY LenProperties
<1>2. I \in SUBSET Nat /\ I \subseteq DOMAIN cur
  BY <1>1 DEF Unanswered
<1>3. IsFiniteSet(I) /\ n \in Nat
  <2> HIDE DEF I
  <2>1. IsFiniteSet(1..Len(cur))
    BY <1>1, FS_Interval
  <2>2. IsFiniteSet(I)
    BY <1>1, <1>2, <2>1, FS_Subset
  <2> QED
    BY <2>2, FS_CardinalityType
<1>4. m = [k \in 1..n |-> [id |-> cur[Nth(I, k)].id, retried |-> TRUE]]
  BY DEF Missed
<1>5. /\ \A k \in 1..n : Nth(I, k) \in I
      /\ \A k, l \in 1..n : Nth(I, k) = Nth(I, l) => k = l
      /\ \A i \in I : \E k \in 1..n : Nth(I, k) = i
  BY <1>2, <1>3, NthCounts
<1> HIDE DEF I, n, m
<1>6. \A i \in DOMAIN cur : cur[i] \in QueueRow
  BY <1>1, ElementOfSeq
<1>7. \A k \in 1..n : m[k] \in QueueRow
  BY <1>2, <1>4, <1>5, <1>6 DEF QueueRow
<1>8. m \in Seq(QueueRow) /\ DOMAIN m = 1..n
  <2>1. m \in [1..n -> QueueRow]
    BY <1>4, <1>7
  <2> QED
    BY <1>3, <2>1, IsASeq, SeqDef
<1>9. /\ at \in [DOMAIN m -> I]
      /\ \A k \in DOMAIN m : m[k].id = cur[at[k]].id /\ m[k].retried
      /\ \A k, l \in DOMAIN m : at[k] = at[l] => k = l
      /\ \A i \in I : \E k \in DOMAIN m : at[k] = i
  BY <1>4, <1>5, <1>8
<1> HIDE DEF at
<1> QED
  BY <1>8, <1>9 DEF Requeues, I, m

(* The invariant that is inductive. *)
QueueInv == QueueTypeOK /\ NothingTwice /\ RequeuedOnce /\ OneCallOver /\ Accounted

(* What the invariant says of the postings, for a queue of any form. *)
Placed(q, sc, al, ms, c) ==
    /\ q \in Seq(QueueRow)
    /\ \A i, j \in DOMAIN q : q[i].id = q[j].id => i = j
    /\ Ids(q) \cap sc = {}
    /\ \A i \in DOMAIN q : ms[q[i].id] = IF q[i].retried THEN 1 ELSE 0
    /\ \A p \in Postings : ms[p] <= 2 /\ (p \in Ids(q) \cup sc \cup al \/ ms[p] = 2 \/ c = "expired")

LEMMA PlacedByInvariant ==
    ASSUME QueueInv
    PROVE  Placed(Queue, scored, alone, misses, ctx)
<1>1. Queue \in Seq(QueueRow)
  BY ConcatProperties DEF Queue, QueueInv, QueueTypeOK
<1> QED
  BY <1>1 DEF Placed, QueueInv, NothingTwice, RequeuedOnce, Accounted

(* The rows of a sequence are of postings. *)
LEMMA IdsAre ==
    ASSUME NEW s \in Seq(QueueRow)
    PROVE  Ids(s) \subseteq Postings
<1>1. \A i \in DOMAIN s : s[i].id \in Postings
  <2>1. DOMAIN s = 1..Len(s)
    BY LenProperties
  <2>2. \A i \in DOMAIN s : s[i] \in QueueRow
    BY <2>1, ElementOfSeq
  <2> QED
    BY <2>2 DEF QueueRow
<1> QED
  BY <1>1 DEF Ids

(* The two parts of the queue. *)
LEMMA QueueParts ==
    ASSUME NEW b \in Seq(QueueRow), NEW p \in Seq(QueueRow)
    PROVE  /\ b \o p \in Seq(QueueRow)
           /\ Len(b) \in Nat /\ Len(p) \in Nat
           /\ DOMAIN b = 1..Len(b) /\ DOMAIN p = 1..Len(p)
           /\ DOMAIN (b \o p) = 1..(Len(b) + Len(p))
           /\ \A i \in DOMAIN b : i \in DOMAIN (b \o p) /\ (b \o p)[i] = b[i]
           /\ \A i \in DOMAIN p : Len(b) + i \in DOMAIN (b \o p) /\ (b \o p)[Len(b) + i] = p[i]
           /\ \A k \in DOMAIN (b \o p) :
                 \/ k \in DOMAIN b
                 \/ \E i \in DOMAIN p : k = Len(b) + i
           /\ Ids(b \o p) = Ids(b) \cup Ids(p)
<1> DEFINE s == b \o p
<1>1. /\ s \in Seq(QueueRow)
      /\ Len(s) = Len(b) + Len(p)
      /\ \A i \in 1..(Len(b) + Len(p)) : s[i] = IF i <= Len(b) THEN b[i] ELSE p[i - Len(b)]
  BY ConcatProperties
<1>2. /\ Len(b) \in Nat /\ Len(p) \in Nat
      /\ DOMAIN b = 1..Len(b) /\ DOMAIN p = 1..Len(p)
  BY LenProperties
<1>3. DOMAIN s = 1..(Len(b) + Len(p))
  BY <1>1, LenProperties
<1> HIDE DEF s
<1>4. \A i \in DOMAIN b : i \in DOMAIN s /\ s[i] = b[i]
  BY <1>1, <1>2, <1>3
<1>5. ASSUME NEW i \in DOMAIN p PROVE Len(b) + i \in DOMAIN s /\ s[Len(b) + i] = p[i]
  <2>1. i \in 1..Len(p) /\ Len(b) + i \in 1..(Len(b) + Len(p)) /\ ~(Len(b) + i <= Len(b))
        /\ Len(b) + i - Len(b) = i
    BY <1>2
  <2> QED
    BY <1>1, <1>3, <2>1
<1>6. ASSUME NEW k \in DOMAIN s, k \notin DOMAIN b PROVE \E i \in DOMAIN p : k = Len(b) + i
  <2>1. k - Len(b) \in 1..Len(p) /\ k = Len(b) + (k - Len(b))
    BY <1>2, <1>3, <1>6
  <2> QED
    BY <1>2, <2>1
<1>7. Ids(s) = Ids(b) \cup Ids(p)
  BY <1>4, <1>5, <1>6 DEF Ids
<1> QED
  BY <1>1, <1>2, <1>3, <1>4, <1>5, <1>6, <1>7 DEF s

(* A failed call: the batch goes back in front, or is given up. *)
LEMMA PlacedOnFailure ==
    ASSUME NEW b \in Seq(QueueRow), NEW p \in Seq(QueueRow), NEW sc, NEW al, NEW ms, NEW c,
           NEW al2, al \subseteq al2,
           Placed(b \o p, sc, al, ms, c),
           c = "expired" \/ Ids(b) \subseteq al2
    PROVE  Placed(p, sc, al2, ms, c)
<1> DEFINE q == b \o p
<1>1. /\ Len(b) \in Nat /\ DOMAIN p = 1..Len(p)
      /\ \A i \in DOMAIN p : Len(b) + i \in DOMAIN q /\ q[Len(b) + i] = p[i]
      /\ Ids(q) = Ids(b) \cup Ids(p)
  BY QueueParts
<1>2. Placed(q, sc, al, ms, c)
  OBVIOUS
<1> HIDE DEF q
<1>3. \A i, j \in DOMAIN p : p[i].id = p[j].id => i = j
  <2>1. ASSUME NEW i \in DOMAIN p, NEW j \in DOMAIN p, p[i].id = p[j].id PROVE i = j
    <3>1. Len(b) + i = Len(b) + j
      BY <1>1, <1>2, <2>1 DEF Placed
    <3>2. i \in Int /\ j \in Int
      BY <1>1
    <3> QED
      BY <1>1, <3>1, <3>2
  <2> QED
    BY <2>1
<1>4. \A i \in DOMAIN p : ms[p[i].id] = IF p[i].retried THEN 1 ELSE 0
  BY <1>1, <1>2 DEF Placed
<1> QED
  BY <1>1, <1>2, <1>3, <1>4 DEF Placed

(* An answer: what it left out goes back in front once. *)
LEMMA PlacedOnAnswer ==
    ASSUME cur \in Seq(QueueRow), NEW p \in Seq(QueueRow), NEW sc, NEW al, NEW c,
           NEW ms \in [Postings -> Nat],
           NEW answered \in SUBSET Ids(cur), NEW m, Requeues(m, answered),
           Placed(cur \o p, sc, al, ms, c)
    PROVE  Placed(m \o p, sc \cup answered, al,
                [x \in Postings |-> IF x \in Ids(cur) \ answered THEN ms[x] + 1 ELSE ms[x]], c)
<1> DEFINE q == cur \o p
           r == m \o p
           now == [x \in Postings |-> IF x \in Ids(cur) \ answered THEN ms[x] + 1 ELSE ms[x]]
<1>1. PICK at \in [DOMAIN m -> Unanswered(answered)] :
          /\ \A k \in DOMAIN m : m[k].id = cur[at[k]].id /\ m[k].retried
          /\ \A k, l \in DOMAIN m : at[k] = at[l] => k = l
          /\ \A i \in Unanswered(answered) : \E k \in DOMAIN m : at[k] = i
  BY DEF Requeues
<1>2. m \in Seq(QueueRow)
  BY DEF Requeues
<1>3. /\ Len(cur) \in Nat /\ DOMAIN p = 1..Len(p) /\ DOMAIN cur = 1..Len(cur)
      /\ \A i \in DOMAIN cur : i \in DOMAIN q /\ q[i] = cur[i]
      /\ \A i \in DOMAIN p : Len(cur) + i \in DOMAIN q /\ q[Len(cur) + i] = p[i]
      /\ Ids(q) = Ids(cur) \cup Ids(p)
  BY QueueParts
<1>4. /\ r \in Seq(QueueRow) /\ Len(m) \in Nat
      /\ \A i \in DOMAIN m : i \in DOMAIN r /\ r[i] = m[i]
      /\ \A i \in DOMAIN p : Len(m) + i \in DOMAIN r /\ r[Len(m) + i] = p[i]
      /\ \A k \in DOMAIN r : k \in DOMAIN m \/ \E i \in DOMAIN p : k = Len(m) + i
      /\ Ids(r) = Ids(m) \cup Ids(p)
  BY <1>2, QueueParts
<1>5. Placed(q, sc, al, ms, c)
  OBVIOUS
<1>6. \A i \in DOMAIN cur : cur[i] \in QueueRow
  BY <1>3, ElementOfSeq
<1>7. \A i \in DOMAIN p : p[i] \in QueueRow
  BY <1>3, ElementOfSeq
<1> HIDE DEF q, r, now
<1>8. \A i \in Unanswered(answered) : /\ i \in DOMAIN cur /\ ~cur[i].retried
                                      /\ cur[i].id \in Ids(cur) \ answered
  BY DEF Unanswered, Ids
<1>9. ASSUME NEW i \in DOMAIN p
      PROVE  /\ p[i].id \notin Ids(cur) /\ p[i].id \in Postings
             /\ now[p[i].id] = IF p[i].retried THEN 1 ELSE 0
  <2>1. ASSUME NEW j \in DOMAIN cur PROVE p[i].id # cur[j].id
    <3>1. j # Len(cur) + i
      BY <1>3
    <3> QED
      BY <1>3, <1>5, <3>1 DEF Placed
  <2>2. p[i].id \notin Ids(cur)
    BY <2>1 DEF Ids
  <2>3. p[i].id \in Postings
    BY <1>7 DEF QueueRow
  <2>4. ms[p[i].id] = IF p[i].retried THEN 1 ELSE 0
    BY <1>3, <1>5 DEF Placed
  <2> QED
    BY <2>2, <2>3, <2>4 DEF now
<1>10. ASSUME NEW k \in DOMAIN m
       PROVE  /\ at[k] \in DOMAIN cur /\ m[k].id = cur[at[k]].id
              /\ m[k].id \in Ids(cur) \ answered
              /\ now[m[k].id] = IF m[k].retried THEN 1 ELSE 0
  <2>1. at[k] \in DOMAIN cur /\ ~cur[at[k]].retried /\ cur[at[k]].id \in Ids(cur) \ answered
    BY <1>1, <1>8
  <2>2. ms[cur[at[k]].id] = 0
    BY <1>3, <1>5, <2>1 DEF Placed
  <2>3. cur[at[k]].id \in Postings
    BY <1>6, <2>1 DEF QueueRow
  <2> QED
    BY <1>1, <2>1, <2>2, <2>3 DEF now
<1>11. ASSUME NEW k \in DOMAIN m, NEW l \in DOMAIN m, m[k].id = m[l].id PROVE k = l
  <2>1. at[k] = at[l]
    BY <1>3, <1>5, <1>10, <1>11 DEF Placed
  <2> QED
    BY <1>1, <2>1
<1>12. ASSUME NEW i \in DOMAIN p, NEW j \in DOMAIN p, p[i].id = p[j].id PROVE i = j
  <2>1. Len(cur) + i = Len(cur) + j
    BY <1>3, <1>5, <1>12 DEF Placed
  <2>2. i \in Int /\ j \in Int
    BY <1>3
  <2> QED
    BY <1>3, <2>1, <2>2
<1>13. ASSUME NEW k \in DOMAIN r, NEW l \in DOMAIN r, r[k].id = r[l].id PROVE k = l
  <2>1. CASE k \in DOMAIN m /\ l \in DOMAIN m
    BY <1>4, <1>11, <1>13, <2>1
  <2>2. CASE k \in DOMAIN m /\ l \notin DOMAIN m
    <3>1. PICK j \in DOMAIN p : l = Len(m) + j /\ r[l] = p[j]
      BY <1>4, <2>2
    <3> QED
      BY <1>4, <1>9, <1>10, <1>13, <2>2, <3>1
  <2>3. CASE k \notin DOMAIN m /\ l \in DOMAIN m
    <3>1. PICK i \in DOMAIN p : k = Len(m) + i /\ r[k] = p[i]
      BY <1>4, <2>3
    <3> QED
      BY <1>4, <1>9, <1>10, <1>13, <2>3, <3>1
  <2>4. CASE k \notin DOMAIN m /\ l \notin DOMAIN m
    <3>1. PICK i \in DOMAIN p : k = Len(m) + i /\ r[k] = p[i]
      BY <1>4, <2>4
    <3>2. PICK j \in DOMAIN p : l = Len(m) + j /\ r[l] = p[j]
      BY <1>4, <2>4
    <3> QED
      BY <1>12, <1>13, <3>1, <3>2
  <2> QED
    BY <2>1, <2>2, <2>3, <2>4
<1>14. ASSUME NEW k \in DOMAIN r PROVE now[r[k].id] = IF r[k].retried THEN 1 ELSE 0
  <2>1. CASE k \in DOMAIN m
    <3>1. r[k] = m[k]
      BY <1>4, <2>1
    <3> QED
      BY <1>10, <2>1, <3>1
  <2>2. CASE k \notin DOMAIN m
    <3>1. PICK i \in DOMAIN p : r[k] = p[i]
      BY <1>4, <2>2
    <3> QED
      BY <1>9, <3>1
  <2> QED
    BY <2>1, <2>2
<1>15. Ids(r) \cap (sc \cup answered) = {}
  <2>1. Ids(q) \cap sc = {}
    BY <1>5 DEF Placed
  <2>2. Ids(m) \subseteq Ids(cur) \ answered
    BY <1>10 DEF Ids
  <2>3. Ids(p) \cap Ids(cur) = {}
    BY <1>9 DEF Ids
  <2> QED
    BY <1>3, <1>4, <2>1, <2>2, <2>3
<1>16. ASSUME NEW x \in Postings
       PROVE  /\ now[x] <= 2
              /\ x \in Ids(r) \cup (sc \cup answered) \cup al \/ now[x] = 2 \/ c = "expired"
  <2>1. ms[x] \in Nat /\ ms[x] <= 2 /\ (x \in Ids(q) \cup sc \cup al \/ ms[x] = 2 \/ c = "expired")
    BY <1>5 DEF Placed
  <2>2. CASE x \in Ids(cur) \ answered
    <3>1. PICK i \in DOMAIN cur : cur[i].id = x
      BY <2>2 DEF Ids
    <3>2. ms[x] = IF cur[i].retried THEN 1 ELSE 0
      BY <1>3, <1>5, <3>1 DEF Placed
    <3>3. CASE cur[i].retried
      BY <2>2, <3>2, <3>3 DEF now
    <3>4. CASE ~cur[i].retried
      <4>1. i \in Unanswered(answered)
        BY <2>2, <3>1, <3>4 DEF Unanswered
      <4>2. PICK k \in DOMAIN m : at[k] = i
        BY <1>1, <4>1
      <4>3. m[k].id = x
        BY <1>1, <3>1, <4>2
      <4>4. x \in Ids(m)
        BY <4>3 DEF Ids
      <4> QED
        BY <1>4, <2>2, <3>2, <3>4, <4>4 DEF now
    <3> QED
      BY <3>3, <3>4
  <2>3. CASE x \notin Ids(cur) \ answered
    <3>1. now[x] = ms[x]
      BY <2>3 DEF now
    <3> QED
      BY <1>3, <1>4, <2>1, <2>3, <3>1
  <2> QED
    BY <2>2, <2>3
<1> QED
  BY <1>4, <1>13, <1>14, <1>15, <1>16 DEF Placed, r, now

(* The initial states: every posting is queued once, and nothing is spent.   *)
LEMMA QueueInvInit == QueueInit => QueueInv
<1> SUFFICES ASSUME QueueInit PROVE QueueInv
  OBVIOUS
<1>1. pending \in [1..Unranked -> QueueRow] /\ \A p \in Postings : pending[p].id = p /\ ~pending[p].retried
  BY DEF QueueInit, Postings, QueueRow
<1>2. pending \in Seq(QueueRow) /\ DOMAIN pending = Postings
  BY <1>1, UnrankedAssumption, IsASeq DEF Postings
<1>3. Queue = pending /\ cur \in Seq(QueueRow)
  BY <1>2, ConcatEmptySeq, EmptySeq DEF QueueInit, Queue
<1>4. QueueTypeOK
  BY <1>2, <1>3, BatchAssumption, MoneyAssumption DEF QueueInit, QueueTypeOK
<1>5. Placed(pending, scored, alone, misses, ctx)
  <2>1. Ids(pending) = Postings
    BY <1>1, <1>2 DEF Ids
  <2>2. /\ \A p \in Postings : misses[p] = 0
        /\ scored = {} /\ alone = {}
    BY DEF QueueInit
  <2>3. \A i, j \in DOMAIN pending : pending[i].id = pending[j].id => i = j
    BY <1>1, <1>2
  <2>4. \A i \in DOMAIN pending : misses[pending[i].id] = IF pending[i].retried THEN 1 ELSE 0
    BY <1>1, <1>2, <2>2
  <2> QED
    BY <1>2, <2>1, <2>2, <2>3, <2>4 DEF Placed
<1> QED
  BY <1>3, <1>4, <1>5, MoneyAssumption
     DEF QueueInit, OneCallOver, QueueInv, Placed, NothingTwice, RequeuedOnce, Accounted

(* The batch that is sent leaves the queue, and both stay what they were.    *)
LEMMA SendSplits ==
    ASSUME QueueInv, Send
    PROVE  /\ cur' \in Seq(QueueRow) /\ pending' \in Seq(QueueRow)
           /\ Len(cur') \in 1..batch
           /\ Queue' = Queue
<1> DEFINE n == Least(batch, Len(pending))
<1>1. /\ pending \in Seq(QueueRow) /\ pending # <<>> /\ cur = <<>> /\ batch \in Nat \ {0}
      /\ cur' = SubSeq(pending, 1, n) /\ pending' = SubSeq(pending, n + 1, Len(pending))
  BY BatchAssumption DEF QueueInv, QueueTypeOK, Accounted, Send, Rest
<1>2. Len(pending) \in Nat \ {0}
  BY <1>1, LenProperties, EmptySeq
<1>3. n \in 1..Len(pending) /\ n \in 1..batch
  BY <1>1, <1>2 DEF Least
<1> HIDE DEF n
<1>4. \A i \in 1..Len(pending) : pending[i] \in QueueRow
  BY <1>1, ElementOfSeq
<1>5. cur' \in Seq(QueueRow) /\ Len(cur') = n
  BY <1>1, <1>2, <1>3, <1>4, SubSeqProperties
<1>6. pending' \in Seq(QueueRow)
  <2>1. n + 1 \in Int /\ Len(pending) \in Int /\ \A i \in (n + 1)..Len(pending) : pending[i] \in QueueRow
    BY <1>2, <1>3, <1>4
  <2> QED
    BY <1>1, <2>1, SubSeqProperties
<1>7. SubSeq(pending, 1, n) \o SubSeq(pending, n + 1, Len(pending)) = SubSeq(pending, 1, Len(pending))
  <2>1. 1 \in 1..(Len(pending) + 1) /\ n \in (1 - 1)..Len(pending) /\ Len(pending) \in n..Len(pending)
    BY <1>2, <1>3
  <2> QED
    BY <1>1, <2>1, ConcatAdjacentSubSeq
<1>8. Queue' = pending
  BY <1>1, <1>7, SubSeqFull DEF Queue
<1>9. Queue = pending
  BY <1>1, ConcatEmptySeq DEF Queue
<1> QED
  BY <1>3, <1>5, <1>6, <1>8, <1>9

(* Every step accounts for every posting. *)
LEMMA QueueInvStep == QueueInv /\ [QueueNext]_queueVars => QueueInv'
<1> SUFFICES ASSUME QueueInv, [QueueNext]_queueVars PROVE QueueInv'
  OBVIOUS
<1> USE BatchAssumption, MoneyAssumption
<1>1. /\ pending \in Seq(QueueRow) /\ cur \in Seq(QueueRow) /\ QueueTypeOK /\ OneCallOver
      /\ Placed(Queue, scored, alone, misses, ctx)
  BY PlacedByInvariant DEF QueueInv, QueueTypeOK
<1>0. ASSUME QueueTypeOK', OneCallOver', Placed(Queue, scored, alone, misses, ctx)',
             phase' # "call" => cur' = <<>>,
             phase' = "call" => Len(cur') \in 1..batch' /\ MayCall',
             phase' = "done" => pending' = <<>> \/ ~MayCall',
             phase' = "gate" => spent' = 0
      PROVE  QueueInv'
  BY <1>0 DEF Placed, QueueInv, NothingTwice, RequeuedOnce, Accounted
<1>2. ASSUME UNCHANGED <<pending, cur, batch, month, spent, scored, alone, misses>>,
             ctx' \in {ctx, "expired"}, phase' \in {"gate", "loop", "call", "done"},
             phase' # "call" => cur = <<>>,
             phase' = "call" => Len(cur) \in 1..batch /\ MayCall,
             phase' = "done" => pending = <<>> \/ ~MayCall,
             phase' = "gate" => spent = 0
      PROVE  QueueInv'
  <2>1. Placed(Queue, scored, alone, misses, ctx)'
    BY <1>1, <1>2 DEF Placed, Queue
  <2>2. QueueTypeOK' /\ OneCallOver'
    BY <1>1, <1>2 DEF QueueTypeOK, OneCallOver
  <2> QED
    BY <1>0, <1>2, <2>1, <2>2 DEF MayCall
<1>3. CASE Gate
  BY <1>1, <1>2, <1>3 DEF Gate, QueueInv, QueueTypeOK, Accounted, MayCall
<1>4. CASE Leave
  BY <1>1, <1>2, <1>4 DEF Leave, QueueInv, QueueTypeOK, Accounted
<1>5. CASE Send
  <2>1. /\ phase' = "call" /\ MayCall
        /\ UNCHANGED <<batch, month, spent, ctx, scored, alone, misses>>
    BY <1>5 DEF Send
  <2>2. cur' \in Seq(QueueRow) /\ pending' \in Seq(QueueRow) /\ Len(cur') \in 1..batch /\ Queue' = Queue
    BY <1>5, SendSplits
  <2>3. QueueTypeOK' /\ OneCallOver' /\ Placed(Queue, scored, alone, misses, ctx)'
    BY <1>1, <2>1, <2>2 DEF QueueTypeOK, OneCallOver, Placed
  <2> QED
    BY <1>0, <2>1, <2>2, <2>3 DEF MayCall
<1>6. ASSUME phase = "call", phase' = "loop", NEW c \in 0..MaxCallCost, spent' = spent + c, month' = month
      PROVE  spent' \in Nat /\ OneCallOver' /\ Len(cur) \in 1..batch
  <2>1. month + spent < Budget /\ Len(cur) \in 1..batch /\ month \in Nat /\ spent \in Nat
    BY <1>6 DEF QueueInv, QueueTypeOK, Accounted, MayCall
  <2> QED
    BY <1>6, <2>1 DEF OneCallOver
<1>7. ASSUME NEW c \in 0..MaxCallCost, CallFails(c) PROVE QueueInv'
  <2>1. /\ phase = "call" /\ phase' = "loop" /\ spent' = spent + c /\ cur' = <<>>
        /\ UNCHANGED <<month, ctx, scored, misses>>
        /\ alone' = IF Len(cur) = 1 THEN alone \cup Ids(cur) ELSE alone
        /\ \/ SplitAgain /\ batch' = Greatest(1, Len(cur) \div 2) /\ pending' = cur \o pending
           \/ ~SplitAgain /\ UNCHANGED <<batch, pending>>
    BY <1>7 DEF CallFails
  <2>2. spent' \in Nat /\ OneCallOver' /\ Len(cur) \in 1..batch
    BY <1>6, <2>1
  <2>3. cur' \in Seq(QueueRow) /\ (pending' \in Seq(QueueRow) => Queue' = pending')
    BY <2>1, EmptySeq, ConcatEmptySeq DEF Queue
  <2>4. alone' \in SUBSET Postings /\ alone \subseteq alone'
    <3>1. Ids(cur) \subseteq Postings
      BY <1>1, IdsAre
    <3> QED
      BY <1>1, <2>1, <3>1 DEF QueueTypeOK
  <2>5. CASE SplitAgain
    <3>1. batch' = Greatest(1, Len(cur) \div 2) /\ pending' = Queue
      BY <2>1, <2>5 DEF Queue
    <3>2. batch' \in 1..MaxBatch
      BY <1>1, <2>2, <3>1 DEF Greatest, QueueTypeOK
    <3>3. pending' \in Seq(QueueRow) /\ Queue' = Queue
      BY <1>1, <2>3, <3>1 DEF Placed
    <3>4. QueueTypeOK' /\ Placed(Queue, scored, alone, misses, ctx)'
      BY <1>1, <2>1, <2>2, <2>3, <2>4, <3>2, <3>3 DEF QueueTypeOK, Placed
    <3> QED
      BY <1>0, <2>1, <2>2, <3>4
  <2>6. CASE ~SplitAgain
    <3>1. UNCHANGED <<batch, pending>> /\ Queue' = pending
      BY <1>1, <2>1, <2>3, <2>6
    <3>2. ctx = "expired" \/ Ids(cur) \subseteq alone'
      <4>1. ctx = "live" => Len(cur) = 1
        <5>1. Len(cur) \in Nat /\ batch \in Nat
          BY <1>1, LenProperties DEF QueueTypeOK
        <5>2. Len(cur) >= 1
          BY <2>2, <5>1
        <5>3. ctx = "live" => ~(Len(cur) > 1)
          BY <2>6 DEF SplitAgain
        <5> DEFINE n == Len(cur)
        <5>4. n \in Nat /\ n >= 1 /\ (ctx = "live" => ~(n > 1))
          BY <5>1, <5>2, <5>3
        <5> HIDE DEF n
        <5>5. ctx = "live" => n = 1
          BY <5>4
        <5> QED
          BY <5>5 DEF n
      <4> QED
        BY <1>1, <2>1, <4>1 DEF QueueTypeOK
    <3>3. Placed(cur \o pending, scored, alone, misses, ctx)
      BY <1>1 DEF Queue
    <3>4. Placed(pending, scored, alone', misses, ctx)
      BY <1>1, <2>4, <3>2, <3>3, PlacedOnFailure
    <3>5. QueueTypeOK' /\ Placed(Queue, scored, alone, misses, ctx)'
      BY <1>1, <2>1, <2>2, <2>3, <2>4, <3>1, <3>4 DEF QueueTypeOK
    <3> QED
      BY <1>0, <2>1, <2>2, <3>5
  <2> QED
    BY <2>5, <2>6
<1>8. ASSUME NEW c \in 0..MaxCallCost, NEW answered \in SUBSET Ids(cur), CallAnswers(c, answered)
      PROVE  QueueInv'
  <2>1. /\ phase = "call" /\ phase' = "loop" /\ spent' = spent + c /\ cur' = <<>>
        /\ scored' = scored \cup answered
        /\ pending' = Missed(answered) \o pending
        /\ misses' = [p \in Postings |-> IF p \in Ids(cur) \ answered THEN misses[p] + 1 ELSE misses[p]]
        /\ batch' = Grown
        /\ UNCHANGED <<month, ctx, alone>>
    BY <1>8 DEF CallAnswers
  <2>2. spent' \in Nat /\ OneCallOver' /\ Len(cur) \in 1..batch
    BY <1>6, <2>1
  <2>3. batch' \in 1..MaxBatch
    BY <1>1, <2>1 DEF Grown, Least, QueueTypeOK
  <2>4. Requeues(Missed(answered), answered)
    BY <1>1, MissedRequeues
  <2>5. pending' \in Seq(QueueRow) /\ Queue' = pending' /\ cur' \in Seq(QueueRow)
    BY <1>1, <2>1, <2>4, ConcatProperties, ConcatEmptySeq, EmptySeq DEF Requeues, Queue
  <2>6. Placed(pending', scored', alone, misses', ctx)
    <3>1. Placed(cur \o pending, scored, alone, misses, ctx)
      BY <1>1 DEF Queue
    <3>2. misses \in [Postings -> Nat]
      BY <1>1 DEF QueueTypeOK
    <3>3. Placed(Missed(answered) \o pending, scored \cup answered, alone,
                 [x \in Postings |-> IF x \in Ids(cur) \ answered THEN misses[x] + 1 ELSE misses[x]], ctx)
      BY <1>1, <2>4, <3>1, <3>2, PlacedOnAnswer
    <3> QED
      BY <2>1, <3>3
  <2>7. scored' \in SUBSET Postings
    <3>1. Ids(cur) \subseteq Postings
      BY <1>1, IdsAre
    <3> QED
      BY <1>1, <2>1, <3>1 DEF QueueTypeOK
  <2>8. Placed(Queue, scored, alone, misses, ctx)'
    BY <2>1, <2>5, <2>6
  <2>9. QueueTypeOK'
    BY <1>1, <2>1, <2>2, <2>3, <2>5, <2>7 DEF QueueTypeOK
  <2> QED
    BY <1>0, <2>1, <2>2, <2>5, <2>6, <2>8, <2>9
<1>9. CASE Expire
  BY <1>1, <1>2, <1>9 DEF Expire, QueueInv, QueueTypeOK, Accounted
<1>10. CASE Finished \/ UNCHANGED queueVars
  BY <1>1, <1>2, <1>10 DEF Finished, queueVars, QueueInv, QueueTypeOK, Accounted
<1> QED
  BY <1>3, <1>4, <1>5, <1>7, <1>8, <1>9, <1>10 DEF QueueNext, Call

(* A run is never in a state the bookkeeping does not explain. *)
THEOREM QueueCorrect == QueueSpec => []QueueInv
BY QueueInvInit, QueueInvStep, PTL DEF QueueSpec

(* No posting is queued or in a call twice, and none that has a score is     *)
(* queued again, however the calls fail and whatever their replies leave out. *)
THEOREM NothingTwiceCorrect == QueueSpec => []NothingTwice
BY QueueCorrect, PTL DEF QueueInv

(* A run exceeds the budget by less than the price of one call. *)
THEOREM OneCallOverCorrect == QueueSpec => []OneCallOver
BY QueueCorrect, PTL DEF QueueInv

(* A run with money and time left gives a posting up only after it failed    *)
(* alone or was left out of two replies.                                     *)
THEOREM UnrankedForAReasonCorrect == QueueSpec => []UnrankedForAReason
<1>1. QueueInv => UnrankedForAReason
  <2> SUFFICES ASSUME QueueInv, phase = "done", month + spent < Budget, ctx = "live",
                      NEW p \in Postings, p \notin scored
               PROVE  p \in alone \/ misses[p] = 2
    BY DEF UnrankedForAReason
  <2>1. pending = <<>> /\ cur = <<>>
    BY DEF QueueInv, Accounted, MayCall
  <2>2. Ids(Queue) = {}
    BY <2>1 DEF Queue, Ids
  <2> QED
    BY <2>2 DEF QueueInv, Accounted
<1> QED
  BY <1>1, QueueCorrect, PTL

-----------------------------------------------------------------------------
(* The owner's feedback: what is read, sent and logged. *)

(* The rows, the requests, the pages and the entries there can be. *)
Reasoned == Reasons \cup {None}
Rows == [vote : Votes, note : {"empty", "cut"}, status : Statuses[radar], reason : Reasoned]
Asked ==
         [kind : {"vote"}, vote : {-1, 1}, cur : Votes]
    \cup [kind : {"note"}, note : Notes]
    \cup [kind : {"item"}, reason : Reasoned, status : Statuses[radar]]
Pages == [vote : Votes, note : {"empty", "long", "cut"}, status : Statuses[radar],
          select : Statuses[radar], why : BOOLEAN]
Actions == {"up", "down", "clear", "note", "trash", "restore", "status", "reason"}

Entry ==
         [action : {"up", "down", "clear"}, to : Votes, reason : Reasoned]
    \cup [action : {"note"}, to : {"empty", "cut"}, reason : Reasoned]
    \cup [action : {"trash", "restore", "status", "reason"}, to : Statuses[radar], reason : Reasoned]

FeedbackTypes ==
    /\ radar \in {"job", "grant"}
    /\ row \in Rows
    /\ page \in Pages
    /\ pc \in [Requests -> {"idle", "sent", "read", "written", "answered"}]
    /\ sent \in [Requests -> Asked \cup {NoRequest}]
    /\ \A i \in Requests : pc[i] # "idle" => sent[i] \in Asked
    /\ seen \in [Requests -> Rows]
    /\ heard \in [Requests -> BOOLEAN]
    /\ log \in Seq(Entry)

VoteEntry(e) ==
    /\ e.action = "up" => e.to = 1
    /\ e.action = "down" => e.to = -1
    /\ e.action = "clear" => e.to = 0

(* Every entry of a vote holds the vote, and the newest entry of any kind exists. *)
LogShape ==
    /\ \A k \in DOMAIN log : VoteEntry(log[k])
    /\ \A actions \in SUBSET Actions :
         Kept(actions) # {} => \E k \in Kept(actions) : \A j \in Kept(actions) : j <= k

(* What the log says of the item; x is its row. *)
LoggedVote == LastLogged({"up", "down", "clear"}, 0)
LoggedStatus == LastLogged({"trash", "restore", "status", "reason"}, First[radar])
LoggedNote == LastLogged({"note"}, "empty")
TrashLogged == \E k \in DOMAIN log : log[k].action = "trash"

LogTells(x) ==
    /\ LoggedVote = x.vote
    /\ LoggedStatus = x.status
    /\ LoggedNote = x.note
    /\ x.status \in Trashed => TrashLogged

(* What an item of each radar can be. *)
LEMMA StatusValues ==
    /\ Statuses["job"] = {"listed", "hidden"} /\ First["job"] = "listed"
    /\ Statuses["grant"] = {"open", "applied", "skip", "rejected"} /\ First["grant"] = "open"
  BY DEF Statuses, First

(* What a request of each kind carries. *)
LEMMA AskedKinds ==
    ASSUME NEW q \in Asked
    PROVE  /\ q.kind \in {"vote", "note", "item"}
           /\ q.kind = "vote" => q.vote \in {-1, 1} /\ q.cur \in Votes
           /\ q.kind = "note" => q.note \in Notes
           /\ q.kind = "item" => q.reason \in Reasoned /\ q.status \in Statuses[radar]
           /\ q # NoRequest
  BY DEF Asked, NoRequest

(* A statement changes the columns its request is about and no other. *)
LEMMA WrittenFields ==
    ASSUME NEW q \in Asked, NEW x \in Rows, NEW now \in Rows
    PROVE  /\ Written(q, x, now) \in Rows
           /\ Written(q, x, now).vote = IF q.kind = "vote" THEN Toggle(q, x) ELSE now.vote
           /\ Written(q, x, now).note = IF q.kind = "note" THEN Stored(q.note) ELSE now.note
           /\ Written(q, x, now).status = IF q.kind = "item" THEN q.status ELSE now.status
           /\ Written(q, x, now).reason = IF q.kind = "item" THEN Given(q, now) ELSE now.reason
<1> USE AskedKinds DEF Rows
<1>1. CASE q.kind = "vote"
  <2>1. Written(q, x, now) = [now EXCEPT !.vote = Toggle(q, x)]
    BY <1>1 DEF Written
  <2>2. Toggle(q, x) \in Votes
    BY <1>1 DEF Toggle, Votes
  <2> QED
    BY <1>1, <2>1, <2>2
<1>2. CASE q.kind = "note"
  <2>1. Written(q, x, now) = [now EXCEPT !.note = Stored(q.note)]
    BY <1>2 DEF Written
  <2>2. Stored(q.note) \in {"empty", "cut"}
    BY <1>2 DEF Stored, Notes
  <2> QED
    BY <1>2, <2>1, <2>2
<1>3. CASE q.kind = "item"
  <2>1. Written(q, x, now) = [now EXCEPT !.status = q.status, !.reason = Given(q, now)]
    BY <1>3 DEF Written
  <2>2. Given(q, now) \in Reasoned
    BY <1>3 DEF Given
  <2> QED
    BY <1>3, <2>1, <2>2
<1> QED
  BY <1>1, <1>2, <1>3

(* What is logged. *)
LEMMA EntriesAre ==
    ASSUME NEW q \in Asked, NEW x \in Rows, radar \in {"job", "grant"}
    PROVE  \/ Entries(q, x) = <<>> /\ q.kind = "item" /\ q.status = x.status
           \/ \E e \in Entry :
                /\ Entries(q, x) = <<e>>
                /\ q.kind = "vote" => e.to = Toggle(q, x) /\ e.action = VoteAction(e.to)
                /\ q.kind = "note" => e.to = Stored(q.note) /\ e.action = "note"
                /\ q.kind = "item" => /\ e.to = q.status
                                      /\ e.action \in {"trash", "restore", "status", "reason"}
                                      /\ q.status \in Trashed /\ q.status # x.status => e.action = "trash"
<1> USE AskedKinds
<1>1. CASE q.kind = "vote"
  <2> DEFINE v == Toggle(q, x)
             e == [action |-> VoteAction(v), to |-> v, reason |-> None]
  <2>1. v \in Votes /\ VoteAction(v) \in {"up", "down", "clear"}
    BY <1>1 DEF Toggle, Votes, VoteAction
  <2>2. e \in Entry
    BY <2>1 DEF Entry, Reasoned
  <2>3. Entries(q, x) = <<e>>
    BY <1>1 DEF Entries
  <2> QED
    BY <1>1, <2>2, <2>3
<1>2. CASE q.kind = "note"
  <2> DEFINE e == [action |-> "note", to |-> Stored(q.note), reason |-> None]
  <2>1. Stored(q.note) \in {"empty", "cut"}
    BY <1>2 DEF Stored, Notes
  <2>2. e \in Entry
    BY <2>1 DEF Entry, Reasoned
  <2>3. Entries(q, x) = <<e>>
    BY <1>2 DEF Entries
  <2> QED
    BY <1>2, <2>2, <2>3
<1>3. CASE q.kind = "item"
  <2>1. CASE StatusEntry(q, x) = <<>> /\ q.status = x.status
    <3>1. Entries(q, x) = <<>>
      BY <1>3, <2>1 DEF Entries
    <3> QED
      BY <1>3, <2>1, <3>1
  <2>2. ASSUME NEW a \in {"trash", "restore", "status", "reason"}, StatusEntry(q, x) = <<a>>,
               q.status \in Trashed /\ q.status # x.status => a = "trash"
        PROVE  \E e \in Entry :
                /\ Entries(q, x) = <<e>>
                /\ e.to = q.status
                /\ e.action \in {"trash", "restore", "status", "reason"}
                /\ q.status \in Trashed /\ q.status # x.status => e.action = "trash"
    <3> DEFINE e == [action |-> a, to |-> q.status, reason |-> q.reason]
    <3>1. e \in Entry
      BY <1>3 DEF Entry
    <3>2. Entries(q, x) = <<e>>
      BY <1>3, <2>2 DEF Entries
    <3> QED
      BY <2>2, <3>1, <3>2
  <2>3. \/ StatusEntry(q, x) = <<>> /\ q.status = x.status
        \/ \E a \in {"trash", "restore", "status", "reason"} :
             StatusEntry(q, x) = <<a>> /\ (q.status \in Trashed /\ q.status # x.status => a = "trash")
    <3>1. CASE q.status = x.status /\ q.reason # None
      <4>1. StatusEntry(q, x) = <<"reason">>
        BY <3>1 DEF StatusEntry
      <4> QED
        BY <3>1, <4>1
    <3>2. CASE q.status = x.status /\ q.reason = None /\ radar = "grant"
      <4>1. StatusEntry(q, x) = <<>>
        BY <3>2 DEF StatusEntry
      <4> QED
        BY <3>2, <4>1
    <3>3. CASE q.status \in Trashed /\ (q.status # x.status \/ (q.reason = None /\ radar = "job"))
      <4>1. StatusEntry(q, x) = <<"trash">>
        BY <3>3 DEF StatusEntry
      <4> QED
        BY <4>1
    <3>4. CASE q.status \notin Trashed /\ (q.status # x.status \/ (q.reason = None /\ radar = "job"))
      <4>1. StatusEntry(q, x) \in {<<"restore">>, <<"status">>}
        BY <3>4 DEF StatusEntry
      <4> QED
        BY <3>4, <4>1
    <3> QED
      BY <3>1, <3>2, <3>3, <3>4
  <2> QED
    BY <1>3, <2>1, <2>2, <2>3
<1> QED
  BY <1>1, <1>2, <1>3

(* The newest entry. *)
LEMMA NewestIs ==
    ASSUME log \in Seq(Entry), NEW actions, NEW k \in Kept(actions), \A j \in Kept(actions) : j <= k
    PROVE  Newest(actions) = log[k]
<1>1. \A i \in Kept(actions) : i \in Nat
  BY DEF Kept
<1>2. \A i \in Kept(actions) : (\A j \in Kept(actions) : j <= i) => i = k
  BY <1>1
<1> QED
  BY <1>2 DEF Newest

(* An entry that is added is the newest one of its kind and of no other. *)
LEMMA Appending ==
    ASSUME log \in Seq(Entry), LogShape, NEW e \in Entry, log' = Append(log, e),
           NEW actions \in SUBSET Actions, NEW default
    PROVE  /\ LastLogged(actions, default)' =
                 IF e.action \in actions THEN e.to ELSE LastLogged(actions, default)
           /\ Kept(actions)' # {} => \E k \in Kept(actions)' : \A j \in Kept(actions)' : j <= k
<1>1. /\ DOMAIN log = 1..Len(log) /\ Len(log) \in Nat /\ DOMAIN log' = 1..(Len(log) + 1)
      /\ log'[Len(log) + 1] = e /\ \A k \in DOMAIN log : log'[k] = log[k]
      /\ log' \in Seq(Entry)
  OBVIOUS
<1>2. CASE e.action \in actions
  <2>1. Len(log) + 1 \in Kept(actions)' /\ \A j \in Kept(actions)' : j <= Len(log) + 1
    BY <1>1, <1>2 DEF Kept
  <2>2. Newest(actions)' = log'[Len(log) + 1]
    <3>1. \A i \in Kept(actions)' : i \in Nat
      BY <1>1 DEF Kept
    <3>2. \A i \in Kept(actions)' : (\A j \in Kept(actions)' : j <= i) => i = Len(log) + 1
      BY <1>1, <2>1, <3>1
    <3> QED
      BY <2>1, <3>2 DEF Newest
  <2> QED
    BY <1>1, <1>2, <2>1, <2>2 DEF LastLogged
<1>3. CASE e.action \notin actions
  <2>1. Kept(actions)' = Kept(actions)
    BY <1>1, <1>3 DEF Kept
  <2>2. ASSUME Kept(actions) # {} PROVE Newest(actions)' = Newest(actions)
    <3>1. PICK k \in Kept(actions) : \A j \in Kept(actions) : j <= k
      BY <2>2 DEF LogShape
    <3>2. Newest(actions) = log[k]
      BY <3>1, NewestIs
    <3>3. \A i \in Kept(actions)' : (\A j \in Kept(actions)' : j <= i) => i = k
      BY <1>1, <2>1, <3>1 DEF Kept
    <3>4. Newest(actions)' = log'[k]
      BY <2>1, <3>1, <3>3 DEF Newest
    <3> QED
      BY <1>1, <3>1, <3>2, <3>4 DEF Kept
  <2> QED
    BY <1>3, <2>1, <2>2 DEF LastLogged, LogShape
<1> QED
  BY <1>2, <1>3

-----------------------------------------------------------------------------
(* Types. *)

(* The initial states. *)
LEMMA TypesInit == Init => FeedbackTypes /\ LogShape
<1> SUFFICES ASSUME Init PROVE FeedbackTypes /\ LogShape
  OBVIOUS
<1> USE StatusValues
<1>1. Fresh \in Rows /\ First[radar] \in Statuses[radar]
  BY DEF Init, Fresh, Rows, Votes, Reasoned
<1>2. page \in [vote : Votes, note : {"empty", "long", "cut"}, status : Statuses[radar],
                select : Statuses[radar], why : BOOLEAN]
  BY <1>1 DEF Init, Fresh, Loaded, Votes
<1>3. log = <<>> /\ log \in Seq(Entry) /\ DOMAIN log = {}
  BY DEF Init
<1>4. LogShape
  BY <1>3 DEF LogShape, Kept
<1> QED
  BY <1>1, <1>2, <1>3, <1>4 DEF Init, FeedbackTypes, Pages

(* These sets depend on the radar only. *)
LEMMA SetsStay ==
    ASSUME UNCHANGED radar
    PROVE  UNCHANGED <<Rows, Asked, Pages, Entry>>
  BY DEF Rows, Asked, Pages, Entry

(* What a click, and the end of requests, make of the requests. *)
LEMMA ClickOpens ==
    ASSUME FeedbackTypes, NEW q \in Asked, Click(q)
    PROVE  /\ \E i \in Requests :
                /\ pc[i] = "idle" /\ pc'[i] = "sent" /\ sent'[i] = q /\ heard'[i]
                /\ \A j \in Requests \ {i} : /\ pc'[j] = pc[j] /\ sent'[j] = sent[j]
                                             /\ heard'[j] = heard[j]
           /\ pc' \in [Requests -> {"idle", "sent", "read", "written", "answered"}]
           /\ sent' \in [Requests -> Asked \cup {NoRequest}]
           /\ heard' \in [Requests -> BOOLEAN]
           /\ UNCHANGED <<radar, row, log, seen>>
<1>1. PICK i \in Requests : /\ pc[i] = "idle"
                            /\ sent' = [sent EXCEPT ![i] = q]
                            /\ pc' = [pc EXCEPT ![i] = "sent"]
                            /\ heard' = [heard EXCEPT ![i] = TRUE]
  BY DEF Click
<1>2. /\ pc' \in [Requests -> {"idle", "sent", "read", "written", "answered"}]
      /\ sent' \in [Requests -> Asked \cup {NoRequest}]
  BY <1>1 DEF FeedbackTypes
<1>3. heard' \in [Requests -> BOOLEAN] /\ heard'[i] /\ \A j \in Requests \ {i} : heard'[j] = heard[j]
  BY <1>1 DEF FeedbackTypes
<1>4. UNCHANGED <<radar, row, log, seen>>
  BY DEF Click
<1>5. pc'[i] = "sent" /\ sent'[i] = q /\ \A j \in Requests \ {i} : pc'[j] = pc[j] /\ sent'[j] = sent[j]
  BY <1>1 DEF FeedbackTypes
<1> QED
  BY <1>1, <1>2, <1>3, <1>4, <1>5

(* What the end of some requests makes of them and of the others. *)
LEMMA CloseEnds ==
    ASSUME FeedbackTypes, NEW done \in SUBSET Requests, Close(done), UNCHANGED radar
    PROVE  /\ \A j \in done : pc'[j] = "idle"
           /\ \A j \in Requests \ done : pc'[j] = pc[j] /\ sent'[j] = sent[j] /\ seen'[j] = seen[j]
           /\ pc' \in [Requests -> {"idle", "sent", "read", "written", "answered"}]
           /\ sent' \in [Requests -> Asked \cup {NoRequest}]
           /\ seen' \in [Requests -> Rows]
           /\ \A j \in Requests : pc'[j] # "idle" => sent'[j] \in Asked
<1>1. Fresh \in Rows
  BY StatusValues DEF Fresh, Rows, Votes, Reasoned, FeedbackTypes
<1> QED
  BY <1>1 DEF Close, FeedbackTypes

(* The requests that the page sends. *)
Clicked(q) ==
    \/ \E v \in {-1, 1} :
         /\ q = [kind |-> "vote", vote |-> v, cur |-> page.vote]
         /\ page' = [page EXCEPT !.vote = IF v = page.vote THEN 0 ELSE v]
    \/ \E note \in Notes : q = [kind |-> "note", note |-> note] /\ page' = page
    \/ \E s \in Statuses[radar] :
         /\ q = [kind |-> "item", reason |-> None, status |-> s]
         /\ \/ radar = "job" /\ page' = page
            \/ radar = "grant" /\ page' = [page EXCEPT !.select = s]
    \/ \E reason \in Reasons :
         /\ page.why /\ page' = page
         /\ q = [kind |-> "item", reason |-> reason,
                 status |-> IF radar = "job" THEN "hidden" ELSE page.select]

ClickStep == \E q \in Asked : Click(q) /\ Clicked(q)

(* Whatever the owner clicks opens one request and paints what belongs to it. *)
LEMMA ClicksAre ==
    ASSUME FeedbackTypes,
           \/ \E v \in {-1, 1} : Thumb(v)
           \/ \E note \in Notes : SaveNote(note)
           \/ TrashButton
           \/ \E s \in Statuses["grant"] : Select(s)
           \/ \E reason \in Reasons : Chip(reason)
    PROVE  ClickStep
<1> USE StatusValues
<1>1. ASSUME NEW v \in {-1, 1}, Thumb(v) PROVE ClickStep
  <2> DEFINE q == [kind |-> "vote", vote |-> v, cur |-> page.vote]
  <2>1. q \in Asked
    BY DEF Asked, FeedbackTypes, Pages
  <2>2. Click(q) /\ Clicked(q)
    BY <1>1 DEF Thumb, Clicked
  <2> QED
    BY <2>1, <2>2 DEF ClickStep
<1>2. ASSUME NEW note \in Notes, SaveNote(note) PROVE ClickStep
  <2> DEFINE q == [kind |-> "note", note |-> note]
  <2>1. q \in Asked
    BY DEF Asked
  <2>2. Click(q) /\ Clicked(q)
    BY <1>2 DEF SaveNote, Clicked
  <2> QED
    BY <2>1, <2>2 DEF ClickStep
<1>3. CASE TrashButton
  <2> DEFINE s == IF page.status = "hidden" THEN "listed" ELSE "hidden"
             q == [kind |-> "item", reason |-> None, status |-> s]
  <2>1. radar = "job" /\ s \in Statuses[radar]
    BY <1>3 DEF TrashButton
  <2>2. q \in Asked
    BY <2>1 DEF Asked, Reasoned
  <2>3. Click(q) /\ Clicked(q)
    BY <1>3, <2>1 DEF TrashButton, Clicked
  <2> QED
    BY <2>2, <2>3 DEF ClickStep
<1>4. ASSUME NEW s \in Statuses["grant"], Select(s) PROVE ClickStep
  <2> DEFINE q == [kind |-> "item", reason |-> None, status |-> s]
  <2>1. radar = "grant" /\ s \in Statuses[radar]
    BY <1>4 DEF Select
  <2>2. q \in Asked
    BY <2>1 DEF Asked, Reasoned
  <2>3. Click(q) /\ Clicked(q)
    BY <1>4, <2>1 DEF Select, Clicked
  <2> QED
    BY <2>2, <2>3 DEF ClickStep
<1>5. ASSUME NEW reason \in Reasons, Chip(reason) PROVE ClickStep
  <2> DEFINE s == IF radar = "job" THEN "hidden" ELSE page.select
             q == [kind |-> "item", reason |-> reason, status |-> s]
  <2>1. s \in Statuses[radar]
    BY DEF FeedbackTypes, Pages
  <2>2. q \in Asked
    BY <2>1 DEF Asked, Reasoned
  <2>3. Click(q) /\ Clicked(q)
    BY <1>5 DEF Chip, Clicked
  <2> QED
    BY <2>2, <2>3 DEF ClickStep
<1> QED
  BY <1>1, <1>2, <1>3, <1>4, <1>5

(* An answer and a failure paint what the page can show. *)
LEMMA AnsweredType ==
    ASSUME FeedbackTypes, NEW q \in Asked, NEW x \in Rows
    PROVE  Answered(q, x) \in Pages /\ Failed(q) \in Pages
<1> USE AskedKinds DEF Pages, FeedbackTypes
<1>1. CASE q.kind = "vote"
  <2>1. Toggle(q, x) \in Votes
    BY <1>1 DEF Toggle, Votes
  <2>2. Answered(q, x) = [page EXCEPT !.vote = Toggle(q, x)] /\ Failed(q) = [page EXCEPT !.vote = q.cur]
    BY <1>1 DEF Answered, Failed
  <2> QED
    BY <1>1, <2>1, <2>2
<1>2. CASE q.kind = "note"
  <2>1. Answered(q, x) = [page EXCEPT !.note = q.note] /\ Failed(q) = page
    BY <1>2 DEF Answered, Failed
  <2> QED
    BY <1>2, <2>1 DEF Notes
<1>3. CASE q.kind = "item" /\ q.reason # None
  <2>1. Answered(q, x) = [page EXCEPT !.why = FALSE] /\ Failed(q) = page
    BY <1>3 DEF Answered, Failed
  <2> QED
    BY <2>1
<1>4. CASE q.kind = "item" /\ q.reason = None
  <2>1. /\ Answered(q, x) = [page EXCEPT !.status = q.status, !.why = AskReason(q, x)]
        /\ Failed(q) = [page EXCEPT !.select = page.status]
    BY <1>4 DEF Answered, Failed
  <2>2. AskReason(q, x) \in BOOLEAN
    BY DEF AskReason
  <2> QED
    BY <1>4, <2>1, <2>2
<1> QED
  BY <1>1, <1>2, <1>3, <1>4

(* Every step keeps the types. *)
LEMMA TypesStep == FeedbackTypes /\ [Next]_vars => FeedbackTypes'
<1> SUFFICES ASSUME FeedbackTypes, [Next]_vars PROVE FeedbackTypes'
  OBVIOUS
<1>1. ASSUME NEW q \in Asked, Click(q), Clicked(q) PROVE FeedbackTypes'
  <2>1. page' \in Pages
    <3>1. 0 \in Votes /\ -1 \in Votes /\ 1 \in Votes
      BY DEF Votes
    <3> QED
      BY <1>1, <3>1 DEF Clicked, Pages, FeedbackTypes
  <2>2. \A j \in Requests : pc'[j] # "idle" => sent'[j] \in Asked
    BY <1>1, ClickOpens DEF FeedbackTypes
  <2> QED
    BY SetsStay, <1>1, <2>1, <2>2, ClickOpens DEF FeedbackTypes
<1>2. CASE SkipReason
  <2>1. UNCHANGED <<radar, row, log, request>> /\ page' = [page EXCEPT !.why = FALSE]
    BY <1>2 DEF SkipReason
  <2>2. page' \in Pages
    BY <2>1 DEF FeedbackTypes, Pages
  <2> QED
    BY <2>1, <2>2, SetsStay DEF FeedbackTypes, request
<1>3. CASE Reload
  <2> DEFINE done == {i \in Requests : pc[i] = "answered"}
  <2>1. Close(done) /\ UNCHANGED <<radar, row, log>> /\ heard' \in [Requests -> BOOLEAN] /\ page' = Loaded(row)
    BY <1>3 DEF Reload
  <2>2. page' \in Pages
    BY <2>1 DEF Loaded, Pages, FeedbackTypes, Rows
  <2> QED
    BY SetsStay, <2>1, <2>2, CloseEnds DEF FeedbackTypes
<1>4. ASSUME NEW i \in Requests, Read(i) PROVE FeedbackTypes'
  <2>1. /\ seen' \in [Requests -> Rows]
        /\ pc' \in [Requests -> {"idle", "sent", "read", "written", "answered"}]
        /\ \A j \in Requests : pc'[j] # "idle" => pc[j] # "idle"
    BY <1>4 DEF Read, FeedbackTypes
  <2> QED
    BY SetsStay, <1>4, <2>1 DEF Read, FeedbackTypes
<1>5. ASSUME NEW i \in Requests, Answer(i) PROVE FeedbackTypes'
  <2>1. Close({i}) /\ UNCHANGED <<radar, row, log>> /\ pc[i] = "answered"
    BY <1>5 DEF Answer
  <2>2. heard' \in [Requests -> BOOLEAN]
    BY <1>5 DEF Answer, FeedbackTypes
  <2>3. page' = Answered(sent[i], seen[i]) \/ page' = page
    BY <1>5 DEF Answer
  <2>4. sent[i] \in Asked /\ seen[i] \in Rows /\ page \in Pages
    BY <2>1 DEF FeedbackTypes
  <2>5. page' \in Pages
    BY <2>3, <2>4, AnsweredType
  <2> QED
    BY SetsStay, <2>1, <2>2, <2>5, CloseEnds DEF FeedbackTypes
<1>6. ASSUME NEW i \in Requests, Lose(i) PROVE FeedbackTypes'
  <2>1. UNCHANGED <<radar, row, log, sent, pc, seen>> /\ pc[i] # "idle" /\ page' = Failed(sent[i])
    BY <1>6 DEF Lose
  <2>2. heard' \in [Requests -> BOOLEAN]
    BY <1>6 DEF Lose, FeedbackTypes
  <2>3. sent[i] \in Asked /\ row \in Rows
    BY <2>1 DEF FeedbackTypes
  <2>4. page' \in Pages
    BY <2>1, <2>3, AnsweredType
  <2> QED
    BY SetsStay, <2>1, <2>2, <2>4 DEF FeedbackTypes
<1>7. ASSUME NEW i \in Requests, Cut(i) PROVE FeedbackTypes'
  <2>1. Close({i}) /\ UNCHANGED <<radar, row, log, heard, page>>
    BY <1>7 DEF Cut
  <2> QED
    BY SetsStay, <2>1, CloseEnds DEF FeedbackTypes
<1>8. ASSUME NEW i \in Requests, NEW ok \in BOOLEAN, Write(i, ok) PROVE FeedbackTypes'
  <2>1. /\ UNCHANGED <<radar, log, page, sent, seen, heard>> /\ pc[i] = "read"
        /\ pc' = [pc EXCEPT ![i] = "written"]
        /\ row' = Written(sent[i], seen[i], row) \/ row' = row
    BY <1>8 DEF Write
  <2>2. row' \in Rows
    BY <2>1, WrittenFields DEF FeedbackTypes
  <2>3. /\ pc' \in [Requests -> {"idle", "sent", "read", "written", "answered"}]
        /\ \A j \in Requests : pc'[j] # "idle" => pc[j] # "idle"
    BY <2>1 DEF FeedbackTypes
  <2> QED
    BY SetsStay, <2>1, <2>2, <2>3 DEF FeedbackTypes
<1>9. ASSUME NEW i \in Requests, NEW ok \in BOOLEAN, Log(i, ok) PROVE FeedbackTypes'
  <2>1. /\ UNCHANGED <<radar, row, page, sent, seen, heard>> /\ pc[i] = "written"
        /\ pc' = [pc EXCEPT ![i] = "answered"]
        /\ log' = log \o Entries(sent[i], seen[i]) \/ log' = log
    BY <1>9 DEF Log
  <2>2. Entries(sent[i], seen[i]) \in Seq(Entry)
    <3>1. sent[i] \in Asked /\ seen[i] \in Rows /\ radar \in {"job", "grant"}
      BY <2>1 DEF FeedbackTypes
    <3>2. Entries(sent[i], seen[i]) = <<>> \/ \E e \in Entry : Entries(sent[i], seen[i]) = <<e>>
      BY <3>1, EntriesAre
    <3>3. \A e \in Entry : <<e>> \in Seq(Entry)
      OBVIOUS
    <3> QED
      BY <3>2, <3>3, EmptySeq
  <2>3. log' \in Seq(Entry)
    BY <2>1, <2>2, ConcatProperties DEF FeedbackTypes
  <2>4. /\ pc' \in [Requests -> {"idle", "sent", "read", "written", "answered"}]
        /\ \A j \in Requests : pc'[j] # "idle" => pc[j] # "idle"
    BY <2>1 DEF FeedbackTypes
  <2> QED
    BY SetsStay, <2>1, <2>3, <2>4 DEF FeedbackTypes
<1>10. CASE UNCHANGED vars
  BY <1>10, SetsStay DEF vars, request, FeedbackTypes
<1> QED
  BY <1>1, <1>2, <1>3, <1>4, <1>5, <1>6, <1>7, <1>8, <1>9, <1>10, ClicksAre DEF Next, ClickStep

-----------------------------------------------------------------------------
(* The log. *)

(* A handler logs nothing or one entry. *)
LEMMA LogAdds ==
    ASSUME FeedbackTypes, NEW i \in Requests, NEW ok \in BOOLEAN, Log(i, ok)
    PROVE  log' = log \/ \E e \in Entry : log' = Append(log, e) /\ Entries(sent[i], seen[i]) = <<e>>
<1>1. /\ log' = log \o Entries(sent[i], seen[i]) \/ log' = log
      /\ sent[i] \in Asked /\ seen[i] \in Rows /\ radar \in {"job", "grant"} /\ log \in Seq(Entry)
  BY DEF Log, FeedbackTypes
<1>2. Entries(sent[i], seen[i]) = <<>> \/ \E e \in Entry : Entries(sent[i], seen[i]) = <<e>>
  BY <1>1, EntriesAre
<1>3. \A e \in Entry : log \o <<e>> = Append(log, e)
  BY <1>1, AppendIsConcat
<1>4. log \o <<>> = log
  BY <1>1, ConcatEmptySeq
<1> QED
  BY <1>1, <1>2, <1>3, <1>4

(* Only a handler that logs changes the log. *)
LEMMA LogOnly ==
    ASSUME FeedbackTypes, [Next]_vars, ~\E i \in Requests, ok \in BOOLEAN : Log(i, ok)
    PROVE  UNCHANGED <<radar, log>>
<1>1. CASE ClickStep
  BY <1>1, ClickOpens DEF ClickStep
<1>2. CASE SkipReason \/ Reload \/ UNCHANGED vars
  BY <1>2 DEF SkipReason, Reload, vars
<1>3. ASSUME NEW i \in Requests, Read(i) \/ Answer(i) \/ Lose(i) \/ Cut(i) PROVE UNCHANGED <<radar, log>>
  BY <1>3 DEF Read, Answer, Lose, Cut
<1>4. ASSUME NEW i \in Requests, NEW ok \in BOOLEAN, Write(i, ok) PROVE UNCHANGED <<radar, log>>
  BY <1>4 DEF Write
<1> QED
  BY <1>1, <1>2, <1>3, <1>4, ClicksAre DEF Next

(* Every step keeps the shape of the log. *)
LEMMA LogShapeStep == FeedbackTypes /\ LogShape /\ [Next]_vars => LogShape'
<1> SUFFICES ASSUME FeedbackTypes, LogShape, [Next]_vars PROVE LogShape'
  OBVIOUS
<1>1. ASSUME NEW i \in Requests, NEW ok \in BOOLEAN, Log(i, ok) PROVE LogShape'
  <2>1. CASE log' = log
    BY <2>1 DEF LogShape, Kept
  <2>2. ASSUME NEW e \in Entry, log' = Append(log, e), Entries(sent[i], seen[i]) = <<e>>
        PROVE  LogShape'
    <3>1. sent[i] \in Asked /\ seen[i] \in Rows /\ radar \in {"job", "grant"} /\ log \in Seq(Entry)
      BY <1>1 DEF Log, FeedbackTypes
    <3>2. VoteEntry(e)
      <4>1. PICK f \in Entry :
              /\ <<e>> = <<f>>
              /\ sent[i].kind = "vote" => f.to = Toggle(sent[i], seen[i]) /\ f.action = VoteAction(f.to)
              /\ sent[i].kind = "note" => f.to = Stored(sent[i].note) /\ f.action = "note"
              /\ sent[i].kind = "item" => f.action \in {"trash", "restore", "status", "reason"}
        BY <2>2, <3>1, EntriesAre
      <4>2. e = f
        BY <4>1
      <4>3. sent[i].kind \in {"vote", "note", "item"}
        BY <3>1, AskedKinds
      <4>4. sent[i].kind = "vote" => Toggle(sent[i], seen[i]) \in Votes
        BY <3>1, AskedKinds DEF Toggle, Votes
      <4> QED
        BY <4>1, <4>2, <4>3, <4>4 DEF VoteAction, Votes, VoteEntry
    <3>3. /\ DOMAIN log' = DOMAIN log \cup {Len(log) + 1} /\ log'[Len(log) + 1] = e
          /\ \A k \in DOMAIN log : log'[k] = log[k]
      BY <2>2, <3>1
    <3>4. \A k \in DOMAIN log' : VoteEntry(log'[k])
      BY <3>2, <3>3 DEF LogShape, VoteEntry
    <3>5. \A actions \in SUBSET Actions :
            Kept(actions)' # {} => \E k \in Kept(actions)' : \A j \in Kept(actions)' : j <= k
      BY <2>2, <3>1, Appending
    <3> QED
      BY <3>4, <3>5 DEF LogShape, VoteEntry
  <2> QED
    BY <1>1, <2>1, <2>2, LogAdds
<1>2. CASE ~\E i \in Requests, ok \in BOOLEAN : Log(i, ok)
  <2>1. log' = log
    BY <1>2, LogOnly
  <2> QED
    BY <2>1 DEF LogShape, Kept
<1> QED
  BY <1>1, <1>2

(* What the log tells depends on the log only. *)
LEMMA LoggedStay ==
    ASSUME UNCHANGED <<radar, log>>
    PROVE  UNCHANGED <<LoggedVote, LoggedStatus, LoggedNote>> /\ (TrashLogged => TrashLogged')
  BY DEF LoggedVote, LoggedStatus, LoggedNote, TrashLogged, LastLogged, Newest, Kept

(* A handler that read x and logs what q asks for brings the log up to date. *)
LEMMA LogCatchesUp ==
    ASSUME FeedbackTypes, LogShape, NEW q \in Asked, NEW x \in Rows, LogTells(x),
           log' = log \o Entries(q, x), UNCHANGED radar
    PROVE  /\ LoggedVote' = Written(q, x, x).vote
           /\ LoggedStatus' = Written(q, x, x).status
           /\ LoggedNote' = Written(q, x, x).note
           /\ Written(q, x, x).status \in Trashed => TrashLogged'
<1> DEFINE w == Written(q, x, x)
<1>1. /\ w.vote = IF q.kind = "vote" THEN Toggle(q, x) ELSE x.vote
      /\ w.note = IF q.kind = "note" THEN Stored(q.note) ELSE x.note
      /\ w.status = IF q.kind = "item" THEN q.status ELSE x.status
  BY WrittenFields
<1> HIDE DEF w
<1>2. q.kind \in {"vote", "note", "item"} /\ radar \in {"job", "grant"} /\ log \in Seq(Entry)
  BY AskedKinds DEF FeedbackTypes
<1>3. LoggedVote = x.vote /\ LoggedStatus = x.status /\ LoggedNote = x.note /\ (x.status \in Trashed => TrashLogged)
  BY DEF LogTells
<1>4. CASE Entries(q, x) = <<>> /\ q.kind = "item" /\ q.status = x.status
  <2>1. UNCHANGED <<radar, log>>
    BY <1>2, <1>4, ConcatEmptySeq
  <2> QED
    BY <1>1, <1>3, <1>4, <2>1, LoggedStay DEF w
<1>5. ASSUME NEW e \in Entry, Entries(q, x) = <<e>>,
             q.kind = "vote" => e.to = Toggle(q, x) /\ e.action = VoteAction(e.to),
             q.kind = "note" => e.to = Stored(q.note) /\ e.action = "note",
             q.kind = "item" => /\ e.to = q.status
                                /\ e.action \in {"trash", "restore", "status", "reason"}
                                /\ q.status \in Trashed /\ q.status # x.status => e.action = "trash"
      PROVE  /\ LoggedVote' = w.vote
             /\ LoggedStatus' = w.status
             /\ LoggedNote' = w.note
             /\ w.status \in Trashed => TrashLogged'
  <2>1. log' = Append(log, e)
    BY <1>2, <1>5, AppendIsConcat
  <2>3. LoggedVote' = IF e.action \in {"up", "down", "clear"} THEN e.to ELSE LoggedVote
    BY <2>1, <1>2, Appending DEF LoggedVote, Actions
  <2>4. LoggedStatus' = IF e.action \in {"trash", "restore", "status", "reason"} THEN e.to ELSE LoggedStatus
    <3>1. \A d : LastLogged({"trash", "restore", "status", "reason"}, d)' =
            IF e.action \in {"trash", "restore", "status", "reason"} THEN e.to
            ELSE LastLogged({"trash", "restore", "status", "reason"}, d)
      BY <2>1, <1>2, Appending DEF Actions
    <3> QED
      BY <3>1 DEF LoggedStatus, LastLogged, First
  <2>5. LoggedNote' = IF e.action = "note" THEN e.to ELSE LoggedNote
    <3>1. LoggedNote' = IF e.action \in {"note"} THEN e.to ELSE LoggedNote
      BY <2>1, <1>2, Appending DEF LoggedNote, Actions
    <3> QED
      BY <3>1
  <2>6. TrashLogged \/ e.action = "trash" => TrashLogged'
    <3>1. /\ DOMAIN log' = DOMAIN log \cup {Len(log) + 1} /\ log'[Len(log) + 1] = e
          /\ \A k \in DOMAIN log : log'[k] = log[k]
      BY <1>2, <2>1
    <3> QED
      BY <3>1 DEF TrashLogged
  <2>7. CASE q.kind = "vote"
    <3>1. e.action \in {"up", "down", "clear"}
      BY <1>5, <2>7 DEF VoteAction
    <3>2. e.action \notin {"trash", "restore", "status", "reason", "note"}
      BY <3>1
    <3> QED
      BY <1>1, <1>3, <1>5, <2>3, <2>4, <2>5, <2>6, <2>7, <3>1, <3>2
  <2>8. CASE q.kind = "note"
    <3>1. e.action = "note"
      BY <1>5, <2>8
    <3>2. e.action \notin {"trash", "restore", "status", "reason", "up", "down", "clear"}
      BY <3>1
    <3> QED
      BY <1>1, <1>3, <1>5, <2>3, <2>4, <2>5, <2>6, <2>8, <3>1, <3>2
  <2>9. CASE q.kind = "item"
    <3>1. e.action \in {"trash", "restore", "status", "reason"}
      BY <1>5, <2>9
    <3>2. e.action \notin {"note", "up", "down", "clear"}
      BY <3>1
    <3> QED
      BY <1>1, <1>3, <1>5, <2>3, <2>4, <2>5, <2>6, <2>9, <3>1, <3>2
  <2> QED
    BY <1>2, <2>7, <2>8, <2>9
<1> QED
  BY <1>2, <1>4, <1>5, EntriesAre DEF w

(* At most one request is open: the other handlers have nothing to race.     *)
OneOpen == \A i, j \in Requests : pc[i] # "idle" /\ pc[j] # "idle" => i = j

(* As long as no requests have overlapped, the log tells what the row holds,  *)
(* but for the entry that the one handler under way has still to write.      *)
Logged ==
    /\ OneOpen
    /\ \A i \in Requests : pc[i] = "read" => seen[i] = row
    /\ \A i \in Requests :
         pc[i] = "written" => row = Written(sent[i], seen[i], seen[i]) /\ LogTells(seen[i])
    /\ (\A i \in Requests : pc[i] # "written") => LogTells(row)

LogInv == muddled \/ Logged

(* Steps that leave the row and the log alone, and the requests that have     *)
(* written and not logged.                                                   *)
LEMMA LoggedFrame ==
    ASSUME Logged, UNCHANGED <<radar, row, log>>,
           \A j \in Requests :
             \/ pc'[j] = "idle" /\ pc[j] # "written"
             \/ pc'[j] = pc[j] /\ seen'[j] = seen[j] /\ sent'[j] = sent[j]
    PROVE  Logged'
<1>1. OneOpen'
  BY DEF Logged, OneOpen
<1>2. ASSUME NEW i \in Requests, pc'[i] = "read" PROVE seen'[i] = row'
  BY <1>2 DEF Logged
<1>3. UNCHANGED <<LoggedVote, LoggedStatus, LoggedNote>> /\ (TrashLogged => TrashLogged')
  BY LoggedStay
<1>4. ASSUME NEW i \in Requests, pc'[i] = "written"
      PROVE  row' = Written(sent'[i], seen'[i], seen'[i]) /\ LogTells(seen[i])'
  <2>1. pc[i] = "written" /\ seen'[i] = seen[i] /\ sent'[i] = sent[i]
    BY <1>4
  <2>2. row = Written(sent[i], seen[i], seen[i]) /\ LogTells(seen[i])
    BY <2>1 DEF Logged
  <2>3. row' = Written(sent'[i], seen'[i], seen'[i])
    BY <2>1, <2>2
  <2>4. LogTells(seen[i])'
    BY <1>3, <2>1, <2>2 DEF LogTells
  <2> QED
    BY <2>3, <2>4
<1>5. ASSUME \A i \in Requests : pc'[i] # "written" PROVE LogTells(row)'
  <2>1. \A i \in Requests : pc[i] # "written"
    BY <1>5
  <2>2. LogTells(row)
    BY <2>1 DEF Logged
  <2> QED
    BY <1>3, <2>2 DEF LogTells
<1> QED
  BY <1>1, <1>2, <1>4, <1>5 DEF Logged

(* Every step keeps row and log in agreement, until two requests overlap or fail. *)
LEMMA LogStep == FeedbackTypes /\ LogShape /\ LogInv /\ [Next]_vars => LogInv'
<1> SUFFICES ASSUME FeedbackTypes, LogShape, LogInv, [Next]_vars, ~muddled' PROVE Logged'
  BY DEF LogInv
<1>1. ASSUME NEW q \in Asked, Click(q) PROVE Logged'
  <2>1. ~muddled /\ ~Busy
    BY <1>1 DEF Click
  <2>2. Logged /\ \A i \in Requests : pc[i] = "idle"
    BY <2>1 DEF LogInv, Busy
  <2>3. PICK i \in Requests : pc'[i] = "sent" /\ \A j \in Requests \ {i} : pc'[j] = pc[j]
    BY <1>1, ClickOpens
  <2>4. UNCHANGED <<radar, row, log>>
    BY <1>1, ClickOpens
  <2>5. OneOpen' /\ \A j \in Requests : pc'[j] # "read" /\ pc'[j] # "written"
    BY <2>2, <2>3 DEF OneOpen
  <2>6. LogTells(row)
    BY <2>2 DEF Logged
  <2>7. LogTells(row)'
    BY <2>4, <2>6, LoggedStay DEF LogTells
  <2> QED
    BY <2>5, <2>7 DEF Logged
<1>2. CASE SkipReason \/ UNCHANGED vars
  <2>1. UNCHANGED <<radar, row, log, sent, pc, seen, muddled>>
    BY <1>2 DEF SkipReason, vars, request
  <2>2. Logged
    BY <2>1 DEF LogInv
  <2> QED
    BY <2>1, <2>2, LoggedFrame
<1>3. CASE Reload
  <2>1. UNCHANGED <<radar, row, log, muddled>>
    BY <1>3 DEF Reload
  <2>2. Logged
    BY <2>1 DEF LogInv
  <2>3. Close({i \in Requests : pc[i] = "answered"})
    BY <1>3 DEF Reload
  <2>4. \A j \in Requests : \/ pc'[j] = "idle" /\ pc[j] # "written"
                            \/ pc'[j] = pc[j] /\ seen'[j] = seen[j] /\ sent'[j] = sent[j]
    BY <2>1, <2>3, CloseEnds
  <2> QED
    BY <2>1, <2>2, <2>4, LoggedFrame
<1>4. ASSUME NEW i \in Requests, Answer(i) \/ Cut(i) PROVE Logged'
  <2>1. UNCHANGED <<radar, row, log>> /\ Close({i})
    BY <1>4 DEF Answer, Cut
  <2>2. ~muddled /\ pc[i] # "written"
    <3>1. CASE Answer(i)
      <4>1. muddled' = muddled /\ pc[i] = "answered"
        BY <3>1 DEF Answer
      <4> QED
        BY <4>1
    <3>2. CASE Cut(i)
      <4>1. muddled' = (muddled \/ pc[i] = "written")
        BY <3>2 DEF Cut
      <4> QED
        BY <4>1
    <3> QED
      BY <1>4, <3>1, <3>2
  <2>3. Logged
    BY <2>2 DEF LogInv
  <2>4. \A j \in Requests : \/ pc'[j] = "idle" /\ pc[j] # "written"
                            \/ pc'[j] = pc[j] /\ seen'[j] = seen[j] /\ sent'[j] = sent[j]
    BY <2>1, <2>2, CloseEnds
  <2> QED
    BY <2>1, <2>3, <2>4, LoggedFrame
<1>5. ASSUME NEW i \in Requests, Lose(i) PROVE Logged'
  <2>1. UNCHANGED <<radar, row, log, sent, pc, seen, muddled>>
    BY <1>5 DEF Lose
  <2>2. Logged
    BY <2>1 DEF LogInv
  <2> QED
    BY <2>1, <2>2, LoggedFrame
<1>6. ASSUME NEW i \in Requests, Read(i) PROVE Logged'
  <2>1. UNCHANGED <<radar, row, log, sent, muddled>> /\ pc[i] = "sent"
    BY <1>6 DEF Read
  <2>2. Logged
    BY <2>1 DEF LogInv
  <2>3. /\ seen'[i] = row /\ pc'[i] \in {"read", "answered"}
        /\ \A j \in Requests \ {i} : pc'[j] = pc[j] /\ seen'[j] = seen[j]
    BY <1>6 DEF Read, FeedbackTypes
  <2>4. \A j \in Requests \ {i} : pc[j] = "idle"
    BY <2>1, <2>2 DEF Logged, OneOpen
  <2>5. LogTells(row)
    BY <2>1, <2>2, <2>4 DEF Logged
  <2>6. LogTells(row)'
    BY <2>1, <2>5, LoggedStay DEF LogTells
  <2>7. OneOpen' /\ \A j \in Requests : pc'[j] # "written" /\ (pc'[j] = "read" => seen'[j] = row')
    BY <2>1, <2>3, <2>4 DEF OneOpen
  <2> QED
    BY <2>6, <2>7 DEF Logged
<1>7. ASSUME NEW i \in Requests, NEW ok \in BOOLEAN, Write(i, ok) PROVE Logged'
  <2>1. ok /\ ~muddled
    BY <1>7 DEF Write
  <2>2. Logged
    BY <2>1 DEF LogInv
  <2>3. /\ UNCHANGED <<radar, log, sent, seen>> /\ pc[i] = "read"
        /\ pc' = [pc EXCEPT ![i] = "written"] /\ row' = Written(sent[i], seen[i], row)
    BY <1>7, <2>1 DEF Write
  <2>4. seen[i] = row /\ \A j \in Requests \ {i} : pc[j] = "idle"
    BY <2>2, <2>3 DEF Logged, OneOpen
  <2>5. pc'[i] = "written" /\ \A j \in Requests \ {i} : pc'[j] = "idle"
    BY <2>3, <2>4 DEF FeedbackTypes
  <2>6. LogTells(seen[i])
    BY <2>2, <2>3, <2>4 DEF Logged
  <2>7. LogTells(seen[i])'
    BY <2>3, <2>6, LoggedStay DEF LogTells
  <2>8. row' = Written(sent'[i], seen'[i], seen'[i])
    BY <2>3, <2>4
  <2> QED
    BY <2>5, <2>7, <2>8 DEF Logged, OneOpen
<1>8. ASSUME NEW i \in Requests, NEW ok \in BOOLEAN, Log(i, ok) PROVE Logged'
  <2>1. ok /\ ~muddled
    BY <1>8 DEF Log
  <2>2. Logged
    BY <2>1 DEF LogInv
  <2>3. /\ UNCHANGED <<radar, row, sent, seen>> /\ pc[i] = "written"
        /\ pc' = [pc EXCEPT ![i] = "answered"] /\ log' = log \o Entries(sent[i], seen[i])
    BY <1>8, <2>1 DEF Log
  <2>4. \A j \in Requests \ {i} : pc[j] = "idle"
    BY <2>2, <2>3 DEF Logged, OneOpen
  <2>5. pc'[i] = "answered" /\ \A j \in Requests \ {i} : pc'[j] = "idle"
    BY <2>3, <2>4 DEF FeedbackTypes
  <2>6. row = Written(sent[i], seen[i], seen[i]) /\ LogTells(seen[i]) /\ sent[i] \in Asked /\ seen[i] \in Rows
    BY <2>2, <2>3 DEF Logged, FeedbackTypes
  <2>7. /\ LoggedVote' = row.vote /\ LoggedStatus' = row.status /\ LoggedNote' = row.note
        /\ row.status \in Trashed => TrashLogged'
    BY <2>3, <2>6, LogCatchesUp
  <2>8. LogTells(row)'
    BY <2>3, <2>7 DEF LogTells
  <2>9. OneOpen' /\ \A j \in Requests : pc'[j] # "written" /\ pc'[j] # "read"
    BY <2>5 DEF OneOpen
  <2> QED
    BY <2>8, <2>9 DEF Logged
<1> QED
  BY <1>1, <1>2, <1>3, <1>4, <1>5, <1>6, <1>7, <1>8, ClicksAre DEF Next, ClickStep

-----------------------------------------------------------------------------
(* The page. *)

(* What the page shows while it waits for the answer to q, and x is the row    *)
(* before q: a vote and the choice of a status are painted at once.          *)
Waits(q, x) ==
    /\ page.vote = IF q.kind = "vote" THEN Toggle(q, x) ELSE x.vote
    /\ page.status = x.status
    /\ radar = "grant" => page.select = IF q.kind = "item" THEN q.status ELSE x.status
    /\ Stored(page.note) = x.note
    /\ page.why => x.reason = None /\ x.status \in Trashed
    /\ q.kind = "item" => q.reason = None \/ q.status = x.status

Shows(x) ==
    /\ page.vote = x.vote
    /\ page.status = x.status
    /\ radar = "grant" => page.select = x.status
    /\ Stored(page.note) = x.note
    /\ page.why => x.reason = None /\ x.status \in Trashed

(* As long as nothing failed or overlapped since it was loaded, the page shows *)
(* the row, but for what the answer it waits for will tell it.               *)
Painted ==
    /\ OneOpen
    /\ \A i \in Requests :
         /\ pc[i] # "idle" => heard[i]
         /\ pc[i] = "sent" => Waits(sent[i], row)
         /\ pc[i] = "read" => seen[i] = row /\ Waits(sent[i], seen[i])
         /\ pc[i] \in {"written", "answered"} =>
              row = Written(sent[i], seen[i], seen[i]) /\ Waits(sent[i], seen[i])
    /\ ~Busy => Shows(row)

PageInv == stale \/ Painted

(* What a click paints, on a page that shows the row. *)
LEMMA ClickPaints ==
    ASSUME FeedbackTypes, NEW q \in Asked, Clicked(q), Shows(row), UNCHANGED <<radar, row>>
    PROVE  /\ page'.vote = IF q.kind = "vote" THEN Toggle(q, row) ELSE row.vote
           /\ page'.status = row.status
           /\ radar = "grant" => page'.select = IF q.kind = "item" THEN q.status ELSE row.status
           /\ Stored(page'.note) = row.note
           /\ page'.why => row.reason = None /\ row.status \in Trashed
           /\ q.kind = "item" => q.reason = None \/ q.status = row.status
<1> USE DEF FeedbackTypes, Pages, Rows, Shows
<1>1. ASSUME NEW v \in {-1, 1}, q = [kind |-> "vote", vote |-> v, cur |-> page.vote],
             page' = [page EXCEPT !.vote = IF v = page.vote THEN 0 ELSE v]
      PROVE  page'.vote = Toggle(q, row) /\ q.kind = "vote"
  BY <1>1 DEF Toggle
<1>2. ASSUME NEW reason \in Reasons, page.why, page' = page,
             q = [kind |-> "item", reason |-> reason,
                  status |-> IF radar = "job" THEN "hidden" ELSE page.select]
      PROVE  q.kind = "item" /\ q.status = row.status /\ (radar = "grant" => page.select = q.status)
  <2>1. row.status \in Trashed /\ row.status \in Statuses[radar]
    BY <1>2
  <2> QED
    BY <1>2, <2>1, StatusValues DEF Trashed
<1> QED
  BY <1>1, <1>2 DEF Clicked

(* What the answer paints, on a page that waits for it. *)
LEMMA AnswerPaints ==
    ASSUME FeedbackTypes, NEW q \in Asked, NEW x \in Rows, Waits(q, x), page' = Answered(q, x)
    PROVE  LET w == Written(q, x, x) IN
           /\ page'.vote = w.vote
           /\ page'.status = w.status
           /\ radar = "grant" => page'.select = w.status
           /\ Stored(page'.note) = w.note
           /\ page'.why => w.reason = None /\ w.status \in Trashed
<1> DEFINE w == Written(q, x, x)
<1>1. /\ w.vote = IF q.kind = "vote" THEN Toggle(q, x) ELSE x.vote
      /\ w.note = IF q.kind = "note" THEN Stored(q.note) ELSE x.note
      /\ w.status = IF q.kind = "item" THEN q.status ELSE x.status
      /\ w.reason = IF q.kind = "item" THEN Given(q, x) ELSE x.reason
  BY WrittenFields
<1> HIDE DEF w
<1> SUFFICES /\ page'.vote = w.vote
             /\ page'.status = w.status
             /\ radar = "grant" => page'.select = w.status
             /\ Stored(page'.note) = w.note
             /\ page'.why => w.reason = None /\ w.status \in Trashed
  BY DEF w
<1> USE DEF FeedbackTypes, Pages, Waits
<1>2. CASE q.kind = "vote"
  <2>1. page' = [page EXCEPT !.vote = Toggle(q, x)]
    BY <1>2 DEF Answered
  <2> QED
    BY <1>1, <1>2, <2>1
<1>3. CASE q.kind = "note"
  <2>1. page' = [page EXCEPT !.note = q.note]
    BY <1>3 DEF Answered
  <2> QED
    BY <1>1, <1>3, <2>1
<1>4. CASE q.kind = "item" /\ q.reason # None
  <2>1. page' = [page EXCEPT !.why = FALSE]
    BY <1>4 DEF Answered
  <2> QED
    BY <1>1, <1>4, <2>1
<1>5. CASE q.kind = "item" /\ q.reason = None
  <2>1. page' = [page EXCEPT !.status = q.status, !.why = AskReason(q, x)]
    BY <1>5 DEF Answered
  <2>2. w.reason = x.reason /\ w.status = q.status
    BY <1>1, <1>5 DEF Given
  <2>3. AskReason(q, x) => q.status \in Trashed /\ x.reason = None
    BY DEF AskReason
  <2>4. page'.why = AskReason(q, x)
    BY <2>1
  <2> QED
    BY <1>1, <1>5, <2>1, <2>2, <2>3, <2>4
<1> QED
  BY <1>2, <1>3, <1>4, <1>5, AskedKinds

(* A note that is not written would not have changed the row. *)
LEMMA NothingIsWritten ==
    ASSUME NEW q \in Asked, NEW x \in Rows, Nothing(q, x)
    PROVE  Written(q, x, x) = x
<1>1. q.kind = "note" /\ q.note = x.note /\ q.note \in Notes /\ x.note \in {"empty", "cut"}
  BY AskedKinds DEF Nothing, Rows
<1>2. Stored(q.note) = x.note
  BY <1>1 DEF Notes, Stored
<1>3. Written(q, x, x) = [x EXCEPT !.note = Stored(q.note)]
  BY <1>1 DEF Written
<1> QED
  BY <1>1, <1>2, <1>3 DEF Rows

(* Every step keeps page and row in agreement, until two requests overlap or fail. *)
LEMMA PageStep == FeedbackTypes /\ PageInv /\ [Next]_vars => PageInv'
<1> SUFFICES ASSUME FeedbackTypes, PageInv, [Next]_vars, ~stale' PROVE Painted'
  BY DEF PageInv
<1>1. ASSUME NEW q \in Asked, Click(q), Clicked(q) PROVE Painted'
  <2>1. ~stale /\ ~Busy
    BY <1>1 DEF Click
  <2>2. Shows(row) /\ \A i \in Requests : pc[i] = "idle"
    BY <2>1 DEF PageInv, Painted, Busy
  <2>3. PICK i \in Requests : /\ pc'[i] = "sent" /\ sent'[i] = q /\ heard'[i]
                              /\ \A j \in Requests \ {i} : pc'[j] = pc[j]
    BY <1>1, ClickOpens
  <2>4. UNCHANGED <<radar, row>>
    BY <1>1, ClickOpens
  <2>5. OneOpen' /\ Busy' /\ \A j \in Requests \ {i} : pc'[j] = "idle"
    BY <2>2, <2>3 DEF OneOpen, Busy
  <2>6. Waits(sent[i], row)'
    BY <1>1, <2>2, <2>3, <2>4, ClickPaints DEF Waits
  <2> QED
    BY <2>3, <2>5, <2>6 DEF Painted
<1>2. CASE SkipReason \/ UNCHANGED vars
  <2>1. UNCHANGED <<radar, row, sent, pc, seen, heard, stale>>
    BY <1>2 DEF SkipReason, vars, request
  <2>2. page' = page \/ page' = [page EXCEPT !.why = FALSE]
    BY <1>2 DEF SkipReason, vars
  <2>3. /\ page'.vote = page.vote /\ page'.note = page.note /\ page'.status = page.status
        /\ page'.select = page.select /\ (page'.why => page.why)
    BY <2>2 DEF FeedbackTypes, Pages
  <2>4. Painted
    BY <2>1 DEF PageInv
  <2>5. OneOpen' /\ (~Busy' => ~Busy)
    BY <2>1, <2>4 DEF Painted, OneOpen, Busy
  <2>6. Shows(row) => Shows(row)'
    BY <2>1, <2>3 DEF Shows
  <2>7. ASSUME NEW i \in Requests
        PROVE  /\ Waits(sent[i], row) => Waits(sent[i], row)'
               /\ Waits(sent[i], seen[i]) => Waits(sent[i], seen[i])'
    BY <2>1, <2>3 DEF Waits
  <2> QED
    BY <2>1, <2>4, <2>5, <2>6, <2>7 DEF Painted
<1>3. CASE Reload
  <2>1. /\ UNCHANGED <<radar, row>> /\ page' = Loaded(row)
        /\ Close({i \in Requests : pc[i] = "answered"})
    BY <1>3 DEF Reload
  <2>2. \A j \in Requests : pc[j] \in {"answered", "idle"}
    BY <1>3 DEF Reload
  <2>3. \A j \in Requests : pc'[j] = "idle"
    BY <2>1, <2>2, CloseEnds
  <2>4. Shows(row)'
    BY <2>1 DEF Shows, Loaded, Stored, FeedbackTypes, Rows
  <2> QED
    BY <2>3, <2>4 DEF Painted, OneOpen
<1>4. ASSUME NEW i \in Requests, Read(i) PROVE Painted'
  <2>1. UNCHANGED <<radar, row, page, sent, heard, stale>> /\ pc[i] = "sent"
    BY <1>4 DEF Read
  <2>2. Painted
    BY <2>1 DEF PageInv
  <2>3. /\ seen'[i] = row /\ pc'[i] = IF Nothing(sent[i], row) THEN "answered" ELSE "read"
        /\ \A j \in Requests \ {i} : pc'[j] = pc[j]
    BY <1>4 DEF Read, FeedbackTypes
  <2>4. \A j \in Requests \ {i} : pc'[j] = "idle"
    BY <2>1, <2>2, <2>3 DEF Painted, OneOpen
  <2>5. Waits(sent[i], row) /\ heard[i]
    BY <2>1, <2>2 DEF Painted
  <2>6. Waits(sent[i], seen[i])'
    BY <2>1, <2>3, <2>5 DEF Waits
  <2>7. Nothing(sent[i], row) => row = Written(sent[i], row, row)
    BY <2>1, NothingIsWritten DEF FeedbackTypes
  <2>8. OneOpen' /\ Busy'
    BY <2>3, <2>4 DEF OneOpen, Busy
  <2> QED
    BY <2>1, <2>3, <2>4, <2>5, <2>6, <2>7, <2>8 DEF Painted
<1>5. ASSUME NEW i \in Requests, Answer(i) PROVE Painted'
  <2>1. UNCHANGED <<radar, row, stale>> /\ pc[i] = "answered" /\ Close({i})
    BY <1>5 DEF Answer
  <2>2. Painted
    BY <2>1 DEF PageInv
  <2>3. heard[i] /\ row = Written(sent[i], seen[i], seen[i]) /\ Waits(sent[i], seen[i])
    BY <2>1, <2>2 DEF Painted
  <2>4. page' = Answered(sent[i], seen[i])
    BY <1>5, <2>3 DEF Answer
  <2>5. sent[i] \in Asked /\ seen[i] \in Rows
    BY <2>1 DEF FeedbackTypes
  <2>6. Shows(row)'
    BY <2>1, <2>3, <2>4, <2>5, AnswerPaints DEF Shows
  <2>7. \A j \in Requests : pc'[j] = "idle"
    BY <2>1, <2>2, CloseEnds DEF Painted, OneOpen
  <2> QED
    BY <2>6, <2>7 DEF Painted, OneOpen
<1>6. ASSUME NEW i \in Requests, Lose(i) PROVE Painted'
  BY <1>6 DEF Lose
<1>7. ASSUME NEW i \in Requests, Cut(i) PROVE Painted'
  <2>1. pc[i] # "idle" /\ ~heard[i] /\ UNCHANGED stale
    BY <1>7 DEF Cut
  <2> QED
    BY <2>1 DEF PageInv, Painted
<1>8. ASSUME NEW i \in Requests, NEW ok \in BOOLEAN, Write(i, ok) PROVE Painted'
  <2>1. ok /\ ~stale
    BY <1>8 DEF Write
  <2>2. Painted
    BY <2>1 DEF PageInv
  <2>3. /\ UNCHANGED <<radar, page, sent, seen, heard>> /\ pc[i] = "read"
        /\ pc' = [pc EXCEPT ![i] = "written"] /\ row' = Written(sent[i], seen[i], row)
    BY <1>8, <2>1 DEF Write
  <2>4. seen[i] = row /\ Waits(sent[i], seen[i]) /\ heard[i]
    BY <2>2, <2>3 DEF Painted
  <2>5. pc'[i] = "written" /\ \A j \in Requests \ {i} : pc'[j] = "idle"
    BY <2>2, <2>3 DEF FeedbackTypes, Painted, OneOpen
  <2>6. Waits(sent[i], seen[i])'
    BY <2>3, <2>4 DEF Waits
  <2>7. OneOpen' /\ Busy'
    BY <2>5 DEF OneOpen, Busy
  <2>8. row' = Written(sent'[i], seen'[i], seen'[i]) /\ heard'[i]
    BY <2>3, <2>4
  <2> QED
    BY <2>5, <2>6, <2>7, <2>8 DEF Painted
<1>9. ASSUME NEW i \in Requests, NEW ok \in BOOLEAN, Log(i, ok) PROVE Painted'
  <2>1. /\ UNCHANGED <<radar, row, page, sent, seen, heard, stale>> /\ pc[i] = "written"
        /\ pc' = [pc EXCEPT ![i] = "answered"]
    BY <1>9 DEF Log
  <2>2. Painted
    BY <2>1 DEF PageInv
  <2>3. row = Written(sent[i], seen[i], seen[i]) /\ Waits(sent[i], seen[i]) /\ heard[i]
    BY <2>1, <2>2 DEF Painted
  <2>4. pc'[i] = "answered" /\ \A j \in Requests \ {i} : pc'[j] = "idle"
    BY <2>1, <2>2 DEF FeedbackTypes, Painted, OneOpen
  <2>5. Waits(sent[i], seen[i])'
    BY <2>1, <2>3 DEF Waits
  <2>6. OneOpen' /\ Busy'
    BY <2>4 DEF OneOpen, Busy
  <2>7. row' = Written(sent'[i], seen'[i], seen'[i]) /\ heard'[i]
    BY <2>1, <2>3
  <2> QED
    BY <2>4, <2>5, <2>6, <2>7 DEF Painted
<1> QED
  BY <1>1, <1>2, <1>3, <1>4, <1>5, <1>6, <1>7, <1>8, <1>9, ClicksAre DEF Next, ClickStep

-----------------------------------------------------------------------------
(* The inductive invariant of the owner's feedback. *)

FeedbackInv == FeedbackTypes /\ LogShape /\ LogInv /\ PageInv

(* The initial states. *)
LEMMA FeedbackInit == Init => FeedbackInv
<1> SUFFICES ASSUME Init PROVE FeedbackInv
  OBVIOUS
<1>1. /\ \A i \in Requests : pc[i] = "idle"
      /\ radar \in {"job", "grant"} /\ row = Fresh /\ page = Loaded(row) /\ log = <<>>
  BY DEF Init
<1>2. /\ row.vote = 0 /\ row.note = "empty" /\ row.status = First[radar]
      /\ page.vote = 0 /\ page.note = "empty" /\ page.status = row.status /\ page.select = row.status
      /\ page.why = FALSE
  BY <1>1 DEF Fresh, Loaded
<1>3. \A actions, default : LastLogged(actions, default) = default
  BY <1>1 DEF LastLogged, Kept
<1>4. row.status \notin Trashed
  BY <1>1, <1>2, StatusValues DEF Trashed
<1>5. LogTells(row)
  BY <1>2, <1>3, <1>4 DEF LogTells, LoggedVote, LoggedStatus, LoggedNote
<1>6. Shows(row)
  BY <1>2 DEF Shows, Stored
<1>7. OneOpen
  BY <1>1 DEF OneOpen
<1>8. Logged /\ Painted
  BY <1>1, <1>5, <1>6, <1>7 DEF Logged, Painted
<1> QED
  BY <1>8, TypesInit DEF FeedbackInv, LogInv, PageInv

(* The conjuncts together are inductive. *)
LEMMA FeedbackStep == FeedbackInv /\ [Next]_vars => FeedbackInv'
BY TypesStep, LogShapeStep, LogStep, PageStep DEF FeedbackInv

(* For any reasons, any number of requests at the same time, clicks and faults: *)
(* the log has the shape the ranking reads, and it and the page lag behind   *)
(* the row by the one request under way at most, until two overlap or fail.  *)
THEOREM FeedbackCorrect == Spec => []FeedbackInv
BY FeedbackInit, FeedbackStep, PTL DEF Spec

(* Whatever requests are answered, dropped or cut off, a page that is quiet     *)
(* shows the row, if none overlapped or failed since it was loaded.          *)
THEOREM PageTellsRowCorrect == Spec => []PageTellsRow
<1>1. FeedbackInv => PageTellsRow
  BY DEF FeedbackInv, PageInv, Painted, Shows, PageTellsRow
<1> QED
  BY <1>1, FeedbackCorrect, PTL

(* The log, of which the ranking learns, agrees with the row once all is        *)
(* quiet, whether the page heard the answers or not.                         *)
THEOREM LogTellsRowCorrect == Spec => []LogTellsRow
<1>1. ASSUME FeedbackInv, ~Busy, ~muddled PROVE LogTells(row)
  BY <1>1 DEF FeedbackInv, LogInv, Logged, Busy
<1>2. FeedbackInv => LogTellsRow
  BY <1>1 DEF LogTells, LoggedVote, LoggedStatus, LoggedNote, LogTellsRow
<1> QED
  BY <1>2, FeedbackCorrect, PTL

(* A reason that is written where nothing was in the trash was sent by a page  *)
(* that did not show that row.                                               *)
LEMMA ReasonStep ==
    ASSUME FeedbackInv, [Next]_vars, NEW i \in Requests, pc[i] = "read", pc'[i] = "written",
           row.status \notin Trashed, row'.status \in Trashed
    PROVE  sent[i].reason = None \/ stale
<1> USE DEF FeedbackInv
<1>1. \E ok \in BOOLEAN : Write(i, ok)
  <2>1. CASE ClickStep
    BY <2>1, ClickOpens DEF ClickStep, FeedbackTypes
  <2>2. CASE SkipReason \/ UNCHANGED vars
    BY <2>2 DEF SkipReason, vars, request
  <2>3. CASE Reload
    BY <2>3, CloseEnds DEF Reload
  <2>4. ASSUME NEW j \in Requests, Answer(j) \/ Cut(j) PROVE FALSE
    BY <2>4, CloseEnds DEF Answer, Cut
  <2>5. ASSUME NEW j \in Requests, Read(j) \/ Lose(j) PROVE FALSE
    BY <2>5 DEF Read, Lose, FeedbackTypes
  <2>6. ASSUME NEW j \in Requests, NEW ok \in BOOLEAN, Log(j, ok) PROVE FALSE
    BY <2>6 DEF Log, FeedbackTypes
  <2>7. ASSUME NEW j \in Requests, NEW ok \in BOOLEAN, Write(j, ok) PROVE Write(i, ok)
    BY <2>7 DEF Write, FeedbackTypes
  <2> QED
    BY <2>1, <2>2, <2>3, <2>4, <2>5, <2>6, <2>7, ClicksAre DEF Next
<1>2. row' = Written(sent[i], seen[i], row)
  BY <1>1 DEF Write
<1>3. sent[i] \in Asked /\ seen[i] \in Rows /\ row \in Rows
  BY DEF FeedbackTypes
<1>4. sent[i].kind = "item" /\ row'.status = sent[i].status
  BY <1>2, <1>3, WrittenFields
<1>5. SUFFICES ASSUME ~stale PROVE sent[i].reason = None
  OBVIOUS
<1>6. seen[i] = row /\ Waits(sent[i], seen[i])
  BY <1>5 DEF PageInv, Painted
<1> QED
  BY <1>4, <1>6 DEF Waits

(* To answer the question for a reason trashes nothing that was taken back.   *)
THEOREM ReasonNeverTrashesCorrect == Spec => ReasonNeverTrashes
<1>1. FeedbackInv /\ [Next]_vars =>
        [\A i \in Requests :
           pc[i] = "read" /\ pc'[i] = "written" /\ row.status \notin Trashed /\ row'.status \in Trashed
             => sent[i].reason = None \/ stale]_vars
  BY ReasonStep
<1> QED
  BY <1>1, FeedbackCorrect, PTL DEF Spec, ReasonNeverTrashes

=============================================================================
