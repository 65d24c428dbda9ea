------------------------- MODULE WeeklyDigest_proofs -------------------------
(***************************************************************************)
(* Proofs about WeeklyDigest for any postings, any similarity of titles, any *)
(* number of recipients and any caps of the digest: first about the email,   *)
(* then about the union-find that groups the copies of a job, its loops, and *)
(* the rows as they are sorted.  Liveness is left to the model checker.      *)
(***************************************************************************)
EXTENDS WeeklyDigest, FiniteSetTheorems, WellFoundedInduction, TLAPS

-----------------------------------------------------------------------------
(* What BuildReport computes of a set of rows. *)

LEMMA TableIsFunction == \A f : Table(f) = f
  BY DEF Table

LEMMA IdsAre ==
    ASSUME NEW S \in SUBSET Postings
    PROVE  Ids[S] = {p \in S : Key(p) \in Picked[S]}
<1> DEFINE f == [T \in SUBSET Postings |-> {p \in T : Key(p) \in Picked[T]}]
<1>1. Ids = f
  BY TableIsFunction DEF Ids
<1> QED
  BY <1>1

LEMMA ShownAre ==
    ASSUME NEW S \in SUBSET Postings
    PROVE  Shown[S] \subseteq S
<1> DEFINE f == [T \in SUBSET Postings |-> Fresh(T) \cup Also(T)]
<1>1. Shown = f
  BY TableIsFunction DEF Shown
<1>2. Representatives(S) \subseteq S
  BY DEF Representatives
<1>3. Fresh(S) \subseteq S /\ Also(S) \subseteq S
  BY <1>2 DEF Fresh, Also, FirstOf
<1> HIDE DEF f
<1>4. f[S] = Fresh(S) \cup Also(S)
  BY DEF f
<1> QED
  BY <1>1, <1>3, <1>4

(* With every org known, what is shown is what will be marked.                *)
LEMMA ShownIsMarked ==
    ASSUME NEW S \in SUBSET Postings, \A p \in Postings : Org[p] # Blank
    PROVE  Shown[S] \subseteq Ids[S]
<1> DEFINE f == [T \in SUBSET Postings |-> {<<MergedOrg(p, T), Title[p]>> : p \in Shown[T]}]
<1>1. Picked = f
  BY TableIsFunction DEF Picked
<1> HIDE DEF f
<1>2. f[S] = {<<MergedOrg(p, S), Title[p]>> : p \in Shown[S]}
  BY DEF f
<1>3. \A p \in Shown[S] : p \in S /\ MergedOrg(p, S) = Org[p]
  BY ShownAre DEF MergedOrg
<1>4. \A p \in Shown[S] : Key(p) \in Picked[S]
  BY <1>1, <1>2, <1>3 DEF Key
<1> QED
  BY <1>3, <1>4, IdsAre

-----------------------------------------------------------------------------
(* The email. *)

(* What is still to be marked is known to those who got the mail.             *)
MailInv ==
    /\ rows \subseteq Postings /\ snapshot \subseteq Postings
    /\ pc \in {"idle", "send", "mark"}
    /\ pc = "idle" => sent = {} /\ snapshot = {}
    /\ sent # {} => Picked[snapshot] \subseteq delivered
    /\ pc = "mark" => sent # {} /\ unmarked \subseteq Ids[snapshot]
    /\ NeverSilentlyDropped

LEMMA MailStep == MailInv /\ [Next]_vars => MailInv'
<1> SUFFICES ASSUME MailInv, [Next]_vars PROVE MailInv'
  OBVIOUS
<1>1. ASSUME NEW p \in Postings, Arrive(p) PROVE MailInv'
  BY <1>1 DEF Arrive, MailInv, NeverSilentlyDropped, email, history
<1>2. ASSUME NEW p \in Postings, Purge(p) PROVE MailInv'
  BY <1>2 DEF Purge, MailInv, NeverSilentlyDropped, email
<1>3. ASSUME NEW p \in Postings, Mark(p) PROVE MailInv'
  <2>1. p \in Ids[snapshot] /\ Picked[snapshot] \subseteq delivered
    BY <1>3 DEF Mark, MailInv
  <2>2. Key(p) \in delivered
    BY <2>1, IdsAre DEF MailInv
  <2> QED
    BY <1>3, <2>2 DEF Mark, MailInv, NeverSilentlyDropped
<1>4. ASSUME NEW p \in Trashable, Trash(p) PROVE MailInv'
  BY <1>4 DEF Trash, MailInv, NeverSilentlyDropped, email, history
<1>5. ASSUME NEW r \in Recipients, SendFails(r) PROVE MailInv'
  BY <1>5 DEF SendFails, MailInv, NeverSilentlyDropped, table, history
<1>6. ASSUME NEW r \in Recipients, SendSucceeds(r) PROVE MailInv'
  BY <1>6 DEF SendSucceeds, MailInv, NeverSilentlyDropped, table
<1>7. ASSUME NEW force \in BOOLEAN, NEW urgent \in BOOLEAN, Build(force, urgent) PROVE MailInv'
  <2>1. Unreported \subseteq Postings
    BY DEF Unreported, MailInv
  <2> QED
    BY <1>7, <2>1 DEF Build, MailInv, NeverSilentlyDropped, table, history
<1>8. CASE Sent
  BY <1>8 DEF Sent, EmailOver, MailInv, NeverSilentlyDropped, table, history
<1>9. CASE Done
  BY <1>9 DEF Done, EmailOver, MailInv, NeverSilentlyDropped, table
<1>10. CASE TimeUp
  BY <1>10 DEF TimeUp, MailInv, NeverSilentlyDropped, table, history
<1>11. CASE Crash
  BY <1>11 DEF Crash, EmailOver, MailInv, NeverSilentlyDropped, table
<1>12. CASE UNCHANGED vars
  BY <1>12 DEF vars, table, email, history, MailInv, NeverSilentlyDropped
<1> QED
  BY <1>1, <1>2, <1>3, <1>4, <1>5, <1>6, <1>7, <1>8, <1>9, <1>10, <1>11, <1>12 DEF Next

LEMMA MailInit == Init => MailInv
  BY DEF Init, MailInv, NeverSilentlyDropped

(* A row is marked only after a mail with its job, for any rows, any recipients *)
(* and any place at which the email is cut off.                               *)
THEOREM NeverSilentlyDroppedCorrect == Spec => []NeverSilentlyDropped
<1>1. MailInv => NeverSilentlyDropped
  BY DEF MailInv
<1> QED
  BY <1>1, MailInit, MailStep, PTL DEF Spec

-----------------------------------------------------------------------------
(* No posting twice. *)

(* What was shown is marked, excused, or shown by the mail under way, which    *)
(* will mark it; that mail is made of rows that are not marked.               *)
MarkInv ==
    /\ \A p \in shown \ excused :
          p \in reported \/ (sent # {} /\ p \in Ids[snapshot] /\ (pc = "send" \/ (pc = "mark" /\ p \in unmarked)))
    /\ pc = "send" => snapshot \cap reported = {}

LEMMA MarkStep ==
    ASSUME \A p \in Postings : Org[p] # Blank
    PROVE  MailInv /\ MarkInv /\ [Next]_vars => MarkInv'
<1> SUFFICES ASSUME MailInv, MarkInv, [Next]_vars PROVE MarkInv'
  OBVIOUS
<1>1. ASSUME NEW p \in Postings, Arrive(p) PROVE MarkInv'
  BY <1>1 DEF Arrive, MarkInv, email, history
<1>2. ASSUME NEW p \in Postings, Purge(p) PROVE MarkInv'
  BY <1>2 DEF Purge, MailInv, MarkInv, email
<1>3. ASSUME NEW p \in Postings, Mark(p) PROVE MarkInv'
  BY <1>3 DEF Mark, MarkInv
<1>4. ASSUME NEW p \in Trashable, Trash(p) PROVE MarkInv'
  BY <1>4 DEF Trash, MarkInv, email, history
<1>5. ASSUME NEW r \in Recipients, SendFails(r) PROVE MarkInv'
  BY <1>5 DEF SendFails, MarkInv, table, history
<1>6. ASSUME NEW r \in Recipients, SendSucceeds(r) PROVE MarkInv'
  <2>1. Shown[snapshot] \subseteq Ids[snapshot]
    BY ShownIsMarked DEF MailInv
  <2> QED
    BY <1>6, <2>1 DEF SendSucceeds, MarkInv, table
<1>7. ASSUME NEW force \in BOOLEAN, NEW urgent \in BOOLEAN, Build(force, urgent) PROVE MarkInv'
  <2>1. Unreported \cap reported = {}
    BY DEF Unreported
  <2> QED
    BY <1>7, <2>1 DEF Build, MailInv, MarkInv, table, history
<1>8. CASE Sent
  BY <1>8 DEF Sent, EmailOver, MarkInv, table, history
<1>9. CASE Done
  BY <1>9 DEF Done, EmailOver, MarkInv, table
<1>10. CASE TimeUp
  BY <1>10 DEF TimeUp, MarkInv, table, history
<1>11. CASE Crash
  <2>1. Ids[snapshot] \subseteq snapshot
    BY IdsAre DEF MailInv
  <2> QED
    BY <1>11, <2>1 DEF Crash, EmailOver, MarkInv, table
<1>12. CASE UNCHANGED vars
  BY <1>12 DEF vars, table, email, history, MarkInv
<1> QED
  BY <1>1, <1>2, <1>3, <1>4, <1>5, <1>6, <1>7, <1>8, <1>9, <1>10, <1>11, <1>12 DEF Next

(* With every org known no mail shows a posting again, unless its mark was     *)
(* lost: the first mail that gets out shows only rows that no mail stood for. *)
THEOREM ShownOnceCorrect ==
    ASSUME \A p \in Postings : Org[p] # Blank
    PROVE  Spec => ShownOnce
<1>1. Init => MailInv /\ MarkInv
  <2>1. Init => MarkInv
    BY DEF Init, MarkInv
  <2> QED
    BY <2>1, MailInit
<1>2. MailInv /\ MarkInv /\ [Next]_vars => MailInv' /\ MarkInv'
  BY MailStep, MarkStep
<1>3. MailInv /\ MarkInv /\ [Next]_vars
        => [sent = {} /\ sent' # {} => Shown[snapshot] \cap shown \subseteq excused]_vars
  <2> SUFFICES ASSUME MailInv, MarkInv, [Next]_vars, sent = {}, sent' # {}
               PROVE  Shown[snapshot] \cap shown \subseteq excused
    OBVIOUS
  <2>1. PICK r \in Recipients : SendSucceeds(r)
    BY DEF Next, Arrive, Purge, Mark, Trash, SendFails, Build, Sent, Done, TimeUp, Crash, EmailOver, vars, email
  <2>2. snapshot \cap reported = {}
    BY <2>1 DEF SendSucceeds, MarkInv
  <2>3. Shown[snapshot] \subseteq snapshot
    BY ShownAre DEF MailInv
  <2> QED
    BY <2>2, <2>3 DEF MarkInv
<1> QED
  BY <1>1, <1>2, <1>3, PTL DEF Spec, ShownOnce

-----------------------------------------------------------------------------
(* The forest of dedupe.go.  The induction theorems of the library take a     *)
(* predicate; here a set takes its place.                                    *)

LEMMA NatInductionOnSet ==
    ASSUME NEW P \in SUBSET Nat, 0 \in P, \A n \in P : n + 1 \in P
    PROVE  \A n \in Nat : n \in P
<1> SUFFICES ASSUME Nat \ P # {} PROVE FALSE
  OBVIOUS
<1>1. PICK n \in Nat \ P : \A k \in Nat \ P : ~ (<<k, n>> \in OpToRel(<, Nat))
  BY NatLessThanWellFounded, WFMin
<1>2. \A k \in Nat \ P : ~ (k < n)
  BY <1>1 DEF OpToRel
<1>3. n # 0 /\ n - 1 \in Nat /\ n - 1 < n
  OBVIOUS
<1>4. n - 1 \in P
  BY <1>2, <1>3
<1>5. (n - 1) + 1 \in P
  BY <1>4
<1>6. (n - 1) + 1 = n
  OBVIOUS
<1> QED
  BY <1>5, <1>6

(* A set of rows that holds every row above whose lower rows it holds.         *)
LEMMA RowInduction ==
    ASSUME NEW n \in Nat, NEW T, \A i \in 1..n : (\A j \in 1..n : j < i => j \in T) => i \in T
    PROVE  1..n \subseteq T
<1> DEFINE P == {m \in Nat : \A i \in 1..n : i <= m => i \in T}
<1>1. 0 \in P
  OBVIOUS
<1>2. ASSUME NEW m \in P PROVE m + 1 \in P
  <2>1. m \in Nat /\ \A i \in 1..n : i <= m => i \in T
    OBVIOUS
  <2>2. \A i \in 1..n : i <= m + 1 => \A j \in 1..n : j < i => j <= m
    BY <2>1
  <2>3. \A i \in 1..n : i <= m + 1 => i \in T
    BY <2>1, <2>2
  <2> QED
    BY <2>1, <2>3
<1>3. \A m \in Nat : m \in P
  <2> HIDE DEF P
  <2>1. P \in SUBSET Nat
    BY DEF P
  <2> QED
    BY <1>1, <1>2, <2>1, NatInductionOnSet
<1>4. n \in P
  BY <1>3
<1> QED
  BY <1>4

(* A walk up from any row comes to an end, so that Root is a function.          *)
Climbs(p, g) == g = [i \in DOMAIN p |-> IF p[i] = i THEN i ELSE g[p[i]]]

LEMMA ClimbExists ==
    ASSUME NEW n \in Nat, NEW p, Ordered(p, n)
    PROVE  \E g : Climbs(p, g)
<1> DEFINE good(m, g) == g = [i \in 1..m |-> IF p[i] = i THEN i ELSE g[p[i]]]
           P == {m \in Nat : m <= n => \E g : good(m, g)}
<1>0. p \in [1..n -> 1..n] /\ \A i \in 1..n : p[i] <= i /\ p[i] \in 1..n
  BY DEF Ordered
<1>1. 0 \in P
  <2> DEFINE g == [i \in 1..0 |-> i]
  <2>1. good(0, g)
    OBVIOUS
  <2> QED
    BY <2>1
<1>2. ASSUME NEW m \in P, m + 1 <= n PROVE \E g : good(m + 1, g)
  <2>1. m \in Nat /\ m <= n
    BY <1>2
  <2>2. PICK g : good(m, g)
    BY <2>1
  <2> DEFINE h == [i \in 1..(m + 1) |-> IF p[i] = i THEN i ELSE g[p[i]]]
  <2>3. \A i \in 1..m : g[i] = IF p[i] = i THEN i ELSE g[p[i]]
    BY <2>2
  <2>4. \A i \in 1..m : h[i] = g[i]
    BY <2>1, <2>3
  <2>5. \A i \in 1..(m + 1) : p[i] # i => p[i] \in 1..m
    BY <1>0, <1>2, <2>1
  <2>6. \A i \in 1..(m + 1) : p[i] # i => h[p[i]] = g[p[i]]
    BY <2>4, <2>5
  <2>7. \A i \in 1..(m + 1) : h[i] = IF p[i] = i THEN i ELSE h[p[i]]
    BY <2>6
  <2>8. h = [i \in 1..(m + 1) |-> h[i]]
    OBVIOUS
  <2> HIDE DEF h
  <2>9. h = [i \in 1..(m + 1) |-> IF p[i] = i THEN i ELSE h[p[i]]]
    BY <2>7, <2>8
  <2> QED
    BY <2>9
<1>3. \A m \in Nat : m \in P
  <2>1. ASSUME NEW m \in P PROVE m + 1 \in P
    BY <1>2
  <2> HIDE DEF P
  <2>2. P \in SUBSET Nat
    BY DEF P
  <2> QED
    BY <1>1, <2>1, <2>2, NatInductionOnSet
<1>4. PICK g : good(n, g)
  BY <1>3
<1>5. DOMAIN p = 1..n
  BY <1>0
<1> QED
  BY <1>4, <1>5 DEF Climbs

LEMMA RootClimbs ==
    ASSUME NEW n \in Nat, NEW p, Ordered(p, n)
    PROVE  \A i \in 1..n : Root(p)[i] = IF p[i] = i THEN i ELSE Root(p)[p[i]]
<1>1. Root(p) = CHOOSE g : Climbs(p, g)
  BY DEF Root, Climbs
<1>2. Climbs(p, Root(p))
  BY <1>1, ClimbExists
<1>3. DOMAIN p = 1..n
  BY DEF Ordered
<1> DEFINE g == Root(p)
           rhs(i) == IF p[i] = i THEN i ELSE g[p[i]]
<1>4. g = [i \in 1..n |-> rhs(i)]
  BY <1>2, <1>3 DEF Climbs
<1> HIDE DEF g, rhs
<1>5. \A i \in 1..n : g[i] = rhs(i)
  BY <1>4
<1> QED
  BY <1>5 DEF g, rhs

(* Where a walk ends is a root, and it does not lie above the row.             *)
LEMMA RootIsRoot ==
    ASSUME NEW n \in Nat, NEW p, Ordered(p, n)
    PROVE  \A i \in 1..n : Root(p)[i] \in 1..n /\ Root(p)[i] <= i /\ p[Root(p)[i]] = Root(p)[i]
<1> DEFINE g == Root(p)
           T == {i \in 1..n : g[i] \in 1..n /\ g[i] <= i /\ p[g[i]] = g[i]}
<1>1. \A i \in 1..n : g[i] = IF p[i] = i THEN i ELSE g[p[i]]
  BY RootClimbs
<1> HIDE DEF g
<1>2. ASSUME NEW i \in 1..n, \A j \in 1..n : j < i => j \in T PROVE i \in T
  <2>1. p[i] \in 1..n /\ p[i] <= i
    BY DEF Ordered
  <2>2. CASE p[i] = i
    BY <1>1, <2>2
  <2>3. CASE p[i] # i
    <3>1. p[i] \in T /\ g[i] = g[p[i]]
      BY <1>1, <1>2, <2>1, <2>3
    <3> QED
      BY <2>1, <3>1
  <2> QED
    BY <2>2, <2>3
<1> HIDE DEF T
<1>3. 1..n \subseteq T
  BY <1>2, RowInduction
<1> QED
  BY <1>3 DEF T, g

(* Halving the paths of any rows leaves every row in its group: what find      *)
(* shortens never shows.                                                    *)
LEMMA HalvingKeepsRoots ==
    ASSUME NEW n \in Nat, NEW p, Ordered(p, n), NEW V
    PROVE  Ordered(Halve(p, V), n) /\ \A i \in 1..n : Root(Halve(p, V))[i] = Root(p)[i]
<1> DEFINE q == Halve(p, V)
           g == Root(p)
           h == Root(q)
<1>0. p \in [1..n -> 1..n] /\ \A i \in 1..n : p[i] \in 1..n /\ p[i] <= i
  BY DEF Ordered
<1>1. \A i \in 1..n : q[i] = IF i \in V THEN p[p[i]] ELSE p[i]
  BY <1>0 DEF Halve
<1>2. Ordered(q, n)
  <2>1. \A i \in 1..n : q[i] \in 1..n /\ q[i] <= p[i] /\ q[i] <= i
    BY <1>0, <1>1
  <2>2. q \in [1..n -> 1..n]
    <3>1. q = [i \in 1..n |-> q[i]]
      BY <1>0 DEF Halve
    <3> HIDE DEF q
    <3> QED
      BY <2>1, <3>1
  <2> QED
    BY <2>1, <2>2 DEF Ordered
<1>3. \A i \in 1..n : g[i] = IF p[i] = i THEN i ELSE g[p[i]]
  BY RootClimbs
<1>4. \A i \in 1..n : h[i] = IF q[i] = i THEN i ELSE h[q[i]]
  BY <1>2, RootClimbs
<1> HIDE DEF q, g, h
<1> DEFINE T == {i \in 1..n : h[i] = g[i]}
<1>5. ASSUME NEW i \in 1..n, \A j \in 1..n : j < i => j \in T PROVE i \in T
  <2>1. CASE p[i] = i
    BY <1>1, <1>3, <1>4, <2>1
  <2>2. CASE p[i] # i
    <3>1. p[i] < i /\ p[p[i]] \in 1..n /\ p[p[i]] <= p[i] /\ p[i] \in 1..n
      BY <1>0, <2>2
    <3>2. q[i] \in 1..n /\ q[i] < i
      BY <1>1, <3>1
    <3>3. h[i] = h[q[i]] /\ h[q[i]] = g[q[i]]
      BY <1>4, <1>5, <3>2
    <3>4. g[i] = g[p[i]] /\ g[p[i]] = g[p[p[i]]]
      BY <1>3, <2>2, <3>1
    <3>5. g[q[i]] = g[i]
      BY <1>1, <3>4
    <3> QED
      BY <3>3, <3>5
  <2> QED
    BY <2>1, <2>2
<1> HIDE DEF T
<1>6. 1..n \subseteq T
  BY <1>5, RowInduction
<1> QED
  BY <1>2, <1>6 DEF T, q, g, h

(* To make the lower of two roots the parent of the other joins their groups    *)
(* under the lower one and leaves all others.                                *)
Linked(p, q, n, a, b) ==
    Ordered(q, n) /\ \A k \in 1..n : Root(q)[k] = IF Root(p)[k] = b THEN a ELSE Root(p)[k]

LEMMA LinkJoins ==
    ASSUME NEW n \in Nat, NEW p, Ordered(p, n), NEW a \in 1..n, NEW b \in 1..n,
           p[a] = a, p[b] = b, a < b
    PROVE  Linked(p, [p EXCEPT ![b] = a], n, a, b)
<1> DEFINE q == [p EXCEPT ![b] = a]
           g == Root(p)
           h == Root(q)
<1>0. p \in [1..n -> 1..n] /\ \A i \in 1..n : p[i] \in 1..n /\ p[i] <= i
  BY DEF Ordered
<1>1. \A i \in 1..n : q[i] = IF i = b THEN a ELSE p[i]
  BY <1>0
<1>2. Ordered(q, n)
  <2>1. q \in [1..n -> 1..n]
    BY <1>0
  <2> QED
    BY <1>0, <1>1, <2>1 DEF Ordered
<1> HIDE DEF q
<1>3. \A i \in 1..n : g[i] = IF p[i] = i THEN i ELSE g[p[i]]
  BY RootClimbs
<1>4. \A i \in 1..n : h[i] = IF q[i] = i THEN i ELSE h[q[i]]
  BY <1>2, RootClimbs
<1> HIDE DEF g, h
<1> DEFINE T == {i \in 1..n : h[i] = IF g[i] = b THEN a ELSE g[i]}
<1>5. ASSUME NEW i \in 1..n, \A j \in 1..n : j < i => j \in T PROVE i \in T
  <2>1. CASE i = b
    <3>1. h[a] = a /\ g[b] = b /\ h[b] = h[a]
      BY <1>1, <1>3, <1>4
    <3> QED
      BY <2>1, <3>1
  <2>2. CASE i # b /\ p[i] = i
    BY <1>1, <1>3, <1>4, <2>2
  <2>3. CASE i # b /\ p[i] # i
    <3>1. p[i] \in 1..n /\ p[i] < i /\ q[i] = p[i]
      BY <1>0, <1>1, <2>3
    <3>2. h[i] = h[p[i]] /\ g[i] = g[p[i]] /\ p[i] \in T
      BY <1>3, <1>4, <1>5, <2>3, <3>1
    <3> QED
      BY <3>2
  <2> QED
    BY <2>1, <2>2, <2>3
<1> HIDE DEF T
<1>6. 1..n \subseteq T
  BY <1>5, RowInduction
<1> QED
  BY <1>2, <1>6 DEF Linked, T, q, g, h

FindKeeps(p, n, i) == Ordered(find(p, i), n) /\ \A k \in 1..n : Root(find(p, i))[k] = Root(p)[k]

LEMMA FindKeepsRoots ==
    ASSUME NEW n \in Nat, NEW p, Ordered(p, n), NEW i
    PROVE  FindKeeps(p, n, i)
  BY HalvingKeepsRoots DEF find, FindKeeps

(* The row that stands for the groups of a and b once they are joined.          *)
Lower(i, j) == IF i < j THEN i ELSE j

(* union joins the groups of two rows, under the better of their roots, and     *)
(* touches no other, in a forest of any size and any shape.                   *)
THEOREM UnionJoins ==
    ASSUME NEW n \in Nat, NEW p, Ordered(p, n), NEW a \in 1..n, NEW b \in 1..n
    PROVE  /\ Ordered(union(p, a, b), n)
           /\ \A k \in 1..n :
                 Root(union(p, a, b))[k] =
                    IF Root(p)[k] \in {Root(p)[a], Root(p)[b]} THEN Lower(Root(p)[a], Root(p)[b])
                                                               ELSE Root(p)[k]
<1> DEFINE ra == Root(p)[a]
           rb == Root(p)[b]
           f == find(p, a)
           g == find(f, b)
<1>1. Ordered(f, n) /\ \A k \in 1..n : Root(f)[k] = Root(p)[k]
  BY FindKeepsRoots DEF FindKeeps
<1> HIDE DEF f
<1>2. Ordered(g, n) /\ \A k \in 1..n : Root(g)[k] = Root(f)[k]
  BY <1>1, FindKeepsRoots DEF FindKeeps
<1> HIDE DEF g
<1>3. Ordered(g, n) /\ \A k \in 1..n : Root(g)[k] = Root(p)[k]
  BY <1>1, <1>2
<1>4. ra \in 1..n /\ rb \in 1..n /\ g[ra] = ra /\ g[rb] = rb
  <2>1. \A k \in 1..n : Root(g)[k] \in 1..n /\ g[Root(g)[k]] = Root(g)[k]
    BY <1>2, RootIsRoot
  <2> QED
    BY <1>3, <2>1
<1>5. union(p, a, b) = Link(g, ra, rb)
  BY DEF union, f, g
<1> HIDE DEF ra, rb
<1>6. CASE ra = rb
  <2>1. union(p, a, b) = g
    BY <1>5, <1>6 DEF Link
  <2> QED
    BY <1>3, <1>6, <2>1 DEF ra, rb, Lower
<1>7. CASE ra < rb
  <2> DEFINE q == [g EXCEPT ![rb] = ra]
  <2>1. union(p, a, b) = q
    BY <1>4, <1>5, <1>7 DEF Link
  <2>2. Linked(g, q, n, ra, rb)
    BY <1>2, <1>4, <1>7, LinkJoins
  <2> HIDE DEF q
  <2>3. \A k \in 1..n : Root(q)[k] = IF Root(p)[k] \in {ra, rb} THEN Lower(ra, rb) ELSE Root(p)[k]
    BY <1>3, <1>7, <2>2 DEF Linked, Lower
  <2> QED
    BY <2>1, <2>2, <2>3 DEF Linked, ra, rb
<1>8. CASE rb < ra
  <2> DEFINE q == [g EXCEPT ![ra] = rb]
  <2>1. union(p, a, b) = q
    BY <1>4, <1>5, <1>8 DEF Link
  <2>2. Linked(g, q, n, rb, ra)
    BY <1>2, <1>4, <1>8, LinkJoins
  <2> HIDE DEF q
  <2>3. \A k \in 1..n : Root(q)[k] = IF Root(p)[k] \in {ra, rb} THEN Lower(ra, rb) ELSE Root(p)[k]
    BY <1>3, <1>4, <1>8, <2>2 DEF Linked, Lower
  <2> QED
    BY <2>1, <2>2, <2>3 DEF Linked, ra, rb
<1> QED
  BY <1>4, <1>6, <1>7, <1>8

-----------------------------------------------------------------------------
(* Loops over a forest. *)

Forests(n) == {p \in [1..n -> 1..n] : Ordered(p, n)}

(* What holds before the loop and is kept by each iteration holds after each.  *)
LEMMA LoopInduction ==
    ASSUME NEW n \in Nat, NEW T, 0 \in T, \A k \in 1..n : k - 1 \in T => k \in T
    PROVE  0..n \subseteq T
<1> DEFINE P == {m \in Nat : m <= n => m \in T}
<1>1. 0 \in P
  OBVIOUS
<1>2. ASSUME NEW m \in P PROVE m + 1 \in P
  <2>1. m \in Nat
    OBVIOUS
  <2>2. ASSUME m + 1 <= n PROVE m + 1 \in T
    <3>1. m \in T /\ m + 1 \in 1..n /\ (m + 1) - 1 = m
      BY <2>1, <2>2
    <3> QED
      BY <3>1
  <2> QED
    BY <2>1, <2>2
<1>3. \A m \in Nat : m \in P
  <2> HIDE DEF P
  <2>1. P \in SUBSET Nat
    BY DEF P
  <2> QED
    BY <1>1, <1>2, <2>1, NatInductionOnSet
<1> QED
  BY <1>3

(* A loop whose body s turns forests into forests is a function of the number  *)
(* of its iterations.                                                       *)
StaysIn(F, n, s) == \A k \in 1..n : \A u \in F : s[k][u] \in F

Runs(g, F, n, base, s) == g \in [0..n -> F] /\ g[0] = base /\ \A k \in 1..n : g[k] = s[k][g[k - 1]]

LEMMA LoopExists ==
    ASSUME NEW n \in Nat, NEW F, NEW base \in F, NEW s, StaysIn(F, n, s)
    PROVE  \E g : Runs(g, F, n, base, s)
<1> USE DEF StaysIn
<1> DEFINE good(m, g) == g \in [0..m -> F] /\ g[0] = base /\ \A k \in 1..m : g[k] = s[k][g[k - 1]]
           T == {m \in 0..n : \E g : good(m, g)}
<1>1. 0 \in T
  <2> DEFINE g == [k \in 0..0 |-> base]
  <2>1. good(0, g)
    OBVIOUS
  <2> HIDE DEF good, g
  <2> QED
    BY <2>1
<1>2. ASSUME NEW k \in 1..n, k - 1 \in T PROVE k \in T
  <2>1. PICK g : good(k - 1, g)
    BY <1>2
  <2>2. g \in [0..(k - 1) -> F] /\ g[0] = base /\ \A j \in 1..(k - 1) : g[j] = s[j][g[j - 1]]
    BY <2>1
  <2>3. k \in Nat /\ k >= 1 /\ g[k - 1] \in F
    BY <2>2
  <2>4. PICK x \in F : x = s[k][g[k - 1]]
    BY <2>3
  <2> DEFINE h == [j \in 0..k |-> IF j = k THEN x ELSE g[j]]
  <2>5. h \in [0..k -> F]
    BY <2>2, <2>3
  <2>6. h[0] = base /\ \A j \in 0..(k - 1) : h[j] = g[j]
    BY <2>2, <2>3
  <2>7a. h[k] = x
    BY <2>3
  <2> HIDE DEF h
  <2>7. h[k] = s[k][g[k - 1]]
    BY <2>4, <2>7a
  <2>8. \A j \in 1..k : h[j] = s[j][h[j - 1]]
    <3>1. ASSUME NEW j \in 1..k PROVE h[j] = s[j][h[j - 1]]
      <4>1. CASE j = k
        <5>1. h[k - 1] = g[k - 1]
          BY <2>3, <2>6
        <5> QED
          BY <2>7, <4>1, <5>1
      <4>2. CASE j # k
        <5>1. j \in 1..(k - 1) /\ j - 1 \in 0..(k - 1) /\ j \in 0..(k - 1)
          BY <2>3, <4>2
        <5>2. h[j] = g[j] /\ h[j - 1] = g[j - 1] /\ g[j] = s[j][g[j - 1]]
          BY <2>2, <2>6, <5>1
        <5> QED
          BY <5>2
      <4> QED
        BY <4>1, <4>2
    <3> QED
      BY <3>1
  <2>9. good(k, h)
    BY <2>5, <2>6, <2>8
  <2> HIDE DEF good
  <2> QED
    BY <2>3, <2>9
<1> HIDE DEF T
<1>3. 0..n \subseteq T
  BY <1>1, <1>2, LoopInduction
<1>4. PICK g : good(n, g)
  BY <1>3 DEF T
<1> QED
  BY <1>4 DEF Runs

-----------------------------------------------------------------------------
(* What the steps of Dedupe do to a forest, for an equivalence E of the rows:    *)
(* whatever is joined stays joined, and if only rows that E relates were joined *)
(* then so it stays.                                                        *)

Together(p, i, j) == Root(p)[i] = Root(p)[j]

IsEquivalence(E, n) ==
    /\ \A i \in 1..n : <<i, i>> \in E
    /\ \A i, j \in 1..n : <<i, j>> \in E => <<j, i>> \in E
    /\ \A i, j, k \in 1..n : <<i, j>> \in E /\ <<j, k>> \in E => <<i, k>> \in E

Within(p, n, E) == \A i, j \in 1..n : Together(p, i, j) => <<i, j>> \in E

Advances(p, q, n, E) ==
    /\ q \in Forests(n)
    /\ \A i, j \in 1..n : Together(p, i, j) => Together(q, i, j)
    /\ Within(p, n, E) => Within(q, n, E)

LEMMA AdvancesOn ==
    ASSUME NEW n \in Nat, NEW E, NEW p, NEW q, NEW r, Advances(p, q, n, E), Advances(q, r, n, E)
    PROVE  Advances(p, r, n, E)
  BY DEF Advances

LEMMA AdvancesNowhere ==
    ASSUME NEW n \in Nat, NEW E, NEW p \in Forests(n)
    PROVE  Advances(p, p, n, E)
  BY DEF Advances

LEMMA OrderedIsForest ==
    ASSUME NEW n \in Nat, NEW p
    PROVE  p \in Forests(n) <=> Ordered(p, n)
  BY DEF Forests, Ordered

LEMMA FindAdvances ==
    ASSUME NEW n \in Nat, NEW E, NEW p \in Forests(n), NEW i
    PROVE  Advances(p, find(p, i), n, E)
<1>1. FindKeeps(p, n, i)
  BY FindKeepsRoots, OrderedIsForest
<1> DEFINE f == find(p, i)
<1>2. f \in Forests(n) /\ \A k \in 1..n : Root(f)[k] = Root(p)[k]
  BY <1>1, OrderedIsForest DEF FindKeeps
<1> HIDE DEF f
<1>3. Advances(p, f, n, E)
  BY <1>2 DEF Advances, Together, Within
<1> QED
  BY <1>3 DEF f

LEMMA UnionAdvances ==
    ASSUME NEW n \in Nat, NEW E, IsEquivalence(E, n), NEW p \in Forests(n),
           NEW a \in 1..n, NEW b \in 1..n, <<a, b>> \in E
    PROVE  Advances(p, union(p, a, b), n, E) /\ Together(union(p, a, b), a, b)
<1> DEFINE f == union(p, a, b)
           g == Root(p)
           h == Root(f)
           low == Lower(g[a], g[b])
<1>1. Ordered(p, n)
  BY OrderedIsForest
<1>2. f \in Forests(n) /\ \A k \in 1..n : h[k] = IF g[k] \in {g[a], g[b]} THEN low ELSE g[k]
  BY <1>1, UnionJoins, OrderedIsForest
<1>3. low \in {g[a], g[b]}
  BY DEF Lower
<1> HIDE DEF f, g, h, low
<1>4. h[a] = h[b] /\ \A i, j \in 1..n : g[i] = g[j] => h[i] = h[j]
  BY <1>2
<1>5. ASSUME \A i, j \in 1..n : g[i] = g[j] => <<i, j>> \in E, NEW i \in 1..n, NEW j \in 1..n, h[i] = h[j]
      PROVE  <<i, j>> \in E
  <2>1. <<a, b>> \in E /\ <<b, a>> \in E
    BY DEF IsEquivalence
  <2>2. CASE g[i] = g[j]
    BY <1>5, <2>2
  <2>3. CASE g[i] # g[j]
    <3>1. g[i] \in {g[a], g[b]} /\ g[j] \in {g[a], g[b]}
      BY <1>2, <1>3, <1>5, <2>3
    <3>2. CASE g[i] = g[a] /\ g[j] = g[b]
      <4>1. <<i, a>> \in E /\ <<b, j>> \in E
        BY <1>5, <3>2
      <4>2. <<i, b>> \in E
        BY <2>1, <4>1 DEF IsEquivalence
      <4> QED
        BY <4>1, <4>2 DEF IsEquivalence
    <3>3. CASE g[i] = g[b] /\ g[j] = g[a]
      <4>1. <<i, b>> \in E /\ <<a, j>> \in E
        BY <1>5, <3>3
      <4>2. <<i, a>> \in E
        BY <2>1, <4>1 DEF IsEquivalence
      <4> QED
        BY <4>1, <4>2 DEF IsEquivalence
    <3> QED
      BY <2>3, <3>1, <3>2, <3>3
  <2> QED
    BY <2>2, <2>3
<1> QED
  BY <1>2, <1>4, <1>5 DEF Advances, Together, Within, f, g, h

(* A loop of such steps: each iteration's work is still there at the end.        *)
LEMMA LoopAdvances ==
    ASSUME NEW n \in Nat, NEW m \in Nat, NEW E, NEW g, g[0] \in Forests(n),
           \A k \in 1..m : Advances(g[k - 1], g[k], n, E)
    PROVE  \A k \in 0..m : Advances(g[0], g[k], n, E) /\ Advances(g[k], g[m], n, E)
<1>0. \A k \in 0..m : g[k] \in Forests(n)
  <2>1. ASSUME NEW k \in 0..m, k # 0 PROVE g[k] \in Forests(n)
    <3>1. k \in 1..m
      BY <2>1
    <3> QED
      BY <3>1 DEF Advances
  <2> QED
    BY <2>1
<1>1. \A k \in 0..m : Advances(g[0], g[k], n, E)
  <2> DEFINE T == {k \in 0..m : Advances(g[0], g[k], n, E)}
  <2>1. 0 \in T
    BY AdvancesNowhere
  <2>2. ASSUME NEW k \in 1..m, k - 1 \in T PROVE k \in T
    <3>1. Advances(g[0], g[k - 1], n, E) /\ Advances(g[k - 1], g[k], n, E) /\ k \in 0..m
      BY <2>2
    <3> QED
      BY <3>1, AdvancesOn
  <2> HIDE DEF T
  <2>3. 0..m \subseteq T
    BY <2>1, <2>2, LoopInduction
  <2> QED
    BY <2>3 DEF T
<1>2. \A k \in 0..m : Advances(g[k], g[m], n, E)
  <2> DEFINE T == {k \in 0..m : Advances(g[m - k], g[m], n, E)}
  <2>1. 0 \in T
    <3>1. m - 0 = m /\ 0 \in 0..m /\ m \in 0..m
      OBVIOUS
    <3>2. Advances(g[m - 0], g[m], n, E)
      BY <1>0, <3>1, AdvancesNowhere
    <3> QED
      BY <3>1, <3>2
  <2>2. ASSUME NEW k \in 1..m, k - 1 \in T PROVE k \in T
    <3> DEFINE i == m - (k - 1)
    <3>1. i \in 1..m /\ i - 1 = m - k /\ k \in 0..m
      OBVIOUS
    <3>2. Advances(g[i], g[m], n, E)
      BY <2>2
    <3> HIDE DEF i
    <3>3. Advances(g[i - 1], g[i], n, E)
      BY <3>1
    <3>4. Advances(g[i - 1], g[m], n, E)
      BY <3>2, <3>3, AdvancesOn
    <3> QED
      BY <3>1, <3>4
  <2> HIDE DEF T
  <2>3. 0..m \subseteq T
    BY <2>1, <2>2, LoopInduction
  <2>4. ASSUME NEW k \in 0..m PROVE Advances(g[k], g[m], n, E)
    <3>1. m - k \in 0..m /\ m - (m - k) = k
      OBVIOUS
    <3>2. m - k \in T
      BY <2>3, <3>1
    <3>3. Advances(g[m - (m - k)], g[m], n, E)
      BY <3>2 DEF T
    <3> QED
      BY <3>1, <3>3
  <2> QED
    BY <2>4
<1> QED
  BY <1>1, <1>2

-----------------------------------------------------------------------------
(* The loops of Dedupe, for rows of which E relates those that a rule makes the   *)
(* same job.                                                                *)

Related(row, n, E) ==
    /\ Len(row) = n
    /\ IsEquivalence(E, n)
    /\ \A i, j \in 1..n : SameJob(row[i], row[j]) => <<i, j>> \in E

LEMMA LeastRow ==
    ASSUME NEW n \in Nat, NEW T \in SUBSET (1..n), T # {}
    PROVE  \E i \in T : \A j \in T : i <= j
<1> SUFFICES ASSUME \A i \in T : \E j \in T : j < i PROVE FALSE
  OBVIOUS
<1> DEFINE R == (1..n) \ T
<1>1. \A i \in 1..n : (\A j \in 1..n : j < i => j \in R) => i \in R
  OBVIOUS
<1> HIDE DEF R
<1>2. 1..n \subseteq R
  BY <1>1, RowInduction
<1> QED
  BY <1>2 DEF R

(* The maps of the first row with a url, and with a key.                       *)
FirstWith(f, n, i, m) == m \in 1..n /\ f[m] = f[i] /\ \A k \in 1..n : f[k] = f[i] => m <= k

LEMMA FirstWithExists ==
    ASSUME NEW n \in Nat, NEW f, NEW i \in 1..n
    PROVE  \E m : FirstWith(f, n, i, m)
<1> DEFINE T == {k \in 1..n : f[k] = f[i]}
<1>1. T \in SUBSET (1..n) /\ i \in T
  OBVIOUS
<1> HIDE DEF T
<1>2. PICK m \in T : \A k \in T : m <= k
  BY <1>1, LeastRow
<1> QED
  BY <1>2 DEF T, FirstWith

LEMMA FirstOfUrl ==
    ASSUME NEW n \in Nat, NEW row, NEW i \in 1..n, NEW m, Url[row[i]] # Blank,
           FirstWith([k \in 1..n |-> Url[row[k]]], n, i, m)
    PROVE  byURL(row, i) = m
<1>1. m \in 1..n /\ m <= i /\ Url[row[m]] = Url[row[i]] /\ \A k \in 1..n : Url[row[k]] = Url[row[i]] => m <= k
  BY DEF FirstWith
<1> DEFINE is(j) == Url[row[j]] = Url[row[i]] /\ \A k \in 1..(j - 1) : Url[row[k]] # Url[row[i]]
<1>2. m \in 1..i /\ is(m)
  BY <1>1
<1>3. \A j \in 1..i : is(j) => j = m
  BY <1>1
<1>4. byURL(row, i) = CHOOSE j \in 1..i : is(j)
  BY DEF byURL
<1> HIDE DEF is
<1>5. (CHOOSE j \in 1..i : is(j)) \in 1..i /\ is(CHOOSE j \in 1..i : is(j))
  BY <1>2
<1> QED
  BY <1>3, <1>4, <1>5

LEMMA FirstOfKey ==
    ASSUME NEW n \in Nat, NEW row, NEW i \in 1..n, NEW m,
           FirstWith([k \in 1..n |-> Key(row[k])], n, i, m)
    PROVE  byKey(row, i) = m
<1>1. m \in 1..n /\ m <= i /\ Key(row[m]) = Key(row[i]) /\ \A k \in 1..n : Key(row[k]) = Key(row[i]) => m <= k
  BY DEF FirstWith
<1> DEFINE is(j) == Key(row[j]) = Key(row[i]) /\ \A k \in 1..(j - 1) : Key(row[k]) # Key(row[i])
<1>2. m \in 1..i /\ is(m)
  BY <1>1
<1>3. \A j \in 1..i : is(j) => j = m
  BY <1>1
<1>4. byKey(row, i) = CHOOSE j \in 1..i : is(j)
  BY DEF byKey
<1> HIDE DEF is
<1>5. (CHOOSE j \in 1..i : is(j)) \in 1..i /\ is(CHOOSE j \in 1..i : is(j))
  BY <1>2
<1> QED
  BY <1>3, <1>4, <1>5

LEMMA FirstsAreSame ==
    ASSUME NEW n \in Nat, NEW row, NEW i \in 1..n
    PROVE  /\ byURL(row, i) \in 1..n
           /\ byURL(row, i) = i \/ (Url[row[i]] # Blank /\ Url[row[byURL(row, i)]] = Url[row[i]])
           /\ byKey(row, i) \in 1..n /\ Key(row[byKey(row, i)]) = Key(row[i])
           /\ \A j \in 1..n : /\ Url[row[i]] # Blank /\ Url[row[i]] = Url[row[j]] => byURL(row, i) = byURL(row, j)
                              /\ Key(row[i]) = Key(row[j]) => byKey(row, i) = byKey(row, j)
<1> DEFINE u == [k \in 1..n |-> Url[row[k]]]
           c == [k \in 1..n |-> Key(row[k])]
<1>0. \A k \in 1..n : u[k] = Url[row[k]] /\ c[k] = Key(row[k])
  OBVIOUS
<1>1. \A j \in 1..n : \A m : u[j] # Blank /\ FirstWith(u, n, j, m) => byURL(row, j) = m
  BY <1>0, FirstOfUrl
<1>2. \A j \in 1..n : \A m : FirstWith(c, n, j, m) => byKey(row, j) = m
  BY FirstOfKey
<1> HIDE DEF u, c
<1>3. PICK a : FirstWith(u, n, i, a)
  BY FirstWithExists
<1>4. PICK b : FirstWith(c, n, i, b)
  BY FirstWithExists
<1>5. a \in 1..n /\ u[a] = u[i] /\ (u[i] # Blank => byURL(row, i) = a)
  BY <1>1, <1>3 DEF FirstWith
<1>5a. u[i] = Blank => byURL(row, i) = i
  BY <1>0 DEF byURL
<1>6. byKey(row, i) = b /\ b \in 1..n /\ c[b] = c[i]
  BY <1>2, <1>4 DEF FirstWith
<1>7. ASSUME NEW j \in 1..n PROVE /\ u[i] # Blank /\ u[i] = u[j] => byURL(row, j) = a
                                  /\ c[i] = c[j] => byKey(row, j) = b
  <2>1. u[i] = u[j] => FirstWith(u, n, j, a)
    BY <1>3 DEF FirstWith
  <2>2. c[i] = c[j] => FirstWith(c, n, j, b)
    BY <1>4 DEF FirstWith
  <2> QED
    BY <1>1, <1>2, <2>1, <2>2
<1> QED
  BY <1>0, <1>5, <1>5a, <1>6, <1>7

(* The first pass: rules 1 and 2.                                            *)
SameUrlOrKeyBody(row, k, u) == union(union(u, k, byURL(row, k)), k, byKey(row, k))

LEMMA SameUrlOrKeyStep ==
    ASSUME NEW n \in Nat, NEW row, NEW E, Related(row, n, E), NEW k \in 1..n, NEW u \in Forests(n)
    PROVE  /\ Advances(u, SameUrlOrKeyBody(row, k, u), n, E)
           /\ Together(SameUrlOrKeyBody(row, k, u), k, byURL(row, k))
           /\ Together(SameUrlOrKeyBody(row, k, u), k, byKey(row, k))
<1> DEFINE a == byURL(row, k)
           b == byKey(row, k)
           v == union(u, k, a)
           w == union(v, k, b)
<1>1. /\ a \in 1..n /\ b \in 1..n /\ Key(row[b]) = Key(row[k])
      /\ a = k \/ (Url[row[k]] # Blank /\ Url[row[a]] = Url[row[k]])
  BY FirstsAreSame
<1> HIDE DEF a, b
<1>2. <<k, a>> \in E /\ <<k, b>> \in E
  <2>1. SameJob(row[k], row[a]) /\ SameJob(row[k], row[b])
    BY <1>1 DEF SameJob
  <2> QED
    BY <1>1, <2>1 DEF Related
<1>3. IsEquivalence(E, n)
  BY DEF Related
<1>4. Advances(u, v, n, E) /\ Together(v, k, a)
  BY <1>1, <1>2, <1>3, UnionAdvances
<1>5. v \in Forests(n)
  BY <1>4 DEF Advances
<1> HIDE DEF v
<1>6. Advances(v, w, n, E) /\ Together(w, k, b)
  BY <1>1, <1>2, <1>3, <1>5, UnionAdvances
<1> HIDE DEF w
<1>7. Advances(u, w, n, E) /\ Together(w, k, a)
  BY <1>1, <1>4, <1>6, AdvancesOn DEF Advances
<1> QED
  BY <1>6, <1>7 DEF a, b, v, w, SameUrlOrKeyBody

LEMMA SameUrlOrKeyLoop ==
    ASSUME NEW n \in Nat, NEW row, NEW E, Related(row, n, E), NEW p \in Forests(n)
    PROVE  \E g : /\ g[0] = p /\ g[n] = SameUrlOrKey(row, p)
                  /\ \A k \in 1..n : g[k - 1] \in Forests(n) /\ g[k] = SameUrlOrKeyBody(row, k, g[k - 1])
<1> DEFINE F == Forests(n)
           s == [k \in 1..n |-> [u \in F |-> SameUrlOrKeyBody(row, k, u)]]
           is(g) == g = [i \in 0..n |-> IF i = 0 THEN p ELSE SameUrlOrKeyBody(row, i, g[i - 1])]
           pass == CHOOSE g : is(g)
<1>1. SameUrlOrKey(row, p) = pass[n]
  BY DEF SameUrlOrKey, Related, SameUrlOrKeyBody
<1>2. \A k \in 1..n : \A u \in F : SameUrlOrKeyBody(row, k, u) \in F
  BY SameUrlOrKeyStep DEF Advances
<1> HIDE DEF F
<1>3. \A k \in 1..n : \A u \in F : s[k][u] = SameUrlOrKeyBody(row, k, u) /\ s[k][u] \in F
  BY <1>2
<1>4. p \in F
  BY DEF F
<1> HIDE DEF s, is, pass
<1>5. PICK g : Runs(g, F, n, p, s)
  <2>1. StaysIn(F, n, s)
    BY <1>3 DEF StaysIn
  <2> QED
    BY <1>4, <2>1, LoopExists
<1>6. is(g)
  <2>1. \A i \in 0..n : g[i] = IF i = 0 THEN p ELSE SameUrlOrKeyBody(row, i, g[i - 1])
    BY <1>3, <1>5 DEF Runs
  <2> QED
    BY <1>5, <2>1 DEF is, Runs
<1>7. is(pass)
  BY <1>6 DEF pass
<1>8. pass[0] = p /\ \A k \in 1..n : pass[k] = SameUrlOrKeyBody(row, k, pass[k - 1])
  <2> DEFINE rhs(i) == IF i = 0 THEN p ELSE SameUrlOrKeyBody(row, i, pass[i - 1])
  <2>1. pass = [i \in 0..n |-> rhs(i)]
    BY <1>7 DEF is
  <2> HIDE DEF rhs
  <2>2. \A i \in 0..n : pass[i] = rhs(i)
    BY <2>1
  <2> QED
    BY <2>2 DEF rhs
<1>9. \A k \in 0..n : pass[k] \in F
  <2> DEFINE T == {k \in 0..n : pass[k] \in F}
  <2>1. 0 \in T /\ \A k \in 1..n : k - 1 \in T => k \in T
    BY <1>2, <1>4, <1>8
  <2> HIDE DEF T
  <2>2. 0..n \subseteq T
    BY <2>1, LoopInduction
  <2> QED
    BY <2>2 DEF T
<1>10. \A k \in 1..n : k - 1 \in 0..n
  OBVIOUS
<1> QED
  BY <1>1, <1>8, <1>9, <1>10 DEF F

(* Two rows with the same url, and two with the same key, are joined by the first *)
(* one, whichever rows lie between them.                                      *)
LEMMA SameUrlOrKeyJoins ==
    ASSUME NEW n \in Nat, NEW row, NEW E, Related(row, n, E), NEW p \in Forests(n)
    PROVE  /\ Advances(p, SameUrlOrKey(row, p), n, E)
           /\ \A i, j \in 1..n :
                 (Url[row[i]] # Blank /\ Url[row[i]] = Url[row[j]]) \/ Key(row[i]) = Key(row[j])
                    => Together(SameUrlOrKey(row, p), i, j)
<1> DEFINE q == SameUrlOrKey(row, p)
<1>1. PICK g : /\ g[0] = p /\ g[n] = q
               /\ \A k \in 1..n : g[k - 1] \in Forests(n) /\ g[k] = SameUrlOrKeyBody(row, k, g[k - 1])
  BY SameUrlOrKeyLoop
<1> HIDE DEF q
<1>2. \A k \in 1..n : /\ Advances(g[k - 1], g[k], n, E)
                      /\ Together(g[k], k, byURL(row, k)) /\ Together(g[k], k, byKey(row, k))
  BY <1>1, SameUrlOrKeyStep
<1>3. \A k \in 0..n : Advances(g[0], g[k], n, E) /\ Advances(g[k], g[n], n, E)
  BY <1>1, <1>2, LoopAdvances
<1>4. Advances(p, q, n, E)
  <2>1. n \in 0..n
    OBVIOUS
  <2> QED
    BY <1>1, <1>3, <2>1
<1>5. ASSUME NEW k \in 1..n PROVE Together(q, k, byURL(row, k)) /\ Together(q, k, byKey(row, k))
  <2>1. byURL(row, k) \in 1..n /\ byKey(row, k) \in 1..n
    BY FirstsAreSame
  <2>2. Advances(g[k], q, n, E)
    BY <1>1, <1>3
  <2> QED
    BY <1>2, <2>1, <2>2 DEF Advances
<1>6. ASSUME NEW i \in 1..n, NEW j \in 1..n,
             (Url[row[i]] # Blank /\ Url[row[i]] = Url[row[j]]) \/ Key(row[i]) = Key(row[j])
      PROVE  Together(q, i, j)
  <2>1. byURL(row, i) = byURL(row, j) \/ byKey(row, i) = byKey(row, j)
    BY <1>6, FirstsAreSame
  <2>2. /\ Together(q, i, byURL(row, i)) /\ Together(q, j, byURL(row, j))
        /\ Together(q, i, byKey(row, i)) /\ Together(q, j, byKey(row, j))
    BY <1>5
  <2> QED
    BY <2>1, <2>2 DEF Together
<1> QED
  BY <1>4, <1>6 DEF q

(* Rule 3, for one pair of a bucket: joined already or joined now.              *)
AreAlike(row, i, j) == Bucket(row[i]) = Bucket(row[j]) /\ {Title[row[i]], Title[row[j]]} \in Alike

SimilarToBody(row, i, j, u) ==
    IF i < j /\ Bucket(row[j]) = Bucket(row[i]) THEN Compare(row, u, i, j) ELSE u

LEMMA SimilarToStep ==
    ASSUME NEW n \in Nat, NEW row, NEW E, Related(row, n, E), NEW i \in 1..n, NEW j \in 1..n,
           NEW u \in Forests(n)
    PROVE  /\ Advances(u, SimilarToBody(row, i, j, u), n, E)
           /\ i < j /\ AreAlike(row, i, j) => Together(SimilarToBody(row, i, j, u), i, j)
<1>1. CASE ~ (i < j /\ Bucket(row[j]) = Bucket(row[i]))
  BY <1>1, AdvancesNowhere DEF SimilarToBody, AreAlike
<1>2. CASE i < j /\ Bucket(row[j]) = Bucket(row[i])
  <2> DEFINE v == find(u, i)
             w == find(v, j)
             x == union(w, i, j)
  <2>1. Compare(row, u, i, j) = IF ~ Together(w, i, j) /\ {Title[row[i]], Title[row[j]]} \in Alike THEN x ELSE w
    BY DEF Compare, Together
  <2>2. Advances(u, v, n, E)
    BY FindAdvances
  <2>3. v \in Forests(n)
    BY <2>2 DEF Advances
  <2> HIDE DEF v
  <2>4. Advances(v, w, n, E)
    BY <2>3, FindAdvances
  <2>5. w \in Forests(n)
    BY <2>4 DEF Advances
  <2> HIDE DEF w
  <2>6. Advances(u, w, n, E)
    BY <2>2, <2>4, AdvancesOn
  <2>7. ASSUME {Title[row[i]], Title[row[j]]} \in Alike PROVE Advances(w, x, n, E) /\ Together(x, i, j)
    <3>1. <<i, j>> \in E /\ IsEquivalence(E, n)
      BY <1>2, <2>7 DEF Related, SameJob
    <3> QED
      BY <2>5, <3>1, UnionAdvances
  <2> HIDE DEF x
  <2>8. CASE ~ Together(w, i, j) /\ {Title[row[i]], Title[row[j]]} \in Alike
    <3>1. Advances(u, x, n, E)
      BY <2>6, <2>7, <2>8, AdvancesOn
    <3> QED
      BY <1>2, <2>1, <2>7, <2>8, <3>1 DEF SimilarToBody
  <2>9. CASE ~ (~ Together(w, i, j) /\ {Title[row[i]], Title[row[j]]} \in Alike)
    BY <1>2, <2>1, <2>6, <2>9 DEF SimilarToBody, AreAlike
  <2> QED
    BY <2>8, <2>9
<1> QED
  BY <1>1, <1>2

LEMMA SimilarToLoop ==
    ASSUME NEW n \in Nat, NEW row, NEW E, Related(row, n, E), NEW i \in 1..n, NEW p \in Forests(n)
    PROVE  \E g : /\ g[0] = p /\ g[n] = SimilarTo(row, p, i)
                  /\ \A k \in 1..n : g[k - 1] \in Forests(n) /\ g[k] = SimilarToBody(row, i, k, g[k - 1])
<1> DEFINE F == Forests(n)
           s == [k \in 1..n |-> [u \in F |-> SimilarToBody(row, i, k, u)]]
           is(g) == g = [h \in 0..n |-> IF h = 0 THEN p ELSE SimilarToBody(row, i, h, g[h - 1])]
           pass == CHOOSE g : is(g)
<1>1. SimilarTo(row, p, i) = pass[n]
  BY DEF SimilarTo, Related, SimilarToBody
<1>2. \A k \in 1..n : \A u \in F : SimilarToBody(row, i, k, u) \in F
  BY SimilarToStep DEF Advances
<1> HIDE DEF F
<1>3. \A k \in 1..n : \A u \in F : s[k][u] = SimilarToBody(row, i, k, u) /\ s[k][u] \in F
  BY <1>2
<1>4. p \in F
  BY DEF F
<1> HIDE DEF s, is, pass
<1>5. PICK g : Runs(g, F, n, p, s)
  <2>1. StaysIn(F, n, s)
    BY <1>3 DEF StaysIn
  <2> QED
    BY <1>4, <2>1, LoopExists
<1>6. is(g)
  <2>1. \A h \in 0..n : g[h] = IF h = 0 THEN p ELSE SimilarToBody(row, i, h, g[h - 1])
    BY <1>3, <1>5 DEF Runs
  <2> QED
    BY <1>5, <2>1 DEF is, Runs
<1>7. is(pass)
  BY <1>6 DEF pass
<1>8. pass[0] = p /\ \A k \in 1..n : pass[k] = SimilarToBody(row, i, k, pass[k - 1])
  <2> DEFINE rhs(h) == IF h = 0 THEN p ELSE SimilarToBody(row, i, h, pass[h - 1])
  <2>1. pass = [h \in 0..n |-> rhs(h)]
    BY <1>7 DEF is
  <2> HIDE DEF rhs
  <2>2. \A h \in 0..n : pass[h] = rhs(h)
    BY <2>1
  <2> QED
    BY <2>2 DEF rhs
<1>9. \A k \in 0..n : pass[k] \in F
  <2> DEFINE T == {k \in 0..n : pass[k] \in F}
  <2>1. 0 \in T /\ \A k \in 1..n : k - 1 \in T => k \in T
    BY <1>2, <1>4, <1>8
  <2> HIDE DEF T
  <2>2. 0..n \subseteq T
    BY <2>1, LoopInduction
  <2> QED
    BY <2>2 DEF T
<1>10. \A k \in 1..n : k - 1 \in 0..n
  OBVIOUS
<1> QED
  BY <1>1, <1>8, <1>9, <1>10 DEF F

LEMMA SimilarToJoins ==
    ASSUME NEW n \in Nat, NEW row, NEW E, Related(row, n, E), NEW i \in 1..n, NEW p \in Forests(n)
    PROVE  /\ Advances(p, SimilarTo(row, p, i), n, E)
           /\ \A j \in 1..n : i < j /\ AreAlike(row, i, j) => Together(SimilarTo(row, p, i), i, j)
<1> DEFINE q == SimilarTo(row, p, i)
<1>1. PICK g : /\ g[0] = p /\ g[n] = q
               /\ \A k \in 1..n : g[k - 1] \in Forests(n) /\ g[k] = SimilarToBody(row, i, k, g[k - 1])
  BY SimilarToLoop
<1> HIDE DEF q
<1>2. \A k \in 1..n : /\ Advances(g[k - 1], g[k], n, E)
                      /\ i < k /\ AreAlike(row, i, k) => Together(g[k], i, k)
  BY <1>1, SimilarToStep
<1>3. \A k \in 0..n : Advances(g[0], g[k], n, E) /\ Advances(g[k], g[n], n, E)
  BY <1>1, <1>2, LoopAdvances
<1>4. Advances(p, q, n, E)
  <2>1. n \in 0..n
    OBVIOUS
  <2> QED
    BY <1>1, <1>3, <2>1
<1>5. ASSUME NEW k \in 1..n, i < k, AreAlike(row, i, k) PROVE Together(q, i, k)
  <2>1. Advances(g[k], q, n, E)
    BY <1>1, <1>3
  <2> QED
    BY <1>2, <1>5, <2>1 DEF Advances
<1> QED
  BY <1>4, <1>5 DEF q

SimilarInBucketBody(row, bucket, i, u) == IF Bucket(row[i]) = bucket THEN SimilarTo(row, u, i) ELSE u

LEMMA SimilarInBucketStep ==
    ASSUME NEW n \in Nat, NEW row, NEW E, Related(row, n, E), NEW bucket, NEW i \in 1..n,
           NEW u \in Forests(n)
    PROVE  /\ Advances(u, SimilarInBucketBody(row, bucket, i, u), n, E)
           /\ \A j \in 1..n : Bucket(row[i]) = bucket /\ i < j /\ AreAlike(row, i, j)
                                 => Together(SimilarInBucketBody(row, bucket, i, u), i, j)
  BY SimilarToJoins, AdvancesNowhere DEF SimilarInBucketBody

LEMMA SimilarInBucketLoop ==
    ASSUME NEW n \in Nat, NEW row, NEW E, Related(row, n, E), NEW bucket, NEW p \in Forests(n)
    PROVE  \E g : /\ g[0] = p /\ g[n] = SimilarInBucket(row, p, bucket)
                  /\ \A k \in 1..n :
                        g[k - 1] \in Forests(n) /\ g[k] = SimilarInBucketBody(row, bucket, k, g[k - 1])
<1> DEFINE F == Forests(n)
           s == [k \in 1..n |-> [u \in F |-> SimilarInBucketBody(row, bucket, k, u)]]
           is(g) == g = [i \in 0..n |-> IF i = 0 THEN p ELSE SimilarInBucketBody(row, bucket, i, g[i - 1])]
           pass == CHOOSE g : is(g)
<1>1. SimilarInBucket(row, p, bucket) = pass[n]
  BY DEF SimilarInBucket, Related, SimilarInBucketBody
<1>2. \A k \in 1..n : \A u \in F : SimilarInBucketBody(row, bucket, k, u) \in F
  BY SimilarInBucketStep DEF Advances
<1> HIDE DEF F
<1>3. \A k \in 1..n : \A u \in F : s[k][u] = SimilarInBucketBody(row, bucket, k, u) /\ s[k][u] \in F
  BY <1>2
<1>4. p \in F
  BY DEF F
<1> HIDE DEF s, is, pass
<1>5. PICK g : Runs(g, F, n, p, s)
  <2>1. StaysIn(F, n, s)
    BY <1>3 DEF StaysIn
  <2> QED
    BY <1>4, <2>1, LoopExists
<1>6. is(g)
  <2>1. \A i \in 0..n : g[i] = IF i = 0 THEN p ELSE SimilarInBucketBody(row, bucket, i, g[i - 1])
    BY <1>3, <1>5 DEF Runs
  <2> QED
    BY <1>5, <2>1 DEF is, Runs
<1>7. is(pass)
  BY <1>6 DEF pass
<1>8. pass[0] = p /\ \A k \in 1..n : pass[k] = SimilarInBucketBody(row, bucket, k, pass[k - 1])
  <2> DEFINE rhs(i) == IF i = 0 THEN p ELSE SimilarInBucketBody(row, bucket, i, pass[i - 1])
  <2>1. pass = [i \in 0..n |-> rhs(i)]
    BY <1>7 DEF is
  <2> HIDE DEF rhs
  <2>2. \A i \in 0..n : pass[i] = rhs(i)
    BY <2>1
  <2> QED
    BY <2>2 DEF rhs
<1>9. \A k \in 0..n : pass[k] \in F
  <2> DEFINE T == {k \in 0..n : pass[k] \in F}
  <2>1. 0 \in T /\ \A k \in 1..n : k - 1 \in T => k \in T
    BY <1>2, <1>4, <1>8
  <2> HIDE DEF T
  <2>2. 0..n \subseteq T
    BY <2>1, LoopInduction
  <2> QED
    BY <2>2 DEF T
<1>10. \A k \in 1..n : k - 1 \in 0..n
  OBVIOUS
<1> QED
  BY <1>1, <1>8, <1>9, <1>10 DEF F

LEMMA SimilarInBucketJoins ==
    ASSUME NEW n \in Nat, NEW row, NEW E, Related(row, n, E), NEW bucket, NEW p \in Forests(n)
    PROVE  /\ Advances(p, SimilarInBucket(row, p, bucket), n, E)
           /\ \A i, j \in 1..n : Bucket(row[i]) = bucket /\ i < j /\ AreAlike(row, i, j)
                                    => Together(SimilarInBucket(row, p, bucket), i, j)
<1> DEFINE q == SimilarInBucket(row, p, bucket)
<1>1. PICK g : /\ g[0] = p /\ g[n] = q
               /\ \A k \in 1..n :
                     g[k - 1] \in Forests(n) /\ g[k] = SimilarInBucketBody(row, bucket, k, g[k - 1])
  BY SimilarInBucketLoop
<1> HIDE DEF q
<1>2. \A k \in 1..n :
         /\ Advances(g[k - 1], g[k], n, E)
         /\ \A j \in 1..n : Bucket(row[k]) = bucket /\ k < j /\ AreAlike(row, k, j) => Together(g[k], k, j)
  BY <1>1, SimilarInBucketStep
<1>3. \A k \in 0..n : Advances(g[0], g[k], n, E) /\ Advances(g[k], g[n], n, E)
  BY <1>1, <1>2, LoopAdvances
<1>4. Advances(p, q, n, E)
  <2>1. n \in 0..n
    OBVIOUS
  <2> QED
    BY <1>1, <1>3, <2>1
<1>5. ASSUME NEW k \in 1..n, NEW j \in 1..n, Bucket(row[k]) = bucket, k < j, AreAlike(row, k, j)
      PROVE  Together(q, k, j)
  <2>1. Advances(g[k], q, n, E)
    BY <1>1, <1>3
  <2> QED
    BY <1>2, <1>5, <2>1 DEF Advances
<1> QED
  BY <1>4, <1>5 DEF q

(* The whole of Dedupe.                                                       *)
LEMMA DedupeStep ==
    ASSUME NEW n \in Nat, NEW row, NEW E, Related(row, n, E), NEW bucket, NEW u \in Forests(n)
    PROVE  Advances(u, SimilarInBucket(row, u, bucket), n, E)
  BY SimilarInBucketJoins

LEMMA NewIsForest ==
    ASSUME NEW n \in Nat, NEW E, IsEquivalence(E, n)
    PROVE  newUF(n) \in Forests(n) /\ Within(newUF(n), n, E)
<1> DEFINE p == newUF(n)
<1>1. p \in [1..n -> 1..n] /\ \A i \in 1..n : p[i] = i
  BY DEF newUF
<1>2. Ordered(p, n)
  BY <1>1 DEF Ordered
<1> HIDE DEF p
<1>3. \A i \in 1..n : Root(p)[i] = i
  BY <1>1, <1>2, RootClimbs
<1>4. Within(p, n, E)
  BY <1>3 DEF Within, Together, IsEquivalence
<1> QED
  BY <1>2, <1>4, OrderedIsForest DEF p

DedupeRuns(g, S, n, buckets, m) ==
    /\ g[0] = SameUrlOrKey(Rows(S), newUF(n)) /\ g[m] = Dedupe(S, buckets)
    /\ \A k \in 1..m : g[k - 1] \in Forests(n) /\ g[k] = SimilarInBucket(Rows(S), g[k - 1], buckets[k])

LEMMA DedupeLoop ==
    ASSUME NEW S, NEW n \in Nat, NEW E, Related(Rows(S), n, E), NEW buckets, NEW m \in Nat, Len(buckets) = m
    PROVE  \E g : DedupeRuns(g, S, n, buckets, m)
<1> DEFINE row == Rows(S)
           p == SameUrlOrKey(row, newUF(n))
<1>0. p \in Forests(n)
  <2>1. newUF(n) \in Forests(n)
    BY NewIsForest DEF Related
  <2> QED
    BY <2>1, SameUrlOrKeyJoins DEF Advances
<1> DEFINE F == Forests(n)
           s == [k \in 1..m |-> [u \in F |-> SimilarInBucket(row, u, buckets[k])]]
           is(g) == g = [i \in 0..m |-> IF i = 0 THEN p ELSE SimilarInBucket(row, g[i - 1], buckets[i])]
           pass == CHOOSE g : is(g)
<1>1. Dedupe(S, buckets) = pass[m]
  BY DEF Dedupe, Related
<1>2. \A k \in 1..m : \A u \in F : SimilarInBucket(row, u, buckets[k]) \in F
  BY DedupeStep DEF Advances
<1> HIDE DEF F, row, p
<1>3. \A k \in 1..m : \A u \in F : s[k][u] = SimilarInBucket(row, u, buckets[k]) /\ s[k][u] \in F
  BY <1>2
<1>4. p \in F
  BY <1>0 DEF F
<1> HIDE DEF s, is, pass
<1>5. PICK g : Runs(g, F, m, p, s)
  <2>1. StaysIn(F, m, s)
    BY <1>3 DEF StaysIn
  <2> QED
    BY <1>4, <2>1, LoopExists
<1>6. is(g)
  <2>1. \A i \in 0..m : g[i] = IF i = 0 THEN p ELSE SimilarInBucket(row, g[i - 1], buckets[i])
    BY <1>3, <1>5 DEF Runs
  <2> QED
    BY <1>5, <2>1 DEF is, Runs
<1>7. is(pass)
  BY <1>6 DEF pass
<1>8. pass[0] = p /\ \A k \in 1..m : pass[k] = SimilarInBucket(row, pass[k - 1], buckets[k])
  <2> DEFINE rhs(i) == IF i = 0 THEN p ELSE SimilarInBucket(row, pass[i - 1], buckets[i])
  <2>1. pass = [i \in 0..m |-> rhs(i)]
    BY <1>7 DEF is
  <2> HIDE DEF rhs
  <2>2. \A i \in 0..m : pass[i] = rhs(i)
    BY <2>1
  <2> QED
    BY <2>2 DEF rhs
<1>9. \A k \in 0..m : pass[k] \in F
  <2> DEFINE T == {k \in 0..m : pass[k] \in F}
  <2>1. 0 \in T /\ \A k \in 1..m : k - 1 \in T => k \in T
    BY <1>2, <1>4, <1>8
  <2> HIDE DEF T
  <2>2. 0..m \subseteq T
    BY <2>1, LoopInduction
  <2> QED
    BY <2>2 DEF T
<1>10. \A k \in 1..m : k - 1 \in 0..m
  OBVIOUS
<1> QED
  BY <1>1, <1>8, <1>9, <1>10 DEF F, row, p, DedupeRuns

(* Some iteration compares the pairs of any bucket.                             *)
LEMMA EveryBucket ==
    ASSUME NEW B, IsFiniteSet(B), NEW buckets \in SetToSeqs(B), NEW m \in Nat, m = Cardinality(B)
    PROVE  Len(buckets) = m /\ \A b \in B : \E k \in 1..m : buckets[k] = b
<1>1. buckets \in [1..m -> B] /\ \A i, j \in 1..m : i # j => buckets[i] # buckets[j]
  BY DEF SetToSeqs
<1>2. Len(buckets) = m
  BY <1>1
<1>3. buckets \in Injection(1..m, B)
  BY <1>1 DEF Injection, IsInjective
<1>4. IsFiniteSet(1..m) /\ Cardinality(1..m) = m
  BY FS_Interval
<1>5. buckets \in Surjection(1..m, B)
  BY <1>3, <1>4, FS_Injection
<1>6. \A b \in B : \E k \in 1..m : buckets[k] = b
  BY <1>5 DEF Surjection
<1> QED
  BY <1>2, <1>6

LEMMA DedupeJoins ==
    ASSUME NEW S, NEW n \in Nat, NEW E, Related(Rows(S), n, E), IsFiniteSet(S), Rows(S) \in [1..n -> S],
           NEW buckets \in SetToSeqs({Bucket(q) : q \in S})
    PROVE  /\ Dedupe(S, buckets) \in Forests(n)
           /\ Within(Dedupe(S, buckets), n, E)
           /\ \A i, j \in 1..n : SameJob(Rows(S)[i], Rows(S)[j]) => Together(Dedupe(S, buckets), i, j)
<1> DEFINE row == Rows(S)
           B == {Bucket(q) : q \in S}
           m == Cardinality(B)
           p == newUF(n)
           q == SameUrlOrKey(row, p)
           d == Dedupe(S, buckets)
<1>1. IsFiniteSet(B) /\ m \in Nat
  <2>1. IsFiniteSet(B)
    <3> DEFINE f == [o \in S |-> Bucket(o)]
    <3>1. f \in Surjection(S, B)
      BY DEF Surjection
    <3> HIDE DEF f, B
    <3> QED
      BY <3>1, FS_Surjection
  <2> QED
    BY <2>1, FS_CardinalityType
<1>2. Len(buckets) = m /\ \A b \in B : \E k \in 1..m : buckets[k] = b
  <2> HIDE DEF B
  <2> QED
    BY <1>1, EveryBucket DEF B
<1>3. \A i \in 1..n : Bucket(row[i]) \in B
  OBVIOUS
<1> HIDE DEF B, m
<1>4. PICK g : /\ g[0] = q /\ g[m] = d
               /\ \A k \in 1..m : g[k - 1] \in Forests(n) /\ g[k] = SimilarInBucket(row, g[k - 1], buckets[k])
  <2>1. PICK g : DedupeRuns(g, S, n, buckets, m)
    BY <1>1, <1>2, DedupeLoop
  <2> QED
    BY <2>1 DEF DedupeRuns
<1>5. p \in Forests(n) /\ Within(p, n, E)
  BY NewIsForest DEF Related
<1>6. Related(row, n, E)
  OBVIOUS
<1> HIDE DEF row, p, q, d
<1>7. /\ Advances(p, q, n, E)
      /\ \A i, j \in 1..n :
            (Url[row[i]] # Blank /\ Url[row[i]] = Url[row[j]]) \/ Key(row[i]) = Key(row[j])
               => Together(q, i, j)
  BY <1>5, <1>6, SameUrlOrKeyJoins DEF q
<1>8. \A k \in 1..m :
         /\ Advances(g[k - 1], g[k], n, E)
         /\ \A i, j \in 1..n : Bucket(row[i]) = buckets[k] /\ i < j /\ AreAlike(row, i, j) => Together(g[k], i, j)
  BY <1>4, <1>6, SimilarInBucketJoins
<1>9. \A k \in 0..m : Advances(g[0], g[k], n, E) /\ Advances(g[k], g[m], n, E)
  <2>1. g[0] \in Forests(n)
    BY <1>4, <1>7 DEF Advances
  <2> QED
    BY <1>1, <1>8, <2>1, LoopAdvances
<1>10. Advances(q, d, n, E)
  <2>1. 0 \in 0..m
    BY <1>1
  <2> QED
    BY <1>4, <1>9, <2>1
<1>11. d \in Forests(n) /\ Within(d, n, E)
  BY <1>5, <1>7, <1>10 DEF Advances
<1>12. ASSUME NEW i \in 1..n, NEW j \in 1..n, i < j, AreAlike(row, i, j) PROVE Together(d, i, j)
  <2>1. PICK k \in 1..m : buckets[k] = Bucket(row[i])
    BY <1>2, <1>3
  <2>2. Together(g[k], i, j)
    BY <1>8, <1>12, <2>1
  <2>3. Advances(g[k], d, n, E)
    BY <1>1, <1>4, <1>9
  <2> QED
    BY <2>2, <2>3 DEF Advances
<1>13. ASSUME NEW i \in 1..n, NEW j \in 1..n, SameJob(row[i], row[j]) PROVE Together(d, i, j)
  <2>1. CASE (Url[row[i]] # Blank /\ Url[row[i]] = Url[row[j]]) \/ Key(row[i]) = Key(row[j])
    BY <1>7, <1>10, <2>1 DEF Advances
  <2>2. CASE AreAlike(row, i, j)
    <3>1. CASE i < j
      BY <1>12, <2>2, <3>1
    <3>2. CASE j < i
      <4>1. {Title[row[i]], Title[row[j]]} = {Title[row[j]], Title[row[i]]}
        OBVIOUS
      <4>2. AreAlike(row, j, i)
        BY <2>2, <4>1 DEF AreAlike
      <4>3. Together(d, j, i)
        BY <1>12, <3>2, <4>2
      <4> QED
        BY <4>3 DEF Together
    <3>3. CASE i = j
      BY <3>3 DEF Together
    <3> QED
      BY <3>1, <3>2, <3>3
  <2> QED
    BY <1>13, <2>1, <2>2 DEF SameJob, AreAlike
<1> QED
  BY <1>11, <1>13 DEF row, d

-----------------------------------------------------------------------------
(* The rows, best first. *)

RankIn(p, S) == Cardinality({q \in S : Before(q, p)})

LEMMA BeforeIsOrder ==
    /\ \A p \in Postings : ~ Before(p, p)
    /\ \A p, q \in Postings : p # q => Before(p, q) \/ Before(q, p)
    /\ \A p, q, r \in Postings : Before(p, q) /\ Before(q, r) => Before(p, r)
<1>1. \A p \in Postings : p \in Int /\ Score[p] \in Int
  BY PostingsAssumption
<1> QED
  BY <1>1 DEF Before

LEMMA RanksGrow ==
    ASSUME NEW S \in SUBSET Postings
    PROVE  /\ IsFiniteSet(S) /\ Cardinality(S) \in Nat
           /\ \A p \in S : RankIn(p, S) \in 0..(Cardinality(S) - 1)
           /\ \A p, q \in S : Before(p, q) => RankIn(p, S) < RankIn(q, S)
<1>1. IsFiniteSet(S) /\ Cardinality(S) \in Nat
  <2>1. IsFiniteSet(S)
    BY PostingsAssumption, FS_Subset
  <2> QED
    BY <2>1, FS_CardinalityType
<1>2. \A T \in SUBSET S : IsFiniteSet(T) /\ Cardinality(T) \in Nat
  BY <1>1, FS_Subset, FS_CardinalityType
<1>3. \A T \in SUBSET S : \A R \in SUBSET T : R # T => Cardinality(R) < Cardinality(T)
  <2>1. ASSUME NEW T \in SUBSET S, NEW R \in SUBSET T, R # T PROVE Cardinality(R) < Cardinality(T)
    <3>1. Cardinality(R) <= Cardinality(T) /\ (Cardinality(T) = Cardinality(R) => T = R)
      BY <1>2, FS_Subset
    <3>2. Cardinality(R) \in Nat /\ Cardinality(T) \in Nat
      BY <1>2
    <3> QED
      BY <2>1, <3>1, <3>2
  <2> QED
    BY <2>1
<1>4. ASSUME NEW p \in S PROVE RankIn(p, S) \in 0..(Cardinality(S) - 1)
  <2> DEFINE R == {q \in S : Before(q, p)}
  <2>1. R \in SUBSET S /\ p \notin R
    BY BeforeIsOrder
  <2>2. RankIn(p, S) = Cardinality(R)
    BY DEF RankIn
  <2> HIDE DEF R
  <2>3. Cardinality(R) < Cardinality(S) /\ Cardinality(R) \in Nat
    BY <1>2, <1>3, <2>1
  <2> QED
    BY <1>1, <2>2, <2>3
<1>5. ASSUME NEW p \in S, NEW q \in S, Before(p, q) PROVE RankIn(p, S) < RankIn(q, S)
  <2> DEFINE R == {o \in S : Before(o, p)}
             T == {o \in S : Before(o, q)}
  <2>1. R \in SUBSET T /\ T \in SUBSET S /\ p \in T /\ p \notin R
    BY <1>5, BeforeIsOrder
  <2>2. RankIn(p, S) = Cardinality(R) /\ RankIn(q, S) = Cardinality(T)
    BY DEF RankIn
  <2> HIDE DEF R, T
  <2> QED
    BY <1>3, <2>1, <2>2
<1> QED
  BY <1>1, <1>4, <1>5

(* Rows(S) has every row of S once, the better one first.                       *)
Sorted(row, n, S) ==
    /\ row \in [1..n -> S]
    /\ \A p \in S : \E i \in 1..n : row[i] = p
    /\ \A i, j \in 1..n : row[i] = row[j] => i = j
    /\ \A i, j \in 1..n : Before(row[i], row[j]) => i < j

LEMMA RowsAreSorted ==
    ASSUME NEW S \in SUBSET Postings
    PROVE  Sorted(Rows(S), Cardinality(S), S)
<1> DEFINE n == Cardinality(S)
           row == Rows(S)
           f == [p \in S |-> RankIn(p, S) + 1]
<1>1. /\ IsFiniteSet(S) /\ n \in Nat
      /\ \A p \in S : RankIn(p, S) \in 0..(n - 1)
      /\ \A p, q \in S : Before(p, q) => RankIn(p, S) < RankIn(q, S)
  BY RanksGrow
<1>2. \A p, q \in S : RankIn(p, S) = RankIn(q, S) => p = q
  <2>1. ASSUME NEW p \in S, NEW q \in S, p # q PROVE RankIn(p, S) # RankIn(q, S)
    <3>1. Before(p, q) \/ Before(q, p)
      BY <2>1, BeforeIsOrder
    <3> QED
      BY <1>1, <3>1
  <2> QED
    BY <2>1
<1>3. row = [i \in 1..n |-> CHOOSE p \in S : RankIn(p, S) = i - 1]
  BY DEF Rows, RankIn
<1> HIDE DEF n, row
<1>4. f \in Injection(S, 1..n)
  <2>1. f \in [S -> 1..n]
    BY <1>1
  <2>2. \A p, q \in S : f[p] = f[q] => p = q
    BY <1>1, <1>2
  <2> QED
    BY <2>1, <2>2 DEF Injection, IsInjective
<1>5. IsFiniteSet(1..n) /\ Cardinality(1..n) = n
  BY <1>1, FS_Interval
<1>6. f \in Surjection(S, 1..n)
  BY <1>1, <1>4, <1>5, FS_Injection DEF n
<1>7. \A i \in 1..n : \E p \in S : RankIn(p, S) = i - 1
  <2>1. ASSUME NEW i \in 1..n PROVE \E p \in S : RankIn(p, S) = i - 1
    <3>1. PICK p \in S : f[p] = i
      BY <1>6 DEF Surjection
    <3>2. RankIn(p, S) + 1 = i /\ RankIn(p, S) \in Int
      BY <1>1, <3>1
    <3> QED
      BY <3>2
  <2> QED
    BY <2>1
<1>8. \A i \in 1..n : row[i] \in S /\ RankIn(row[i], S) = i - 1
  <2>1. ASSUME NEW i \in 1..n PROVE row[i] \in S /\ RankIn(row[i], S) = i - 1
    <3>1. row[i] = CHOOSE p \in S : RankIn(p, S) = i - 1
      BY <1>3
    <3> QED
      BY <1>7, <3>1
  <2> QED
    BY <2>1
<1>9. row \in [1..n -> S]
  <2>1. row = [i \in 1..n |-> row[i]]
    BY <1>3
  <2> QED
    BY <1>8, <2>1
<1>10. ASSUME NEW p \in S PROVE \E i \in 1..n : row[i] = p
  <2>1. RankIn(p, S) + 1 \in 1..n
    BY <1>1
  <2>2. RankIn(row[RankIn(p, S) + 1], S) = RankIn(p, S)
    BY <1>1, <1>8, <2>1
  <2>3. row[RankIn(p, S) + 1] = p
    BY <1>2, <1>8, <2>1, <2>2
  <2> QED
    BY <2>1, <2>3
<1>11. \A i, j \in 1..n : row[i] = row[j] => i = j
  <2>1. ASSUME NEW i \in 1..n, NEW j \in 1..n, row[i] = row[j] PROVE i = j
    <3>1. i - 1 = j - 1
      BY <1>8, <2>1
    <3> QED
      BY <3>1
  <2> QED
    BY <2>1
<1>12. \A i, j \in 1..n : Before(row[i], row[j]) => i < j
  <2>1. ASSUME NEW i \in 1..n, NEW j \in 1..n, Before(row[i], row[j]) PROVE i < j
    <3>1. RankIn(row[i], S) < RankIn(row[j], S) /\ RankIn(row[i], S) = i - 1 /\ RankIn(row[j], S) = j - 1
      BY <1>1, <1>8, <2>1
    <3> QED
      BY <3>1
  <2> QED
    BY <2>1
<1> QED
  BY <1>9, <1>10, <1>11, <1>12 DEF Sorted, n, row

-----------------------------------------------------------------------------
(* The groups. *)

Closed(C, S) == \A a \in C, b \in S : SameJob(a, b) => b \in C

LEMMA GroupIs ==
    ASSUME NEW S \in SUBSET Postings, NEW p \in S
    PROVE  Group(p, S) = {q \in S : \A C \in SUBSET S : (p \in C /\ Closed(C, S)) => q \in C}
<1> DEFINE of(T) == [o \in T |-> {q \in T : \A C \in SUBSET T : (o \in C /\ Closed(C, T)) => q \in C}]
           f == [T \in SUBSET Postings |-> of(T)]
<1>1. Groups = f
  BY TableIsFunction DEF Groups, Closed
<1>2. of(S)[p] = {q \in S : \A C \in SUBSET S : (p \in C /\ Closed(C, S)) => q \in C}
  OBVIOUS
<1> HIDE DEF of
<1>3. f[S] = of(S)
  OBVIOUS
<1> QED
  BY <1>1, <1>2, <1>3 DEF Group

(* To be connected is an equivalence, whatever titles are alike.                *)
LEMMA GroupsAreClasses ==
    ASSUME NEW S \in SUBSET Postings
    PROVE  /\ \A p \in S : Group(p, S) \subseteq S /\ p \in Group(p, S)
           /\ \A p, q \in S : SameJob(p, q) => q \in Group(p, S)
           /\ \A p, q \in S : q \in Group(p, S) => p \in Group(q, S)
           /\ \A p, q, r \in S : q \in Group(p, S) /\ r \in Group(q, S) => r \in Group(p, S)
           /\ \A p \in S : \A C \in SUBSET S : p \in C /\ Closed(C, S) => Group(p, S) \subseteq C
<1>0. ASSUME NEW p \in S, NEW q \in S
      PROVE  q \in Group(p, S) <=> \A C \in SUBSET S : (p \in C /\ Closed(C, S)) => q \in C
  BY GroupIs
<1>1. \A p \in S : Group(p, S) \subseteq S /\ p \in Group(p, S)
  BY GroupIs
<1>2. ASSUME NEW p \in S, NEW q \in S, SameJob(p, q) PROVE q \in Group(p, S)
  BY <1>0, <1>2 DEF Closed
<1>3. ASSUME NEW p \in S, NEW q \in S, q \in Group(p, S) PROVE p \in Group(q, S)
  <2>1. SUFFICES ASSUME NEW C \in SUBSET S, q \in C, Closed(C, S), p \notin C PROVE FALSE
    BY <1>0
  <2>2. Closed(S \ C, S)
    <3>1. ASSUME NEW a \in S \ C, NEW b \in S, SameJob(a, b), b \in C PROVE FALSE
      <4>1. {Title[a], Title[b]} = {Title[b], Title[a]}
        OBVIOUS
      <4>2. SameJob(b, a)
        BY <3>1, <4>1 DEF SameJob
      <4> QED
        BY <2>1, <3>1, <4>2 DEF Closed
    <3> QED
      BY <3>1 DEF Closed
  <2>3. S \ C \in SUBSET S /\ p \in S \ C
    BY <2>1
  <2>4. q \in S \ C
    BY <1>0, <1>3, <2>2, <2>3
  <2> QED
    BY <2>1, <2>4
<1>4. ASSUME NEW p \in S, NEW q \in S, NEW r \in S, q \in Group(p, S), r \in Group(q, S) PROVE r \in Group(p, S)
  BY <1>0, <1>4
<1>5. ASSUME NEW p \in S, NEW C \in SUBSET S, p \in C, Closed(C, S) PROVE Group(p, S) \subseteq C
  BY <1>0, <1>1, <1>5
<1> QED
  BY <1>1, <1>2, <1>3, <1>4, <1>5

(* Dedupe finds the groups of any set of rows, in any order of the buckets, and   *)
(* the root of each is its best row.                                         *)
FoundGroups(row, n, S, d) ==
    \A i, j \in 1..n :
        /\ Root(d)[i] = Root(d)[j] <=> row[j] \in Group(row[i], S)
        /\ Root(d)[i] = i <=> row[i] \in Representatives(S)

LEMMA DedupeFindsGroups ==
    ASSUME NEW S \in SUBSET Postings, NEW buckets \in SetToSeqs({Bucket(q) : q \in S})
    PROVE  FoundGroups(Rows(S), Cardinality(S), S, Dedupe(S, buckets))
<1> DEFINE n == Cardinality(S)
           row == Rows(S)
           d == Dedupe(S, buckets)
           E == {e \in (1..n) \X (1..n) : row[e[2]] \in Group(row[e[1]], S)}
           root == Root(d)
<1>1. IsFiniteSet(S) /\ n \in Nat
  BY RanksGrow
<1>2. Sorted(row, n, S)
  BY RowsAreSorted
<1>3. \A i, j \in 1..n : <<i, j>> \in E <=> row[j] \in Group(row[i], S)
  OBVIOUS
<1>4. \A i \in 1..n : row[i] \in S
  BY <1>2 DEF Sorted
<1>5. Related(row, n, E)
  <2> HIDE DEF n, row, E
  <2>1. IsEquivalence(E, n)
    BY <1>3, <1>4, GroupsAreClasses DEF IsEquivalence
  <2>2. \A i, j \in 1..n : SameJob(row[i], row[j]) => <<i, j>> \in E
    BY <1>3, <1>4, GroupsAreClasses
  <2>3. Len(row) = n
    <3>1. row \in [1..n -> S]
      BY <1>2 DEF Sorted
    <3> QED
      BY <1>1, <3>1
  <2> QED
    BY <2>1, <2>2, <2>3 DEF Related
<1>6. /\ d \in Forests(n) /\ Within(d, n, E)
      /\ \A i, j \in 1..n : SameJob(row[i], row[j]) => Together(d, i, j)
  <2>1. row \in [1..n -> S]
    BY <1>2 DEF Sorted
  <2> HIDE DEF n, E
  <2> QED
    BY <1>1, <1>5, <2>1, DedupeJoins
<1> HIDE DEF n, row, d, E
<1>7. \A i \in 1..n : root[i] \in 1..n /\ root[i] <= i /\ d[root[i]] = root[i]
  BY <1>1, <1>6, RootIsRoot, OrderedIsForest
<1>8. \A i, j \in 1..n : root[i] = root[j] => row[j] \in Group(row[i], S)
  BY <1>3, <1>6 DEF Within, Together
<1>9. ASSUME NEW i \in 1..n, NEW j \in 1..n, row[j] \in Group(row[i], S) PROVE root[i] = root[j]
  <2> DEFINE C == {row[k] : k \in {k \in 1..n : root[k] = root[i]}}
  <2>1. C \in SUBSET S /\ row[i] \in C
    BY <1>4
  <2>2. Closed(C, S)
    <3>1. ASSUME NEW a \in C, NEW b \in S, SameJob(a, b) PROVE b \in C
      <4>1. PICK k \in 1..n : row[k] = a /\ root[k] = root[i]
        BY <3>1
      <4>2. PICK l \in 1..n : row[l] = b
        BY <1>2 DEF Sorted
      <4>3. root[k] = root[l]
        BY <1>6, <3>1, <4>1, <4>2 DEF Together
      <4> QED
        BY <4>1, <4>2, <4>3
    <3> HIDE DEF C
    <3> QED
      BY <3>1 DEF Closed
  <2>3. row[j] \in C
    <3> HIDE DEF C
    <3> QED
      BY <1>4, <1>9, <2>1, <2>2, GroupsAreClasses
  <2>4. PICK k \in 1..n : row[k] = row[j] /\ root[k] = root[i]
    BY <2>3
  <2>5. k = j
    BY <1>2, <2>4 DEF Sorted
  <2> QED
    BY <2>4, <2>5
<1>10. ASSUME NEW i \in 1..n, root[i] = i PROVE row[i] \in Representatives(S)
  <2>1. ASSUME NEW q \in Group(row[i], S) PROVE q = row[i] \/ Before(row[i], q)
    <3>1. q \in S
      BY <1>4, GroupsAreClasses
    <3>2. PICK j \in 1..n : row[j] = q
      BY <1>2, <3>1 DEF Sorted
    <3>3. root[j] = i
      BY <1>9, <1>10, <3>2
    <3>4. i <= j
      BY <1>7, <3>3
    <3>5. CASE q # row[i]
      <4>1. q \in Postings /\ row[i] \in Postings
        BY <1>4, <3>1
      <4>2. Before(row[i], q) \/ Before(q, row[i])
        BY <3>5, <4>1, BeforeIsOrder
      <4>3. ~ Before(q, row[i])
        BY <1>2, <3>2, <3>4 DEF Sorted
      <4> QED
        BY <4>2, <4>3
    <3> QED
      BY <3>5
  <2> QED
    BY <1>4, <2>1 DEF Representatives
<1>11. ASSUME NEW i \in 1..n, row[i] \in Representatives(S) PROVE root[i] = i
  <2> DEFINE r == root[i]
  <2>1. r \in 1..n /\ r <= i
    BY <1>7
  <2>2. root[r] = r
    <3>1. d \in [1..n -> 1..n] /\ Ordered(d, n)
      BY <1>6 DEF Forests
    <3>2. \A k \in 1..n : root[k] = IF d[k] = k THEN k ELSE root[d[k]]
      BY <1>1, <3>1, RootClimbs
    <3> QED
      BY <1>7, <3>2
  <2> HIDE DEF r
  <2>3. row[r] \in Group(row[i], S)
    BY <1>8, <2>1, <2>2 DEF r
  <2>4. row[r] = row[i] \/ Before(row[i], row[r])
    BY <1>11, <2>3 DEF Representatives
  <2>5. r = i
    BY <1>2, <2>1, <2>4 DEF Sorted
  <2> QED
    BY <2>5 DEF r
<1>12. \A i, j \in 1..n :
          /\ root[i] = root[j] <=> row[j] \in Group(row[i], S)
          /\ root[i] = i <=> row[i] \in Representatives(S)
  BY <1>8, <1>9, <1>10, <1>11
<1> QED
  BY <1>12 DEF FoundGroups, n, row, d

LEMMA EverySetIsWellGrouped ==
    ASSUME NEW S \in SUBSET Postings
    PROVE  WellGrouped[S]
<1> DEFINE holds(T) ==
        LET row == Rows(T) IN
        \A buckets \in SetToSeqs({Bucket(q) : q \in T}) :
            LET root == Root(Dedupe(T, buckets)) IN
            \A i, j \in DOMAIN row :
                /\ root[i] = root[j] <=> row[j] \in Group(row[i], T)
                /\ root[i] = i <=> row[i] \in Representatives(T)
<1>1. WellGrouped[S] = holds(S)
  <2> DEFINE f == [T \in SUBSET Postings |-> holds(T)]
  <2>1. WellGrouped = f
    BY TableIsFunction DEF WellGrouped
  <2> HIDE DEF holds
  <2> QED
    BY <2>1
<1>2. DOMAIN Rows(S) = 1..Cardinality(S)
  BY DEF Rows
<1>3. holds(S)
  <2>1. \A buckets \in SetToSeqs({Bucket(q) : q \in S}) : FoundGroups(Rows(S), Cardinality(S), S, Dedupe(S, buckets))
    BY DedupeFindsGroups
  <2> QED
    BY <1>2, <2>1 DEF FoundGroups
<1> QED
  BY <1>1, <1>3

(* The same postings are never grouped in two ways: for any rows, urls, orgs,    *)
(* titles and similarity of titles, and any order in which the map gives the    *)
(* buckets, the union-find ends with the rows that the rules connect.           *)
THEOREM GroupsAreClosureCorrect == Spec => []GroupsAreClosure
<1>1. MailInv => GroupsAreClosure
  <2>1. SUFFICES ASSUME MailInv, NEW T \in SUBSET (Postings \ rows) PROVE WellGrouped[rows \cup T]
    BY DEF GroupsAreClosure
  <2>2. rows \cup T \in SUBSET Postings
    BY <2>1 DEF MailInv, TypeOK
  <2> QED
    BY <2>2, EverySetIsWellGrouped
<1> QED
  BY <1>1, MailInit, MailStep, PTL DEF Spec
=============================================================================
