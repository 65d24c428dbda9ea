------------------------ MODULE PostingSignals_proofs ------------------------
(***************************************************************************)
(* Proofs about PostingSignals and PostingTags for any listings, any pages, *)
(* any days, any statements that fail and any crashes between them.         *)
(***************************************************************************)
EXTENDS PostingTags, SequenceTheorems, TLAPS

(* What the statements under way may be: changes to record and rows to put.  *)
Changes == [kind : Kinds, old : Nat, new : Nat]
Statements == Changes \cup [put : Row]

(* The change is noted, or will be before statement i is executed.           *)
Told(s, i) == Noted(s) \/ \E j \in 1..(i - 1) : stmts[j] = s

(* A row that will be put is last, or closes the posting and is followed by  *)
(* the record of that; what it changes is told before.                       *)
PutInv(i, r) ==
    /\ r.firstSeen # None
    /\ r.closedAt = None => i = Len(stmts)
    /\ r.closedAt # None => /\ Len(stmts) = i + 1 /\ stmts[i + 1] = Closing
                            /\ r.closedAt = today /\ row.closedAt = None
    /\ row.deadline # None /\ r.deadline # row.deadline =>
          \E kind \in {"deadline_extended", "deadline_shortened"} :
              Told(Event(kind, row.deadline, r.deadline), i)
    /\ row.posted # None /\ r.posted # row.posted =>
          r.posted > row.posted /\ r.reposted /\ Told(Event("reposted", row.posted, r.posted), i)
    /\ row.closedAt # None /\ r.closedAt = None => Told(Event("reopened", row.closedAt, None), i)

(* A posting is reopened when its row is closed, and closed when its row was, *)
(* or when that was refused.                                                 *)
ChangeInv(i, s) ==
    /\ s.kind = "reopened" => row.closedAt # None /\ s.old = row.closedAt
    /\ s.kind = "closed" =>
          \/ /\ stmts = <<Closing>>
             /\ \/ row.closedAt = today
                \/ row.closedAt = None /\ Fault("update", today, Closing) \in lost
          \/ i = 2 /\ Len(stmts) = 2 /\ stmts[2] = Closing /\ IsPut(stmts[1])

StatementsInv ==
    \A i \in DOMAIN stmts : IF IsPut(stmts[i]) THEN PutInv(i, stmts[i].put) ELSE ChangeInv(i, stmts[i])

(* A closed row has its closing among the events unless that was lost.       *)
ClosingNoted ==
    \/ \E j \in DOMAIN events : events[j].kind = "closed" /\ events[j].at + 1 >= row.closedAt
    \/ Fault("insert", row.closedAt, Closing) \in lost

(* What a closing on the day at was followed by, unless the row is closed.   *)
Followed(at) ==
    \/ \E j \in DOMAIN events : events[j].kind = "reopened"
    \/ Fault("update", at, Closing) \in lost
    \/ \E f \in lost : f.step = "insert" /\ f.kind = "reopened" /\ f.old >= at

(* A recorded closing is not of a later day than today, nor than the day the *)
(* row was closed; if the row is open the posting has returned since.        *)
ClosingInv(at) ==
    /\ at <= today
    /\ row.closedAt # None => at <= row.closedAt
    /\ row.closedAt = None => Followed(at)

ClosedInv ==
    /\ row.closedAt # None /\ stmts # <<Closing>> => ClosingNoted
    /\ row.closedAt <= today
    /\ \A j \in DOMAIN events : events[j].kind = "closed" => ClosingInv(events[j].at)

HistoryInv ==
    /\ today \in Days
    /\ row \in Row
    /\ events \in Seq([at : Nat, kind : Kinds, old : Nat, new : Nat])
    /\ stmts \in Seq(Statements)
    /\ lost \subseteq Faults
    /\ row.firstSeen = None => row.deadline = None /\ row.posted = None /\ row.closedAt = None
    /\ StatementsInv
    /\ ClosedInv

-----------------------------------------------------------------------------
(* Statements. *)

LEMMA ChangeIsNoPut ==
    ASSUME NEW s \in Changes PROVE ~IsPut(s)
  BY DEF Changes, IsPut

LEMMA PutIsPut ==
    ASSUME NEW r PROVE IsPut(Put(r)) /\ Put(r).put = r
  BY DEF Put, IsPut

LEMMA StatementKinds ==
    ASSUME NEW s \in Statements
    PROVE  IF IsPut(s) THEN s.put \in Row /\ s = Put(s.put) ELSE s \in Changes
  BY ChangeIsNoPut DEF Statements, Put, IsPut

LEMMA EventIsChange ==
    ASSUME NEW kind \in Kinds, NEW old \in Nat, NEW new \in Nat
    PROVE  /\ Event(kind, old, new) \in Changes
           /\ Event(kind, old, new).kind = kind
           /\ Event(kind, old, new).old = old
           /\ Event(kind, old, new).new = new
  BY DEF Event, Changes

(* The sequence of at most one change. *)
LEMMA IfIsPart ==
    ASSUME NEW condition \in BOOLEAN, NEW s, condition => s \in Changes
    PROVE  /\ If(condition, s) \in Seq(Changes)
           /\ Range(If(condition, s)) = IF condition THEN {s} ELSE {}
<1>1. CASE condition
  BY <1>1 DEF If, Range
<1>2. CASE ~condition
  BY <1>2 DEF If, Range
<1> QED
  BY <1>1, <1>2

(* A sequence of changes and the row that is put last. *)
LEMMA OperationShape ==
    ASSUME NEW p \in Seq(Changes), NEW r \in Row
    PROVE  LET q == p \o <<Put(r)>>
           IN  /\ q \in Seq(Statements)
               /\ Len(q) = Len(p) + 1 /\ Len(p) \in Nat
               /\ q[Len(p) + 1] = Put(r)
               /\ \A i \in 1..Len(p) : q[i] \in Range(p) /\ q[i] \in Changes
               /\ \A s \in Range(p) : \E i \in 1..Len(p) : q[i] = s
<1> DEFINE q == p \o <<Put(r)>>
<1>1. p \in Seq(Statements) /\ <<Put(r)>> \in Seq(Statements) /\ Len(<<Put(r)>>) = 1 /\ <<Put(r)>>[1] = Put(r)
  BY SeqMonotonic DEF Statements, Put
<1>2. /\ q \in Seq(Statements)
      /\ Len(q) = Len(p) + 1
      /\ \A i \in 1..(Len(p) + 1) : q[i] = IF i <= Len(p) THEN p[i] ELSE <<Put(r)>>[i - Len(p)]
  BY <1>1, ConcatProperties
<1>3. Len(p) \in Nat /\ Range(p) = {p[i] : i \in 1..Len(p)} /\ \A i \in 1..Len(p) : p[i] \in Changes
  BY RangeEquality, ElementOfSeq, LenProperties
<1> QED
  BY <1>1, <1>2, <1>3

-----------------------------------------------------------------------------
(* Steps. *)

(* What a step that leaves the history alone needs not to look at. *)
LEMMA SameHistory ==
    ASSUME UNCHANGED <<today, row, events, lost>>, ClosedInv, stmts # <<Closing>>
    PROVE  ClosedInv'
  BY DEF ClosedInv, ClosingNoted, ClosingInv, Followed

(* An operation that closes nothing begins by recording what its row changes. *)
LEMMA OperationBegins ==
    ASSUME HistoryInv, stmts = <<>>,
           NEW p \in Seq(Changes), NEW r \in Row, stmts' = p \o <<Put(r)>>,
           UNCHANGED <<today, row, events, lost>>,
           row.firstSeen # None, r.firstSeen # None, r.closedAt = None,
           \A s \in Range(p) : /\ s.kind # "closed"
                               /\ s.kind = "reopened" => row.closedAt # None /\ s.old = row.closedAt,
           row.deadline # None /\ r.deadline # row.deadline =>
               \E kind \in {"deadline_extended", "deadline_shortened"} :
                   Event(kind, row.deadline, r.deadline) \in Range(p),
           row.posted # None /\ r.posted # row.posted =>
               r.posted > row.posted /\ r.reposted /\ Event("reposted", row.posted, r.posted) \in Range(p),
           row.closedAt # None => Event("reopened", row.closedAt, None) \in Range(p)
    PROVE  HistoryInv'
<1>1. /\ stmts' \in Seq(Statements)
      /\ Len(stmts') = Len(p) + 1 /\ Len(p) \in Nat
      /\ stmts'[Len(p) + 1] = Put(r)
      /\ \A i \in 1..Len(p) : stmts'[i] \in Range(p) /\ stmts'[i] \in Changes
      /\ \A s \in Range(p) : \E i \in 1..Len(p) : stmts'[i] = s
  <2> DEFINE q == p \o <<Put(r)>>
  <2>1. /\ q \in Seq(Statements)
        /\ Len(q) = Len(p) + 1 /\ Len(p) \in Nat
        /\ q[Len(p) + 1] = Put(r)
        /\ \A i \in 1..Len(p) : q[i] \in Range(p) /\ q[i] \in Changes
        /\ \A s \in Range(p) : \E i \in 1..Len(p) : q[i] = s
    BY OperationShape
  <2>2. stmts' = q
    OBVIOUS
  <2> HIDE DEF q
  <2> QED
    BY <2>1, <2>2
<1>2. ASSUME NEW s \in Range(p) PROVE Told(s, Len(p) + 1)'
  BY <1>1, <1>2 DEF Told
<1>3. DOMAIN stmts' = 1..(Len(p) + 1)
  BY <1>1, LenProperties
<1>4. PutInv(Len(p) + 1, r)'
  BY <1>1, <1>2 DEF PutInv, HistoryInv
<1>5. ASSUME NEW i \in 1..Len(p) PROVE ~IsPut(stmts'[i]) /\ ChangeInv(i, stmts[i])'
  <2> DEFINE s == stmts'[i]
  <2>1. s \in Range(p) /\ s \in Changes
    BY <1>1
  <2>2. ~IsPut(s)
    BY <2>1, ChangeIsNoPut
  <2>3. s.kind # "closed" /\ (s.kind = "reopened" => row'.closedAt # None /\ s.old = row'.closedAt)
    BY <2>1
  <2> QED
    BY <2>2, <2>3 DEF ChangeInv
<1>6. StatementsInv'
  BY <1>1, <1>3, <1>4, <1>5, PutIsPut DEF StatementsInv
<1>7. stmts # <<Closing>>
  OBVIOUS
<1> QED
  BY <1>1, <1>6, <1>7, SameHistory DEF HistoryInv

LEMMA TwoParts ==
    ASSUME NEW p \in Seq(Changes), NEW q \in Seq(Changes)
    PROVE  p \o q \in Seq(Changes) /\ Range(p \o q) = Range(p) \cup Range(q)
<1>1. p \o q \in Seq(Changes)
  BY ConcatProperties
<1>2. Range(p \o q) = Range(p) \cup Range(q)
  BY RangeConcatenation
<1> QED
  BY <1>1, <1>2

(* The four changes that a fetch or a readable page may find. *)
LEMMA FourChanges ==
    ASSUME NEW c1 \in BOOLEAN, NEW c2 \in BOOLEAN, NEW c3 \in BOOLEAN, NEW c4 \in BOOLEAN,
           NEW s1, NEW s2, NEW s3, NEW s4,
           c1 => s1 \in Changes, c2 => s2 \in Changes, c3 => s3 \in Changes, c4 => s4 \in Changes
    PROVE  LET p == If(c1, s1) \o If(c2, s2) \o If(c3, s3) \o If(c4, s4)
           IN  /\ p \in Seq(Changes)
               /\ \A s : s \in Range(p) <=>
                       (c1 /\ s = s1) \/ (c2 /\ s = s2) \/ (c3 /\ s = s3) \/ (c4 /\ s = s4)
<1> DEFINE p1 == If(c1, s1)
           p2 == If(c2, s2)
           p3 == If(c3, s3)
           p4 == If(c4, s4)
<1>1. /\ p1 \in Seq(Changes) /\ Range(p1) = IF c1 THEN {s1} ELSE {}
      /\ p2 \in Seq(Changes) /\ Range(p2) = IF c2 THEN {s2} ELSE {}
      /\ p3 \in Seq(Changes) /\ Range(p3) = IF c3 THEN {s3} ELSE {}
      /\ p4 \in Seq(Changes) /\ Range(p4) = IF c4 THEN {s4} ELSE {}
  BY IfIsPart
<1> HIDE DEF p1, p2, p3, p4
<1>2. p1 \o p2 \in Seq(Changes) /\ Range(p1 \o p2) = Range(p1) \cup Range(p2)
  BY <1>1, TwoParts
<1>3. /\ p1 \o p2 \o p3 \in Seq(Changes)
      /\ Range(p1 \o p2 \o p3) = Range(p1) \cup Range(p2) \cup Range(p3)
  BY <1>1, <1>2, TwoParts
<1>4. /\ p1 \o p2 \o p3 \o p4 \in Seq(Changes)
      /\ Range(p1 \o p2 \o p3 \o p4) = Range(p1) \cup Range(p2) \cup Range(p3) \cup Range(p4)
  BY <1>1, <1>3, TwoParts
<1>5. \A s : s \in Range(p1 \o p2 \o p3 \o p4) <=>
          (c1 /\ s = s1) \/ (c2 /\ s = s2) \/ (c3 /\ s = s3) \/ (c4 /\ s = s4)
  BY <1>1, <1>4
<1> QED
  BY <1>4, <1>5 DEF p1, p2, p3, p4

LEMMA StepRefresh ==
    ASSUME HistoryInv, NEW l \in Listings, Refresh(l)
    PROVE  HistoryInv'
<1> DEFINE old == row.deadline
           new == l.deadline
           s1 == Event(IF new < old THEN "deadline_shortened" ELSE "deadline_extended", old, new)
           s2 == Event("reposted", row.posted, l.posted)
           s3 == Event("reappeared", row.lastSeen, today)
           s4 == Event("reopened", row.closedAt, None)
           c1 == old # None /\ new # None /\ old # new
           c2 == row.posted # None /\ l.posted > row.posted
           c3 == today > row.lastSeen + AbsentAfter
           c4 == row.closedAt # None
           p == If(c1, s1) \o If(c2, s2) \o If(c3, s3) \o If(c4, s4)
           r == Refreshed(l)
<1>1. row \in Row /\ today \in Nat /\ None \in Nat /\ l.deadline \in Nat /\ l.posted \in Nat
  BY SourcesAssumption, BoundsAssumption DEF HistoryInv, None
<1>2. /\ row.deadline \in Nat /\ row.posted \in Nat /\ row.lastSeen \in Nat /\ row.closedAt \in Nat
      /\ row.firstSeen \in Nat
  BY <1>1 DEF Row
<1>3. /\ s1 \in Changes /\ s1.kind \in {"deadline_shortened", "deadline_extended"}
      /\ s2 \in Changes /\ s2.kind = "reposted"
      /\ s3 \in Changes /\ s3.kind = "reappeared"
      /\ s4 \in Changes /\ s4.kind = "reopened" /\ s4.old = row.closedAt
  <2>1. "deadline_shortened" \in Kinds /\ "deadline_extended" \in Kinds /\ "reposted" \in Kinds
        /\ "reappeared" \in Kinds /\ "reopened" \in Kinds
    BY DEF Kinds
  <2>2. s1 \in Changes /\ s1.kind \in {"deadline_shortened", "deadline_extended"}
    BY <1>1, <1>2, <2>1 DEF Event, Changes
  <2>3. s2 \in Changes /\ s2.kind = "reposted"
    BY <1>1, <1>2, <2>1 DEF Event, Changes
  <2>4. s3 \in Changes /\ s3.kind = "reappeared"
    BY <1>1, <1>2, <2>1 DEF Event, Changes
  <2>5. s4 \in Changes /\ s4.kind = "reopened" /\ s4.old = row.closedAt
    BY <1>1, <1>2, <2>1 DEF Event, Changes
  <2> QED
    BY <2>2, <2>3, <2>4, <2>5
<1>4. /\ r \in Row
      /\ r.firstSeen = row.firstSeen /\ r.closedAt = None
      /\ r.deadline = IF l.deadline # None THEN l.deadline ELSE row.deadline
      /\ r.posted = IF l.posted > row.posted THEN l.posted ELSE row.posted
      /\ r.reposted = (row.reposted \/ (l.posted > row.posted /\ row.posted # None))
  BY <1>1, <1>2 DEF Refreshed, Row
<1>5. /\ stmts = <<>> /\ row.firstSeen # None /\ UNCHANGED <<today, row, events, lost>>
      /\ stmts' = p \o <<Put(r)>>
  BY DEF Refresh, Idle, DeadlineEvent
<1> HIDE DEF s1, s2, s3, s4
<1>6. /\ p \in Seq(Changes)
      /\ \A s : s \in Range(p) <=> (c1 /\ s = s1) \/ (c2 /\ s = s2) \/ (c3 /\ s = s3) \/ (c4 /\ s = s4)
  <2>1. c1 \in BOOLEAN /\ c2 \in BOOLEAN /\ c3 \in BOOLEAN /\ c4 \in BOOLEAN
    OBVIOUS
  <2> HIDE DEF c1, c2, c3, c4
  <2> QED
    BY <1>3, <2>1, FourChanges
<1> HIDE DEF p, r
<1>7. \A s \in Range(p) : /\ s.kind # "closed"
                          /\ s.kind = "reopened" => row.closedAt # None /\ s.old = row.closedAt
  BY <1>3, <1>6
<1>8. row.deadline # None /\ r.deadline # row.deadline =>
          \E kind \in {"deadline_extended", "deadline_shortened"} :
              Event(kind, row.deadline, r.deadline) \in Range(p)
  BY <1>4, <1>6 DEF s1
<1>9. row.posted # None /\ r.posted # row.posted =>
          r.posted > row.posted /\ r.reposted /\ Event("reposted", row.posted, r.posted) \in Range(p)
  BY <1>4, <1>6 DEF s2
<1>10. row.closedAt # None => Event("reopened", row.closedAt, None) \in Range(p)
  BY <1>6 DEF s4
<1> QED
  BY <1>4, <1>5, <1>6, <1>7, <1>8, <1>9, <1>10, OperationBegins

LEMMA StepCheckReads ==
    ASSUME HistoryInv, NEW pg \in Pages, CheckReads(pg)
    PROVE  HistoryInv'
<1> DEFINE old == row.deadline
           new == pg.validThru
           s1 == Event("applicants", row.applicants, pg.applicants)
           s2 == Event(SalaryKind(row.salary, pg.salary), row.salary, pg.salary)
           s3 == Event(IF new < old THEN "deadline_shortened" ELSE "deadline_extended", old, new)
           s4 == Event("reposted", row.posted, pg.datePosted)
           c1 == pg.applicants # None /\ pg.applicants # row.applicants
           c2 == pg.salary # None /\ row.salary # None /\ pg.salary # row.salary
           c3 == old # None /\ new # None /\ old # new
           c4 == row.posted # None /\ pg.datePosted > row.posted
           p == If(c1, s1) \o If(c2, s2) \o If(c3, s3) \o If(c4, s4)
           r == Checked(pg)
<1>1. /\ row \in Row /\ today \in Nat /\ None \in Nat
      /\ pg.applicants \in Nat /\ pg.salary \in Nat /\ pg.validThru \in Nat /\ pg.datePosted \in Nat
  BY SourcesAssumption, BoundsAssumption DEF HistoryInv, None
<1>2. /\ row.deadline \in Nat /\ row.posted \in Nat /\ row.closedAt \in Nat /\ row.firstSeen \in Nat
      /\ row.applicants \in Nat /\ row.salary \in Nat
  BY <1>1 DEF Row
<1>3. /\ s1 \in Changes /\ s1.kind = "applicants"
      /\ s2 \in Changes /\ s2.kind \in {"salary", "salary_up"}
      /\ s3 \in Changes /\ s3.kind \in {"deadline_shortened", "deadline_extended"}
      /\ s4 \in Changes /\ s4.kind = "reposted"
  <2>1. "deadline_shortened" \in Kinds /\ "deadline_extended" \in Kinds /\ "reposted" \in Kinds
        /\ "applicants" \in Kinds /\ "salary" \in Kinds /\ "salary_up" \in Kinds
    BY DEF Kinds
  <2>2. s1 \in Changes /\ s1.kind = "applicants"
    BY <1>1, <1>2, <2>1 DEF Event, Changes
  <2>3. s2 \in Changes /\ s2.kind \in {"salary", "salary_up"}
    BY <1>1, <1>2, <2>1 DEF Event, Changes, SalaryKind
  <2>4. s3 \in Changes /\ s3.kind \in {"deadline_shortened", "deadline_extended"}
    BY <1>1, <1>2, <2>1 DEF Event, Changes
  <2>5. s4 \in Changes /\ s4.kind = "reposted"
    BY <1>1, <1>2, <2>1 DEF Event, Changes
  <2> QED
    BY <2>2, <2>3, <2>4, <2>5
<1>4. /\ r \in Row
      /\ r.firstSeen = row.firstSeen /\ r.closedAt = row.closedAt
      /\ r.deadline = IF pg.validThru # None THEN pg.validThru ELSE row.deadline
      /\ r.posted = IF c4 THEN pg.datePosted ELSE row.posted
      /\ r.reposted = (row.reposted \/ c4)
  BY <1>1, <1>2 DEF Checked, Row
<1>5. /\ stmts = <<>> /\ row.firstSeen # None /\ row.closedAt = None
      /\ UNCHANGED <<today, row, events, lost>>
      /\ stmts' = p \o <<Put(r)>>
  BY DEF CheckReads, MayCheck, Idle, DeadlineEvent
<1> HIDE DEF s1, s2, s3, s4
<1>6. /\ p \in Seq(Changes)
      /\ \A s : s \in Range(p) <=> (c1 /\ s = s1) \/ (c2 /\ s = s2) \/ (c3 /\ s = s3) \/ (c4 /\ s = s4)
  <2>1. c1 \in BOOLEAN /\ c2 \in BOOLEAN /\ c3 \in BOOLEAN /\ c4 \in BOOLEAN
    OBVIOUS
  <2> HIDE DEF c1, c2, c3, c4
  <2> QED
    BY <1>3, <2>1, FourChanges
<1> HIDE DEF p, r
<1>7. \A s \in Range(p) : s.kind # "closed" /\ s.kind # "reopened"
  BY <1>3, <1>6
<1>8. row.deadline # None /\ r.deadline # row.deadline =>
          \E kind \in {"deadline_extended", "deadline_shortened"} :
              Event(kind, row.deadline, r.deadline) \in Range(p)
  BY <1>4, <1>6 DEF s3
<1>9. row.posted # None /\ r.posted # row.posted =>
          r.posted > row.posted /\ r.reposted /\ Event("reposted", row.posted, r.posted) \in Range(p)
  BY <1>4, <1>6 DEF s4
<1> QED
  BY <1>4, <1>5, <1>6, <1>7, <1>8, <1>9, OperationBegins

LEMMA StepCheckFails ==
    ASSUME HistoryInv, NEW pg \in Pages, CheckFails(pg)
    PROVE  HistoryInv'
<1> DEFINE r == [row EXCEPT !.checkedAt = today]
<1>1. row \in Row /\ today \in Nat
  BY BoundsAssumption DEF HistoryInv
<1>2. /\ r \in Row /\ r.firstSeen = row.firstSeen /\ r.closedAt = row.closedAt
      /\ r.deadline = row.deadline /\ r.posted = row.posted
  BY <1>1 DEF Row
<1>3. /\ stmts = <<>> /\ row.firstSeen # None /\ row.closedAt = None
      /\ UNCHANGED <<today, row, events, lost>> /\ stmts' = <<Put(r)>>
  BY DEF CheckFails, MayCheck, Idle
<1> HIDE DEF r
<1>4. <<>> \in Seq(Changes) /\ Range(<<>>) = {}
  BY DEF Range
<1>5. stmts' = <<>> \o <<Put(r)>>
  BY <1>3
<1> QED
  BY <1>2, <1>3, <1>4, <1>5, OperationBegins

(* An operation that closes the posting puts its row and records the closing. *)
LEMMA ClosingBegins ==
    ASSUME HistoryInv, stmts = <<>>,
           NEW r \in Row, stmts' = <<Put(r), Closing>>,
           UNCHANGED <<today, row, events, lost>>,
           row.closedAt = None, r.firstSeen # None, r.closedAt = today,
           r.deadline = row.deadline, r.posted = row.posted
    PROVE  HistoryInv'
<1>1. /\ Closing \in Changes /\ Closing.kind = "closed"
      /\ ~IsPut(Closing) /\ IsPut(Put(r)) /\ Put(r).put = r /\ r.closedAt # None
  BY BoundsAssumption, ChangeIsNoPut, PutIsPut DEF HistoryInv, Closing, Event, Changes, Kinds, None
<1>2. /\ stmts' \in Seq(Statements) /\ Len(stmts') = 2 /\ DOMAIN stmts' = 1..2
      /\ stmts'[1] = Put(r) /\ stmts'[2] = Closing /\ stmts' # <<Closing>>
  <2>1. Put(r) \in Statements /\ Closing \in Statements
    BY <1>1 DEF Statements, Put
  <2> QED
    BY <2>1
<1>3. PutInv(1, r)'
  BY <1>1, <1>2 DEF PutInv
<1>4. ChangeInv(2, stmts[2])'
  BY <1>1, <1>2 DEF ChangeInv
<1>5. StatementsInv'
  BY <1>1, <1>2, <1>3, <1>4 DEF StatementsInv
<1>6. stmts # <<Closing>>
  OBVIOUS
<1> QED
  BY <1>2, <1>5, <1>6, SameHistory DEF HistoryInv

LEMMA StepCheckGone ==
    ASSUME HistoryInv, NEW pg \in Pages, CheckGone(pg)
    PROVE  HistoryInv'
<1> DEFINE r == [row EXCEPT !.checkedAt = today, !.closedAt = today]
<1>1. row \in Row /\ today \in Nat
  BY BoundsAssumption DEF HistoryInv
<1>2. /\ r \in Row /\ r.firstSeen = row.firstSeen /\ r.closedAt = today
      /\ r.deadline = row.deadline /\ r.posted = row.posted
  BY <1>1 DEF Row
<1>3. /\ stmts = <<>> /\ row.firstSeen # None /\ row.closedAt = None
      /\ UNCHANGED <<today, row, events, lost>> /\ stmts' = <<Put(r), Closing>>
  BY DEF CheckGone, MayCheck, Idle, Closing
<1> QED
  BY <1>2, <1>3, ClosingBegins

LEMMA NoStatements ==
    ASSUME stmts' = <<>>
    PROVE  stmts' \in Seq(Statements) /\ StatementsInv' /\ stmts' # <<Closing>>
  BY DEF StatementsInv

LEMMA StepInsert ==
    ASSUME HistoryInv, NEW l \in Listings, Insert(l)
    PROVE  HistoryInv'
<1>1. row \in Row /\ today \in Nat \ {0} /\ l.deadline \in Nat /\ l.posted \in Nat /\ today \in Days
  BY SourcesAssumption, BoundsAssumption DEF HistoryInv
<1>2. /\ stmts' = <<>> /\ row.firstSeen = None /\ row.closedAt = None
      /\ UNCHANGED <<today, events, lost>> /\ stmts = <<>>
      /\ row' = [row EXCEPT !.firstSeen = today, !.lastSeen = today,
                            !.deadline = l.deadline, !.posted = l.posted]
  BY DEF Insert, Idle, HistoryInv
<1>3. row' \in Row /\ row'.firstSeen # None /\ row'.closedAt = None
  BY <1>1, <1>2 DEF Row, None
<1>4. ClosedInv'
  <2>1. \A at : Followed(at)' = Followed(at)
    BY <1>2 DEF Followed
  <2> QED
    BY <1>1, <1>2, <1>3, <2>1 DEF ClosedInv, ClosingInv, HistoryInv
<1> QED
  BY <1>1, <1>2, <1>3, <1>4, NoStatements DEF HistoryInv

Records == [at : Nat, kind : Kinds, old : Nat, new : Nat]

(* Days that are compared below. *)
LEMMA DayTypes ==
    ASSUME HistoryInv
    PROVE  /\ row \in Row /\ today \in Nat \ {0} /\ row.closedAt \in Nat /\ lost \subseteq Faults
           /\ events \in Seq(Records)
           /\ \A j \in DOMAIN events : events[j] \in Records /\ events[j].at \in Nat
<1>1. /\ row \in Row /\ today \in Nat \ {0} /\ lost \subseteq Faults /\ events \in Seq(Records)
  BY BoundsAssumption DEF HistoryInv, Records
<1>2. row.closedAt \in Nat
  BY <1>1 DEF Row
<1>3. \A j \in DOMAIN events : events[j] \in Records
  BY <1>1, LenProperties, ElementOfSeq
<1> QED
  BY <1>1, <1>2, <1>3 DEF Records

LEMMA StepTick ==
    ASSUME HistoryInv, NEW day \in Days, Tick(day)
    PROVE  HistoryInv'
<1>1. /\ stmts' = <<>> /\ stmts = <<>> /\ UNCHANGED <<row, events, lost>> /\ today' = day
      /\ today <= day
  BY BoundsAssumption DEF Tick, HistoryInv
<1>2. today \in Nat /\ day \in Nat /\ row.closedAt \in Nat
  BY BoundsAssumption, DayTypes
<1>3. \A j \in DOMAIN events : events[j].at \in Nat
  BY DayTypes
<1>4. ClosingNoted' = ClosingNoted
  BY <1>1 DEF ClosingNoted
<1>5. \A at : Followed(at)' = Followed(at)
  BY <1>1 DEF Followed
<1>6. stmts # <<Closing>>
  BY <1>1
<1>7. ClosedInv'
  BY <1>1, <1>2, <1>3, <1>4, <1>5, <1>6 DEF HistoryInv, ClosedInv, ClosingInv
<1> QED
  BY <1>1, <1>7, NoStatements DEF HistoryInv

LEMMA StepCrash ==
    ASSUME HistoryInv, Crash
    PROVE  HistoryInv'
<1>1. /\ stmts' = <<>> /\ stmts # <<>> /\ UNCHANGED <<today, row, events>>
      /\ lost' = IF stmts = <<Closing>> THEN lost \cup {Fault("insert", today, Closing)} ELSE lost
  BY DEF Crash
<1>2. lost \subseteq lost' /\ lost' \subseteq Faults
  BY <1>1, BoundsAssumption DEF HistoryInv, Fault, Faults, Closing, Event, Kinds, None
<1>3. row.closedAt # None => ClosingNoted'
  <2>1. CASE stmts # <<Closing>>
    BY <1>1, <2>1 DEF HistoryInv, ClosedInv, ClosingNoted
  <2>2. CASE stmts = <<Closing>>
    <3>1. Fault("insert", today, Closing) \in lost'
      BY <1>1, <2>2
    <3>2. ChangeInv(1, Closing)
      <4>1. 1 \in DOMAIN stmts /\ stmts[1] = Closing
        BY <2>2
      <4>2. ~IsPut(Closing)
        BY DEF Closing, Event, IsPut
      <4> QED
        BY <4>1, <4>2 DEF HistoryInv, StatementsInv
    <3>3. row.closedAt # None => row.closedAt = today
      BY <3>2 DEF ChangeInv, Closing, Event
    <3> QED
      BY <1>1, <3>1, <3>3 DEF ClosingNoted
  <2> QED
    BY <2>1, <2>2
<1>4. \A at : Followed(at) => Followed(at)'
  BY <1>1, <1>2 DEF Followed
<1>5. ClosedInv'
  BY <1>1, <1>3, <1>4 DEF HistoryInv, ClosedInv, ClosingInv
<1> QED
  BY <1>1, <1>2, <1>5, NoStatements DEF HistoryInv

-----------------------------------------------------------------------------
(* The execution of a statement. *)

(* What AddEvent leaves: at most one event more, of today, which is new       *)
(* unless the lookup failed; and a record of the change that is not older    *)
(* than yesterday, unless the insert failed.                                 *)
Added(s) ==
    /\ events' \in Seq(Records)
    /\ lost \subseteq lost' /\ lost' \subseteq Faults
    /\ DOMAIN events = 1..Len(events) /\ Len(events) \in Nat
    /\ \A j \in DOMAIN events : j \in DOMAIN events' /\ events'[j] = events[j]
    /\ \A j \in DOMAIN events' \ DOMAIN events :
          /\ j = Len(events) + 1 /\ events'[j].at = today
          /\ s = Event(events'[j].kind, events'[j].old, events'[j].new)
          /\ \/ \A i \in DOMAIN events : events[i] # events'[j]
             \/ Fault("lookup", today, s) \in lost'
    /\ \/ \E j \in DOMAIN events' :
              /\ events'[j].at + 1 >= today
              /\ s = Event(events'[j].kind, events'[j].old, events'[j].new)
       \/ Fault("insert", today, s) \in lost'

LEMMA EventAdded ==
    ASSUME HistoryInv, NEW s \in Changes, AddEvent(s)
    PROVE  Added(s)
<1> DEFINE e == [at |-> today, kind |-> s.kind, old |-> s.old, new |-> s.new]
<1>0. events \in Seq(Records) /\ today \in Nat /\ lost \subseteq Faults
  BY BoundsAssumption DEF HistoryInv, Records
<1>1. DOMAIN events = 1..Len(events) /\ Len(events) \in Nat /\ \A j \in DOMAIN events : events[j] \in Records
  BY <1>0, LenProperties, ElementOfSeq
<1>2. e \in Records /\ e.at = today /\ s = Event(e.kind, e.old, e.new)
  BY <1>0 DEF Records, Changes, Event
<1>3. ASSUME NEW step \in {"lookup", "insert", "update"}, Fails(step, s)
      PROVE  lost \subseteq lost' /\ lost' \subseteq Faults /\ Fault(step, today, s) \in lost'
  BY <1>0, <1>3 DEF Fails, Fault, Faults, Changes
<1>4. ASSUME Record(s)
      PROVE  /\ events' \in Seq(Records) /\ Len(events') = Len(events) + 1
             /\ DOMAIN events' = 1..(Len(events) + 1)
             /\ \A j \in 1..Len(events) : events'[j] = events[j]
             /\ events'[Len(events) + 1] = e
  <2>1. events' = Append(events, e)
    BY <1>4 DEF Record
  <2> HIDE DEF e
  <2> QED
    BY <1>0, <1>1, <1>2, <2>1, AppendProperties, LenProperties
<1> HIDE DEF e
<1>5. CASE Record(s) /\ Fails("lookup", s)
  BY <1>1, <1>2, <1>3, <1>4, <1>5, <1>0 DEF Added
<1>6. CASE UNCHANGED events /\ Fails("insert", s)
  BY <1>0, <1>1, <1>3, <1>6 DEF Added
<1>7. ASSUME NEW days \in {1, 2}, Recorded(s, days), UNCHANGED <<events, lost>> PROVE Added(s)
  <2>1. PICK j \in DOMAIN events : /\ events[j].at + days > today
                                   /\ s = Event(events[j].kind, events[j].old, events[j].new)
    BY <1>7 DEF Recorded
  <2>2. events[j].at + 1 >= today
    BY <1>0, <1>1, <2>1 DEF Records
  <2> QED
    BY <1>0, <1>1, <1>7, <2>1, <2>2 DEF Added
<1>8. ASSUME NEW days \in {1, 2}, ~Recorded(s, days), Record(s), UNCHANGED lost PROVE Added(s)
  <2>1. ASSUME NEW i \in DOMAIN events, events[i] = e PROVE FALSE
    <3>1. events[i].at + days > today /\ s = Event(events[i].kind, events[i].old, events[i].new)
      BY <1>0, <1>2, <2>1
    <3> QED
      BY <1>8, <3>1 DEF Recorded
  <2> QED
    BY <1>0, <1>1, <1>2, <1>4, <1>8, <2>1 DEF Added
<1> QED
  BY <1>5, <1>6, <1>7, <1>8 DEF AddEvent

(* The rest of the operation. *)
LEMMA RestOfStatements ==
    ASSUME HistoryInv, stmts # <<>>, stmts' = Tail(stmts)
    PROVE  /\ stmts' \in Seq(Statements) /\ Len(stmts) \in Nat \ {0}
           /\ Len(stmts') = Len(stmts) - 1
           /\ DOMAIN stmts = 1..Len(stmts) /\ DOMAIN stmts' = 1..(Len(stmts) - 1)
           /\ \A i \in 1..(Len(stmts) - 1) : stmts'[i] = stmts[i + 1]
           /\ stmts[1] = Head(stmts) /\ stmts[1] \in Statements
  BY HeadTailProperties, LenProperties, ElementOfSeq DEF HistoryInv

LEMMA FirstStatement ==
    ASSUME HistoryInv, stmts # <<>>, stmts' = Tail(stmts)
    PROVE  IF IsPut(stmts[1]) THEN stmts[1].put \in Row /\ PutInv(1, stmts[1].put)
                              ELSE stmts[1] \in Changes /\ ChangeInv(1, stmts[1])
<1>1. 1 \in DOMAIN stmts /\ stmts[1] \in Statements
  BY RestOfStatements
<1>2. IF IsPut(stmts[1]) THEN PutInv(1, stmts[1].put) ELSE ChangeInv(1, stmts[1])
  BY <1>1 DEF HistoryInv, StatementsInv
<1> QED
  BY <1>1, <1>2, StatementKinds

(* A row put or refused: what is left of the operation is its last change, if *)
(* it closes the posting, and nothing otherwise.                             *)
LEMMA ExecutePut ==
    ASSUME HistoryInv, Execute, IsPut(Head(stmts))
    PROVE  HistoryInv'
<1> DEFINE r == stmts[1].put
<1>1. /\ Update(r) /\ stmts # <<>> /\ stmts' = Tail(stmts)
      /\ UNCHANGED <<today, events>>
  BY RestOfStatements DEF Execute
<1>2. /\ stmts' \in Seq(Statements) /\ Len(stmts) \in Nat \ {0} /\ Len(stmts') = Len(stmts) - 1
      /\ DOMAIN stmts = 1..Len(stmts) /\ DOMAIN stmts' = 1..(Len(stmts) - 1)
      /\ \A i \in 1..(Len(stmts) - 1) : stmts'[i] = stmts[i + 1]
      /\ stmts[1] = Head(stmts) /\ stmts[1] \in Statements
  BY <1>1, RestOfStatements
<1>3. r \in Row /\ PutInv(1, r)
  BY <1>1, <1>2, FirstStatement
<1>4. stmts # <<Closing>>
  <2>1. ~IsPut(Closing) /\ <<Closing>>[1] = Closing
    BY DEF Closing, Event, IsPut
  <2> QED
    BY <1>2, <2>1
<1>5. /\ row \in Row /\ today \in Nat \ {0} /\ lost \subseteq Faults
      /\ \A j \in DOMAIN events : events[j].at \in Nat
  BY DayTypes
<1>6. row' \in Row /\ (row'.firstSeen = None => row' = row)
  BY <1>1, <1>3, <1>5 DEF Update, PutInv
<1>7. /\ lost \subseteq lost' /\ lost' \subseteq Faults
      /\ row' = row \/ (row' = r /\ lost' = lost)
      /\ r.closedAt # None /\ row' # r => row' = row /\ Fault("update", today, Closing) \in lost'
  BY <1>1, <1>5 DEF Update, Fails, Fault, Faults, Closing, Event, Kinds, None
<1> HIDE DEF r
<1>8. \A at : Followed(at) => Followed(at)'
  BY <1>1, <1>7 DEF Followed
<1>9. CASE r.closedAt = None
  <2>1. stmts' = <<>>
    <3>1. Len(stmts) = 1
      BY <1>3, <1>9 DEF PutInv
    <3> QED
      BY <1>2, <3>1, EmptySeq
  <2>2. CASE row' = row
    <3>1. ClosingNoted => ClosingNoted'
      BY <1>1, <1>7, <2>2 DEF ClosingNoted
    <3>2. ClosedInv'
      BY <1>1, <1>4, <1>8, <2>2, <3>1 DEF HistoryInv, ClosedInv, ClosingInv
    <3> QED
      BY <1>1, <1>7, <2>1, <2>2, <3>2, NoStatements DEF HistoryInv
  <2>3. CASE row' = r /\ lost' = lost
    <3>1. ASSUME NEW at \in Nat, ClosingInv(at) PROVE ClosingInv(at)'
      <4>1. CASE row.closedAt = None
        BY <1>1, <1>8, <1>9, <2>3, <3>1, <4>1 DEF ClosingInv
      <4>2. CASE row.closedAt # None
        <5>1. Noted(Event("reopened", row.closedAt, None)) /\ at <= row.closedAt
          BY <1>3, <1>9, <3>1, <4>2 DEF PutInv, Told, ClosingInv
        <5>2. CASE \E i \in DOMAIN events : Event("reopened", row.closedAt, None)
                                        = Event(events[i].kind, events[i].old, events[i].new)
          <6>1. \E i \in DOMAIN events : events[i].kind = "reopened"
            BY <5>2 DEF Event
          <6> QED
            BY <1>1, <1>9, <2>3, <3>1, <6>1 DEF ClosingInv, Followed
        <5>3. CASE Fault("insert", today, Event("reopened", row.closedAt, None)) \in lost
          <6> DEFINE f == Fault("insert", today, Event("reopened", row.closedAt, None))
          <6>1. f \in lost /\ f.step = "insert" /\ f.kind = "reopened" /\ f.old >= at
            BY <5>1, <5>3 DEF Fault, Event
          <6> HIDE DEF f
          <6> QED
            BY <1>1, <1>9, <2>3, <3>1, <6>1 DEF ClosingInv, Followed
        <5> QED
          BY <5>1, <5>2, <5>3 DEF Noted
      <4> QED
        BY <4>1, <4>2
    <3>2. ClosedInv'
      BY <1>1, <1>5, <1>9, <2>3, <3>1 DEF HistoryInv, ClosedInv, None
    <3> QED
      BY <1>1, <1>3, <1>6, <1>7, <2>1, <2>3, <3>2, NoStatements DEF HistoryInv, PutInv
  <2> QED
    BY <1>7, <2>2, <2>3
<1>10. CASE r.closedAt # None
  <2>1. Len(stmts) = 2 /\ stmts[2] = Closing /\ r.closedAt = today /\ row.closedAt = None
    BY <1>3, <1>10 DEF PutInv
  <2>2. Len(stmts') = 1 /\ stmts'[1] = Closing
    BY <1>2, <2>1
  <2>3. Closing \in Changes /\ Closing.kind = "closed"
    BY DEF Closing, Event, Changes, Kinds, None
  <2>4. stmts' = <<Closing>>
    <3>1. <<Closing>> \in Seq(Statements) /\ Len(<<Closing>>) = 1 /\ <<Closing>>[1] = Closing
      BY <2>3 DEF Statements
    <3>2. \A i \in 1..Len(stmts') : stmts'[i] = <<Closing>>[i]
      BY <2>2, <3>1
    <3> QED
      BY <1>2, <2>2, <3>1, <3>2, SeqEqual
  <2>5. row'.closedAt = today \/ (row'.closedAt = None /\ Fault("update", today, Closing) \in lost')
    BY <1>7, <1>10, <2>1
  <2>6. ChangeInv(1, stmts[1])'
    BY <1>1, <2>2, <2>3, <2>4, <2>5 DEF ChangeInv
  <2>7. StatementsInv'
    BY <1>2, <2>1, <2>2, <2>3, <2>6, ChangeIsNoPut DEF StatementsInv
  <2>8. ASSUME NEW at, ClosingInv(at) PROVE ClosingInv(at)'
    BY <1>1, <1>8, <2>1, <2>5, <2>8 DEF ClosingInv
  <2>9. ClosedInv'
    <3>1. row'.closedAt <= today'
      BY <1>1, <1>5, <2>5 DEF None
    <3> QED
      BY <1>1, <2>4, <2>8, <3>1 DEF HistoryInv, ClosedInv
  <2>10. row' = row \/ row'.firstSeen # None
    BY <1>3, <1>7 DEF PutInv
  <2> QED
    BY <1>1, <1>2, <1>6, <1>7, <2>7, <2>9, <2>10 DEF HistoryInv
<1> QED
  BY <1>9, <1>10

LEMMA ExecuteChange ==
    ASSUME HistoryInv, Execute, ~IsPut(Head(stmts))
    PROVE  HistoryInv'
<1> DEFINE s == Head(stmts)
<1>1. /\ AddEvent(s) /\ stmts # <<>> /\ stmts' = Tail(stmts)
      /\ UNCHANGED <<today, row>>
  BY DEF Execute
<1>2. /\ stmts' \in Seq(Statements) /\ Len(stmts) \in Nat \ {0} /\ Len(stmts') = Len(stmts) - 1
      /\ DOMAIN stmts = 1..Len(stmts) /\ DOMAIN stmts' = 1..(Len(stmts) - 1)
      /\ \A i \in 1..(Len(stmts) - 1) : stmts'[i] = stmts[i + 1]
      /\ stmts[1] = s /\ s \in Statements
  BY <1>1, RestOfStatements
<1>3. s \in Changes /\ ChangeInv(1, s)
  BY <1>1, <1>2, FirstStatement
<1>4. Added(s)
  BY <1>1, <1>3, EventAdded
<1> HIDE DEF s
<1>5. ASSUME NEW x, Noted(x) \/ x = s PROVE Noted(x)'
  <2>1. CASE Noted(x)
    BY <1>1, <1>4, <2>1 DEF Noted, Added
  <2>2. CASE x = s
    BY <1>1, <1>4, <2>2 DEF Noted, Added
  <2> QED
    BY <1>5, <2>1, <2>2
<1>6. ASSUME NEW x, NEW i \in 1..(Len(stmts) - 1), Told(x, i + 1) PROVE Told(x, i)'
  <2>1. CASE Noted(x) \/ x = s
    BY <1>5, <2>1 DEF Told
  <2>2. ASSUME NEW j \in 2..i, stmts[j] = x PROVE Told(x, i)'
    <3>1. j - 1 \in 1..(i - 1) /\ stmts'[j - 1] = x
      BY <1>2, <2>2
    <3> QED
      BY <3>1 DEF Told
  <2>3. Noted(x) \/ (\E j \in 1..i : stmts[j] = x)
    BY <1>6 DEF Told
  <2> QED
    BY <1>2, <2>1, <2>2, <2>3
<1>7. ASSUME NEW i \in 1..(Len(stmts) - 1), NEW r, PutInv(i + 1, r) PROVE PutInv(i, r)'
  <2>1. Len(stmts') = Len(stmts) - 1 /\ UNCHANGED <<row, today>>
    BY <1>1, <1>2
  <2>2. r.closedAt = None => i = Len(stmts')
    BY <1>2, <1>7, <2>1 DEF PutInv
  <2>3. r.closedAt # None => /\ Len(stmts') = i + 1 /\ stmts'[i + 1] = Closing
                             /\ r.closedAt = today' /\ row'.closedAt = None
    BY <1>2, <1>7, <2>1 DEF PutInv
  <2> QED
    BY <1>6, <1>7, <2>1, <2>2, <2>3 DEF PutInv
<1>8. ASSUME NEW i \in 1..(Len(stmts) - 1), NEW x, x = stmts[i + 1], ~IsPut(x), ChangeInv(i + 1, x)
      PROVE  ChangeInv(i, x)'
  <2>1. x.kind # "closed"
    <3>1. stmts # <<Closing>>
      BY <1>2, <1>8
    <3>2. ~IsPut(stmts[1])
      BY <1>2 DEF s
    <3> QED
      BY <1>8, <3>1, <3>2 DEF ChangeInv
  <2> QED
    BY <1>1, <1>8, <2>1 DEF ChangeInv
<1>9. StatementsInv'
  <2> SUFFICES ASSUME NEW i \in 1..(Len(stmts) - 1)
               PROVE  IF IsPut(stmts'[i]) THEN PutInv(i, stmts[i].put)' ELSE ChangeInv(i, stmts[i])'
    BY <1>2 DEF StatementsInv
  <2>1. stmts'[i] = stmts[i + 1] /\ i + 1 \in DOMAIN stmts
    BY <1>2
  <2>2. IF IsPut(stmts[i + 1]) THEN PutInv(i + 1, stmts[i + 1].put) ELSE ChangeInv(i + 1, stmts[i + 1])
    BY <2>1 DEF HistoryInv, StatementsInv
  <2> QED
    BY <1>7, <1>8, <2>1, <2>2
<1>10. /\ today \in Nat \ {0} /\ row.closedAt \in Nat
       /\ lost \subseteq lost' /\ lost' \subseteq Faults
       /\ \A j \in DOMAIN events : j \in DOMAIN events' /\ events'[j] = events[j]
  BY <1>4, BoundsAssumption DEF HistoryInv, Added, Row
<1>11. s.kind = "closed" => /\ s = Closing
                            /\ \/ row.closedAt = today
                               \/ row.closedAt = None /\ Fault("update", today, Closing) \in lost
  <2> SUFFICES ASSUME s.kind = "closed"
               PROVE  /\ stmts = <<Closing>>
                      /\ \/ row.closedAt = today
                         \/ row.closedAt = None /\ Fault("update", today, Closing) \in lost
    BY <1>2
  <2> QED
    BY <1>3 DEF ChangeInv
<1>12. row.closedAt # None => ClosingNoted'
  <2>1. CASE stmts # <<Closing>>
    BY <1>1, <1>10, <2>1 DEF HistoryInv, ClosedInv, ClosingNoted
  <2>2. CASE stmts = <<Closing>>
    <3>1. s = Closing /\ s.kind = "closed"
      BY <1>2, <2>2 DEF Closing, Event
    <3> SUFFICES ASSUME row.closedAt = today PROVE ClosingNoted'
      BY <1>11, <3>1
    <3>2. CASE Fault("insert", today, s) \in lost'
      BY <1>1, <3>1, <3>2 DEF ClosingNoted
    <3>3. ASSUME NEW j \in DOMAIN events', events'[j].at + 1 >= today,
                 s = Event(events'[j].kind, events'[j].old, events'[j].new)
          PROVE  ClosingNoted'
      BY <1>1, <3>1, <3>3 DEF ClosingNoted, Event
    <3> QED
      BY <1>4, <3>2, <3>3 DEF Added
  <2> QED
    BY <2>1, <2>2
<1>13. \A at : Followed(at) => Followed(at)'
  BY <1>10 DEF Followed
<1>14. ASSUME NEW j \in DOMAIN events', events'[j].kind = "closed" PROVE ClosingInv(events[j].at)'
  <2>1. CASE j \in DOMAIN events
    BY <1>1, <1>10, <1>13, <1>14, <2>1 DEF HistoryInv, ClosedInv, ClosingInv
  <2>2. CASE j \notin DOMAIN events
    <3>1. events'[j].at = today /\ s = Event(events'[j].kind, events'[j].old, events'[j].new)
      BY <1>4, <2>2 DEF Added
    <3>2. s.kind = "closed"
      BY <1>14, <3>1 DEF Event
    <3>3. row.closedAt = None => Fault("update", today, Closing) \in lost'
      BY <1>10, <1>11, <3>2 DEF None
    <3> QED
      BY <1>1, <1>10, <1>11, <3>1, <3>2, <3>3 DEF ClosingInv, Followed
  <2> QED
    BY <2>1, <2>2
<1>15. ClosedInv'
  BY <1>1, <1>12, <1>14 DEF HistoryInv, ClosedInv
<1> QED
  BY <1>1, <1>2, <1>4, <1>9, <1>10, <1>15 DEF HistoryInv, Records, Added

LEMMA HistoryInit == Init => HistoryInv
<1> SUFFICES ASSUME Init PROVE HistoryInv
  OBVIOUS
<1>1. row \in Row /\ row.deadline = None /\ row.posted = None /\ row.closedAt = None
  BY DEF Init, Row, None
<1>2. StatementsInv /\ ClosedInv
  BY <1>1, BoundsAssumption DEF Init, StatementsInv, ClosedInv, None
<1>3. stmts \in Seq(Statements) /\ events \in Seq([at : Nat, kind : Kinds, old : Nat, new : Nat])
  BY EmptySeq DEF Init
<1> QED
  BY <1>1, <1>2, <1>3 DEF Init, HistoryInv

LEMMA HistoryStep == HistoryInv /\ [Next]_vars => HistoryInv'
<1> SUFFICES ASSUME HistoryInv, [Next]_vars PROVE HistoryInv'
  OBVIOUS
<1>1. CASE UNCHANGED vars
  <2>1. UNCHANGED <<today, row, events, stmts, lost>>
    BY <1>1 DEF vars
  <2>2. \A x, i : Told(x, i)' = Told(x, i)
    BY <2>1 DEF Told, Noted
  <2>3. (\A i, r : PutInv(i, r)' = PutInv(i, r)) /\ \A i, x : ChangeInv(i, x)' = ChangeInv(i, x)
    BY <2>1, <2>2 DEF PutInv, ChangeInv
  <2>4. StatementsInv'
    BY <2>1, <2>3 DEF HistoryInv, StatementsInv
  <2>5. ClosedInv'
    BY <2>1 DEF HistoryInv, ClosedInv, ClosingInv, ClosingNoted, Followed
  <2> QED
    BY <2>1, <2>4, <2>5 DEF HistoryInv
<1> QED
  BY <1>1, StepInsert, StepRefresh, StepCheckFails, StepCheckGone, StepCheckReads, ExecutePut,
     ExecuteChange, StepCrash, StepTick DEF Next

(* The invariant that everything below rests on. *)
THEOREM HistoryCorrect == Spec => []HistoryInv
BY HistoryInit, HistoryStep, PTL DEF Spec

(* Rows, events and statements keep their types for any listings and pages. *)
THEOREM TypeCorrect == Spec => []TypeOK
<1>1. HistoryInv => TypeOK
  <2> SUFFICES ASSUME HistoryInv PROVE TypeOK
    OBVIOUS
  <2>1. ASSUME NEW i \in DOMAIN stmts
        PROVE  IF IsPut(stmts[i]) THEN stmts[i].put \in Row
               ELSE stmts[i] \in [kind : Kinds, old : Nat, new : Nat]
    <3>1. stmts[i] \in Statements
      BY LenProperties, ElementOfSeq DEF HistoryInv
    <3> QED
      BY <3>1, StatementKinds DEF Changes
  <2> QED
    BY <2>1, BoundsAssumption DEF HistoryInv, TypeOK
<1> QED
  BY <1>1, HistoryCorrect, PTL

-----------------------------------------------------------------------------
(* The history explains the row. *)

LEMMA PutIsTold ==
    ASSUME HistoryInv, Execute, row' # row
    PROVE  LET r == stmts[1].put IN row' = r /\ PutInv(1, r) /\ r \in Row
<1>1. IsPut(Head(stmts)) /\ row' = Head(stmts).put /\ stmts # <<>> /\ stmts' = Tail(stmts)
  BY DEF Execute, Update
<1>2. 1 \in DOMAIN stmts /\ stmts[1] = Head(stmts) /\ stmts[1] \in Statements
  BY <1>1, RestOfStatements
<1> QED
  BY <1>1, <1>2, FirstStatement

(* For any runs cut off anywhere and any statements that fail, a date that is *)
(* known is never replaced before the history tells of that very change, or  *)
(* was refused to on that day.                                               *)
THEOREM HistoryExplainsCorrect == Spec => HistoryExplains
<1> DEFINE DeadlineStep == row.deadline # None /\ row'.deadline # row.deadline =>
               \E kind \in {"deadline_extended", "deadline_shortened"} :
                   Noted(Event(kind, row.deadline, row'.deadline))
           RepostStep == row.posted # None /\ row'.posted # row.posted =>
               /\ row'.posted > row.posted
               /\ row'.reposted
               /\ Noted(Event("reposted", row.posted, row'.posted))
<1>1. HistoryInv /\ [Next]_vars => DeadlineStep /\ RepostStep
  <2> SUFFICES ASSUME HistoryInv, [Next]_vars PROVE DeadlineStep /\ RepostStep
    OBVIOUS
  <2>1. CASE row' = row
    BY <2>1
  <2>2. ASSUME NEW l \in Listings, Insert(l) PROVE DeadlineStep /\ RepostStep
    BY <2>2 DEF Insert, HistoryInv
  <2>3. CASE Execute /\ row' # row
    <3>1. row' = stmts[1].put /\ PutInv(1, stmts[1].put)
      BY <2>3, PutIsTold
    <3>2. \A x : Told(x, 1) => Noted(x)
      BY DEF Told
    <3> QED
      BY <3>1, <3>2 DEF PutInv
  <2>4. ASSUME ~ \E l \in Listings : Insert(l), ~Execute PROVE row' = row
    BY <2>4 DEF Next, Refresh, CheckFails, CheckGone, CheckReads, Crash, Tick, vars
  <2> QED
    BY <2>1, <2>2, <2>3, <2>4
<1>2. Spec => [][DeadlineStep]_vars /\ [][RepostStep]_vars
  BY <1>1, HistoryCorrect, PTL DEF Spec
<1> QED
  BY <1>2 DEF HistoryExplains, DeadlineExplained, RepostExplained

-----------------------------------------------------------------------------
(* Once a day. *)

(* Only the execution of a change touches the events, and nothing lost is     *)
(* forgotten.                                                                *)
LEMMA EventsStep ==
    ASSUME HistoryInv, [Next]_vars
    PROVE  \/ UNCHANGED events /\ lost \subseteq lost'
           \/ /\ Added(stmts[1]) /\ UNCHANGED row
              /\ 1 \in DOMAIN stmts /\ stmts[1] \in Changes /\ ChangeInv(1, stmts[1])
<1>1. CASE Execute /\ IsPut(Head(stmts))
  BY <1>1 DEF Execute, Update, Fails
<1>2. CASE Execute /\ ~IsPut(Head(stmts))
  <2>1. /\ stmts # <<>> /\ stmts' = Tail(stmts) /\ AddEvent(Head(stmts)) /\ UNCHANGED row
    BY <1>2 DEF Execute
  <2>2. 1 \in DOMAIN stmts /\ stmts[1] = Head(stmts) /\ stmts[1] \in Statements
    BY <2>1, RestOfStatements
  <2>3. stmts[1] \in Changes /\ ChangeInv(1, stmts[1])
    BY <1>2, <2>1, <2>2, FirstStatement
  <2> QED
    BY <2>1, <2>2, <2>3, EventAdded
<1>3. CASE Crash
  BY <1>3 DEF Crash
<1>4. ASSUME ~Execute, ~Crash PROVE UNCHANGED <<events, lost>>
  BY <1>4 DEF Next, Insert, Refresh, CheckFails, CheckGone, CheckReads, Tick, vars
<1> QED
  BY <1>1, <1>2, <1>3, <1>4

LEMMA OncePerDayStep ==
    ASSUME HistoryInv, OncePerDay, [Next]_vars
    PROVE  OncePerDay'
<1>1. CASE UNCHANGED events /\ lost \subseteq lost'
  BY <1>1 DEF OncePerDay
<1>2. CASE Added(stmts[1]) /\ stmts[1] \in Changes
  <2> DEFINE s == stmts[1]
  <2>1. ASSUME NEW j \in DOMAIN events' \ DOMAIN events, NEW i \in DOMAIN events,
               events'[i] = events'[j]
        PROVE  Fault("lookup", events[j].at, events[j])' \in lost'
    <3>1. /\ events'[j].at = today /\ s = Event(events'[j].kind, events'[j].old, events'[j].new)
          /\ Fault("lookup", today, s) \in lost'
      BY <1>2, <2>1 DEF Added
    <3>2. Fault("lookup", today, s) = Fault("lookup", events'[j].at, events'[j])
      BY <3>1 DEF Fault, Event
    <3> QED
      BY <3>1, <3>2 DEF Fault
  <2>2. /\ \A j \in DOMAIN events : j \in DOMAIN events' /\ events'[j] = events[j]
        /\ \A j \in DOMAIN events' \ DOMAIN events : j = Len(events) + 1
        /\ lost \subseteq lost'
    BY <1>2 DEF Added
  <2> SUFFICES ASSUME NEW i \in DOMAIN events', NEW j \in DOMAIN events', events'[i] = events'[j], i # j
               PROVE  Fault("lookup", events'[i].at, events'[i]) \in lost'
    BY DEF OncePerDay, Fault
  <2>3. CASE i \in DOMAIN events /\ j \in DOMAIN events
    BY <2>2, <2>3 DEF OncePerDay
  <2>4. CASE i \in DOMAIN events /\ j \notin DOMAIN events
    BY <2>1, <2>4 DEF Fault
  <2>5. CASE i \notin DOMAIN events /\ j \in DOMAIN events
    BY <2>1, <2>5 DEF Fault
  <2>6. CASE i \notin DOMAIN events /\ j \notin DOMAIN events
    BY <2>2, <2>6
  <2> QED
    BY <2>3, <2>4, <2>5, <2>6
<1> QED
  BY <1>1, <1>2, EventsStep

(* No change is recorded twice on a day, whatever is cut off, refused and     *)
(* found again, unless the very lookup for it failed.                        *)
THEOREM OncePerDayCorrect == Spec => []OncePerDay
<1>1. Init => OncePerDay
  BY DEF Init, OncePerDay
<1> QED
  BY <1>1, OncePerDayStep, HistoryCorrect, PTL DEF Spec

-----------------------------------------------------------------------------
(* Closed and reopened. *)

LEMMA ReopenedStep ==
    ASSUME HistoryInv, ReopenedWasClosed, [Next]_vars
    PROVE  ReopenedWasClosed'
<1>1. CASE UNCHANGED events /\ lost \subseteq lost'
  BY <1>1 DEF ReopenedWasClosed, Fault
<1>2. CASE Added(stmts[1]) /\ UNCHANGED row /\ 1 \in DOMAIN stmts /\ ChangeInv(1, stmts[1])
  <2> DEFINE s == stmts[1]
  <2>1. /\ DOMAIN events = 1..Len(events) /\ Len(events) \in Nat
        /\ \A j \in DOMAIN events : j \in DOMAIN events' /\ events'[j] = events[j]
        /\ \A j \in DOMAIN events' \ DOMAIN events :
              /\ j = Len(events) + 1
              /\ s = Event(events'[j].kind, events'[j].old, events'[j].new)
        /\ lost \subseteq lost'
    BY <1>2 DEF Added
  <2> HIDE DEF s
  <2> SUFFICES ASSUME NEW i \in DOMAIN events', events'[i].kind = "reopened"
               PROVE  \/ \E j \in 1..(i - 1) :
                            events'[j].kind = "closed" /\ events'[j].at + 1 >= events'[i].old
                      \/ Fault("insert", events'[i].old, Closing) \in lost'
    BY DEF ReopenedWasClosed, Fault
  <2>2. CASE i \in DOMAIN events
    <3>1. CASE Fault("insert", events[i].old, Closing) \in lost
      BY <2>1, <2>2, <3>1
    <3>2. ASSUME NEW j \in 1..(i - 1), events[j].kind = "closed", events[j].at + 1 >= events[i].old
          PROVE  events'[j].kind = "closed" /\ events'[j].at + 1 >= events'[i].old
      <4>1. j \in DOMAIN events
        BY <2>1, <2>2
      <4> QED
        BY <2>1, <2>2, <3>2, <4>1
    <3> QED
      BY <2>1, <2>2, <3>1, <3>2 DEF ReopenedWasClosed
  <2>3. CASE i \notin DOMAIN events
    <3>1. i = Len(events) + 1 /\ s = Event(events'[i].kind, events'[i].old, events'[i].new)
      BY <2>1, <2>3
    <3>2. s.kind = "reopened" /\ s.old = events'[i].old
      BY <3>1 DEF Event
    <3>3. row.closedAt # None /\ events'[i].old = row.closedAt
      BY <1>2, <3>2 DEF ChangeInv, s
    <3>4. stmts # <<Closing>>
      <4>1. Closing.kind = "closed" /\ <<Closing>>[1] = Closing
        BY DEF Closing, Event
      <4> QED
        BY <3>2, <4>1 DEF s
    <3>5. ClosingNoted
      BY <3>3, <3>4 DEF HistoryInv, ClosedInv
    <3>6. CASE Fault("insert", row.closedAt, Closing) \in lost
      BY <2>1, <3>3, <3>6
    <3>7. ASSUME NEW j \in DOMAIN events, events[j].kind = "closed", events[j].at + 1 >= row.closedAt
          PROVE  /\ j \in 1..(i - 1)
                 /\ events'[j].kind = "closed" /\ events'[j].at + 1 >= events'[i].old
      BY <2>1, <3>1, <3>3, <3>7
    <3> QED
      BY <3>5, <3>6, <3>7 DEF ClosingNoted
  <2> QED
    BY <2>2, <2>3
<1> QED
  BY <1>1, <1>2, EventsStep

(* A posting that is said to have been reopened was recorded as closed before, *)
(* unless the record of that closing failed or was cut off.                  *)
THEOREM ReopenedWasClosedCorrect == Spec => []ReopenedWasClosed
<1>1. Init => ReopenedWasClosed
  BY DEF Init, ReopenedWasClosed
<1> QED
  BY <1>1, ReopenedStep, HistoryCorrect, PTL DEF Spec

(* A posting that is listed again after its page had said closed is told to   *)
(* the owner as hard to fill, or as gone, for any crashes in between, unless *)
(* the closing of the row or the record of the return was refused.           *)
THEOREM ReopenedIsToldCorrect == Spec => []ReopenedIsTold
<1>1. HistoryInv => ReopenedIsTold
  <2> SUFFICES ASSUME HistoryInv, row.closedAt = None,
                      NEW i \in DOMAIN events, events[i].kind = "closed"
               PROVE  \/ Verdict = "hard to fill" /\ "readvertised" \in Signals
                      \/ Verdict = "gone"
                      \/ Fault("update", events[i].at, Closing) \in lost
                      \/ \E f \in lost : f.step = "insert" /\ f.kind = "reopened" /\ f.old >= events[i].at
    BY DEF ReopenedIsTold
  <2>1. Followed(events[i].at)
    BY DEF HistoryInv, ClosedInv, ClosingInv
  <2> SUFFICES ASSUME \E j \in DOMAIN events : events[j].kind = "reopened"
               PROVE  Verdict = "gone" \/ (Verdict = "hard to fill" /\ "readvertised" \in Signals)
    BY <2>1 DEF Followed
  <2>2. Readvertised
    BY DEF Readvertised, Returns
  <2>3. "readvertised" \in HardTags
    BY <2>2 DEF HardTags
  <2>4. ~Closed
    BY DEF Closed
  <2>5. CASE Gone
    BY <2>4, <2>5 DEF Verdict
  <2>6. CASE ~Gone
    BY <2>3, <2>4, <2>6 DEF Verdict, Signals
  <2> QED
    BY <2>5, <2>6
<1> QED
  BY <1>1, HistoryCorrect, PTL
=============================================================================
