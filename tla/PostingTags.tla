----------------------------- MODULE PostingTags -----------------------------
(***************************************************************************)
(* What the owner is told of a posting: the tags that Row.Signals of         *)
(* srv/jobs/signals.go derives from the row and its history, and the verdict. *)
(* The row is not merged with copies, so that nothing is said of other       *)
(* boards; it is a vacancy and scored high enough.  A page whose history     *)
(* cannot be read shows the tags of a posting without one; the next one has  *)
(* them again.                                                               *)
(***************************************************************************)
EXTENDS PostingSignals

GoneAfter == 5
ReadvertisedGap == 14
OverdueAfter == 3
ThinAfter == 10

\* 0 when one of the dates is missing; otherwise it may be negative, and no
\* threshold below is.
DaysBetween(a, b) == IF a = None \/ b = None \/ b < a THEN 0 ELSE b - a

\* Days since the posted date, or since the first sighting.
AgeDays == DaysBetween(IF row.posted # None THEN row.posted ELSE row.firstSeen, today)

Extensions == {i \in DOMAIN events : events[i].kind = "deadline_extended"}
\* A jump of two weeks or more, or one that is not known.
Reposts ==
    {i \in DOMAIN events : events[i].kind = "reposted"
        /\ (DaysBetween(events[i].old, events[i].new) >= ReadvertisedGap \/ events[i].old = None)}
Returns == {i \in DOMAIN events : events[i].kind \in {"reappeared", "reopened"}}

\* Mutant: a posting that came back is not re-advertised, a repost is.
ReadvertisedIfReposted == Reposts # {}

Readvertised == Reposts \cup Returns # {}

\* A known count below 25, LinkedIn's "among the first 25" included, is a thin field.
\* The tags that count towards "hard to fill", and the others.
HardTags ==
       (IF Extensions # {} THEN {"extended"} ELSE {})
  \cup (IF Readvertised THEN {"readvertised"} ELSE {})
  \cup (IF DaysBetween(row.deadline, today) >= OverdueAfter THEN {"overdue"} ELSE {})
  \cup (IF row.applicants \in 1..24 /\ AgeDays >= ThinAfter THEN {"fewapps"} ELSE {})
  \cup (IF \E i \in DOMAIN events : events[i].kind = "salary_up" THEN {"salaryup"} ELSE {})
  \cup (IF AgeDays >= 60 THEN {"long"} ELSE {})

SoftTags ==
       (IF row.applicants \in 25..39 /\ AgeDays >= ThinAfter THEN {"fewapps"} ELSE {})
  \cup (IF row.applicants >= 150 /\ AgeDays >= ThinAfter THEN {"manyapps"} ELSE {})
  \cup (IF \E i \in DOMAIN events : events[i].kind = "salary" THEN {"salaryup"} ELSE {})
  \cup (IF AgeDays \in 40..59 THEN {"long"} ELSE {})

Closed == row.closedAt # None
Gone == ~Closed /\ today > row.lastSeen + GoneAfter

\* A closed or vanished posting has one tag, which says so.
Signals ==
    CASE Closed -> {"closed"}
      [] Gone -> {"gone"}
      [] OTHER -> HardTags \cup SoftTags

Verdict ==
    CASE Closed -> "closed"
      [] Gone -> "gone"
      [] ~Closed /\ ~Gone /\ HardTags # {} -> "hard to fill"
      [] OTHER -> "fresh"

-----------------------------------------------------------------------------
(* The owner learns of every posting that is listed again after its page had *)
(* said closed: it counts as hard to fill as long as it is listed, whatever  *)
(* run was cut off between the listing, the history and the row.  Two        *)
(* refusals of the database can hide it: the row was not closed when the     *)
(* closing was recorded, or the return was not recorded when it was opened.  *)
ReopenedIsTold ==
    row.firstSeen # None /\ row.closedAt = None =>
        \A i \in DOMAIN events :
            events[i].kind = "closed" =>
                \/ Verdict = "hard to fill" /\ "readvertised" \in Signals
                \/ Verdict = "gone"
                \/ Fault("update", events[i].at, Closing) \in lost
                \/ \E f \in lost : f.step = "insert" /\ f.kind = "reopened" /\ f.old >= events[i].at
=============================================================================
