--------------------------- MODULE PostingSignals ---------------------------
(***************************************************************************)
(* The life of one posting between the daily fetch (Upsert in              *)
(* srv/jobs/store.go) and the page check (CheckPending and applySignals in  *)
(* srv/jobs/signals.go), and the change history job_events both write.      *)
(*                                                                         *)
(* Neither writer uses a transaction: it runs its statements one after the  *)
(* other, the process may die between two of them, and one that fails is    *)
(* logged or ignored before the next one runs.  The statements of the       *)
(* operation under way are the sequence stmts.  The background slot keeps   *)
(* fetch and check apart.  Dates are day numbers, 0 is the empty string or   *)
(* NULL; of a salary only the largest number is kept.  The posting is       *)
(* visible and scored at least BriefMinScore.                               *)
(***************************************************************************)
EXTENDS Naturals, Sequences, FiniteSets

CONSTANTS
    Listings,   \* what a source may list: records of deadline and posted
    Pages,      \* what the posting's page may say: answer, applicants,
                \* salary, validThru and datePosted
    Days,       \* bound: the days on which something runs
    MaxEvents,  \* bound: no run starts with so many events
    MaxFaults   \* bound: no statement fails after so many faults

None == 0

ASSUME SourcesAssumption ==
    /\ Listings \subseteq [deadline : Nat, posted : Nat]
    /\ Pages \subseteq [answer : {"ok", "gone", "error"}, applicants : Nat,
                        salary : Nat, validThru : Nat, datePosted : Nat]
ASSUME BoundsAssumption ==
    Days \subseteq Nat \ {0} /\ Days # {} /\ MaxEvents \in Nat /\ MaxFaults \in Nat

VARIABLES
    today,
    row,     \* the row of job_postings; firstSeen is None before it is inserted
    events,  \* its job_events, oldest first
    stmts,   \* the statements left of the Upsert or applySignals under way
    lost     \* history: the lookups, inserts and updates that failed, each with
             \* its day and its change

vars == <<today, row, events, stmts, lost>>

CheckInterval == 3
AbsentAfter == 10

Row == [firstSeen : Nat, deadline : Nat, posted : Nat, lastSeen : Nat, reposted : BOOLEAN,
        checkedAt : Nat, closedAt : Nat, applicants : Nat, salary : Nat]

Kinds == {"deadline_extended", "deadline_shortened", "reposted", "reappeared", "reopened",
          "closed", "applicants", "salary", "salary_up"}

Event(kind, old, new) == [kind |-> kind, old |-> old, new |-> new]
Closing == Event("closed", None, None)
Put(r) == [put |-> r]
IsPut(s) == DOMAIN s = {"put"}

\* The sequence of s alone, if the condition holds.
If(condition, s) == IF condition THEN <<s>> ELSE <<>>

Fault(step, at, s) == [step |-> step, at |-> at, kind |-> s.kind, old |-> s.old, new |-> s.new]
Faults == [step : {"lookup", "insert", "update"}, at : Nat, kind : Kinds, old : Nat, new : Nat]

-----------------------------------------------------------------------------
TypeOK ==
    /\ today \in Nat
    /\ row \in Row
    /\ events \in Seq([at : Nat, kind : Kinds, old : Nat, new : Nat])
    /\ \A i \in DOMAIN stmts : IF IsPut(stmts[i]) THEN stmts[i].put \in Row
                               ELSE stmts[i] \in [kind : Kinds, old : Nat, new : Nat]
    /\ lost \subseteq Faults

Init ==
    /\ today \in Days
    /\ row = [firstSeen |-> None, deadline |-> None, posted |-> None, lastSeen |-> None,
              reposted |-> FALSE, checkedAt |-> None, closedAt |-> None,
              applicants |-> None, salary |-> None]
    /\ events = <<>> /\ stmts = <<>> /\ lost = {}

Idle == stmts = <<>> /\ Len(events) < MaxEvents

\* A deadline event, if both dates are known and differ.
DeadlineEvent(old, new) ==
    If(old # None /\ new # None /\ old # new,
       Event(IF new < old THEN "deadline_shortened" ELSE "deadline_extended", old, new))

-----------------------------------------------------------------------------
(* Upsert: the first fetch that finds the posting inserts it, a later one    *)
(* records what changed and refreshes the row.                               *)

Insert(l) ==
    /\ Idle /\ row.firstSeen = None
    /\ row' = [row EXCEPT !.firstSeen = today, !.lastSeen = today,
                          !.deadline = l.deadline, !.posted = l.posted]
    /\ UNCHANGED <<today, events, stmts, lost>>

Refreshed(l) ==
    [row EXCEPT !.lastSeen = today, !.closedAt = None,
                !.deadline = IF l.deadline # None THEN l.deadline ELSE @,
                !.posted = IF l.posted > @ THEN l.posted ELSE @,
                !.reposted = @ \/ (l.posted > row.posted /\ row.posted # None)]

\* Mutant: the row is refreshed before the changes are recorded.
RefreshRowFirst(l) ==
    /\ Idle /\ row.firstSeen # None
    /\ stmts' = <<Put(Refreshed(l))>>
             \o DeadlineEvent(row.deadline, l.deadline)
             \o If(row.posted # None /\ l.posted > row.posted, Event("reposted", row.posted, l.posted))
             \o If(today > row.lastSeen + AbsentAfter, Event("reappeared", row.lastSeen, today))
             \o If(row.closedAt # None, Event("reopened", row.closedAt, None))
    /\ UNCHANGED <<today, row, events, lost>>

Refresh(l) ==
    /\ Idle /\ row.firstSeen # None
    /\ stmts' = DeadlineEvent(row.deadline, l.deadline)
             \o If(row.posted # None /\ l.posted > row.posted, Event("reposted", row.posted, l.posted))
             \o If(today > row.lastSeen + AbsentAfter, Event("reappeared", row.lastSeen, today))
             \o If(row.closedAt # None, Event("reopened", row.closedAt, None))
             \o <<Put(Refreshed(l))>>
    /\ UNCHANGED <<today, row, events, lost>>

-----------------------------------------------------------------------------
(* CheckPending: a live posting whose last check is three days old or more   *)
(* is read again.                                                            *)

MayCheck ==
    /\ Idle /\ row.firstSeen # None
    /\ row.closedAt = None
    /\ row.checkedAt = None \/ today >= row.checkedAt + CheckInterval

\* An unreachable page is not evidence of anything.
CheckFails(p) ==
    /\ p.answer = "error" /\ MayCheck
    /\ stmts' = <<Put([row EXCEPT !.checkedAt = today])>>
    /\ UNCHANGED <<today, row, events, lost>>

\* Mutant: closing the posting is not recorded.
CheckGoneSilently(p) ==
    /\ p.answer = "gone" /\ MayCheck
    /\ stmts' = <<Put([row EXCEPT !.checkedAt = today, !.closedAt = today])>>
    /\ UNCHANGED <<today, row, events, lost>>

CheckGone(p) ==
    /\ p.answer = "gone" /\ MayCheck
    /\ stmts' = <<Put([row EXCEPT !.checkedAt = today, !.closedAt = today]), Closing>>
    /\ UNCHANGED <<today, row, events, lost>>

\* A salary is raised when it is more than two percent higher.
SalaryKind(old, new) == IF new * 100 > old * 102 THEN "salary_up" ELSE "salary"

\* What the page says replaces what the row has; a page without it changes nothing.
Checked(p) ==
    LET again == row.posted # None /\ p.datePosted > row.posted
        Or(new, old) == IF new # None THEN new ELSE old
    IN [row EXCEPT !.checkedAt = today,
                   !.applicants = Or(p.applicants, @),
                   !.salary = Or(p.salary, @),
                   !.deadline = Or(p.validThru, @),
                   !.posted = IF again THEN p.datePosted ELSE @,
                   !.reposted = @ \/ again]

CheckReads(p) ==
    /\ p.answer = "ok" /\ MayCheck
    /\ stmts' = If(p.applicants # None /\ p.applicants # row.applicants,
                   Event("applicants", row.applicants, p.applicants))
             \o If(p.salary # None /\ row.salary # None /\ p.salary # row.salary,
                   Event(SalaryKind(row.salary, p.salary), row.salary, p.salary))
             \o DeadlineEvent(row.deadline, p.validThru)
             \o If(row.posted # None /\ p.datePosted > row.posted,
                   Event("reposted", row.posted, p.datePosted))
             \o <<Put(Checked(p))>>
    /\ UNCHANGED <<today, row, events, lost>>

-----------------------------------------------------------------------------
\* A record of the same change that is less than a day old: one of today, and
\* one of yesterday if that run was later in the day.
Recorded(s, days) ==
    \E i \in DOMAIN events :
        /\ events[i].at + days > today
        /\ s = Event(events[i].kind, events[i].old, events[i].new)

Record(s) ==
    events' = Append(events, [at |-> today, kind |-> s.kind, old |-> s.old, new |-> s.new])

\* A statement fails, and its error is ignored or only logged.
Fails(step, s) ==
    /\ Cardinality(lost) < MaxFaults
    /\ lost' = lost \cup {Fault(step, today, s)}

\* Mutant: nothing is looked up.
AddEventAlways(s) == Record(s) /\ UNCHANGED lost

\* AddEvent: the same change is recorded at most once a day.  A lookup that
\* fails counts no record, and an INSERT that fails writes none.
AddEvent(s) ==
    \/ /\ \E days \in {1, 2} : IF Recorded(s, days) THEN UNCHANGED events ELSE Record(s)
       /\ UNCHANGED lost
    \/ Record(s) /\ Fails("lookup", s)
    \/ UNCHANGED events /\ Fails("insert", s)

\* The UPDATE of the row.  When the one that closes it fails, the closing is
\* recorded all the same; every other one is the last statement.
Update(r) ==
    \/ row' = r /\ UNCHANGED lost
    \/ /\ UNCHANGED row
       /\ IF r.closedAt # None THEN Fails("update", Closing) ELSE UNCHANGED lost

\* The next statement of the operation under way.
Execute ==
    /\ stmts # <<>>
    /\ IF IsPut(Head(stmts)) THEN Update(Head(stmts).put) /\ UNCHANGED events
                             ELSE AddEvent(Head(stmts)) /\ UNCHANGED row
    /\ stmts' = Tail(stmts)
    /\ UNCHANGED today

\* The process dies, or the time of the run is over, between two statements.
\* A closing that is not recorded any more is lost like one that was refused.
Crash ==
    /\ stmts # <<>>
    /\ stmts' = <<>>
    /\ lost' = IF stmts = <<Closing>> THEN lost \cup {Fault("insert", today, Closing)} ELSE lost
    /\ UNCHANGED <<today, row, events>>

\* The next run is on the same day or later.
Tick(day) ==
    /\ stmts = <<>> /\ day >= today
    /\ today' = day
    /\ UNCHANGED <<row, events, stmts, lost>>

Next ==
    \/ \E l \in Listings : Insert(l) \/ Refresh(l)
    \/ \E p \in Pages : CheckFails(p) \/ CheckGone(p) \/ CheckReads(p)
    \/ Execute
    \/ Crash
    \/ \E day \in Days : Tick(day)

Spec == Init /\ [][Next]_vars

-----------------------------------------------------------------------------
(* Neither date of a posting changes behind the back of its history:         *)
(* whatever is fetched, checked, refused or cut off in between, the step     *)
(* that replaces a known date finds that very change among the events,       *)
(* unless the database refused to record it on that day.                     *)
Noted(s) ==
    \/ \E i \in DOMAIN events : s = Event(events[i].kind, events[i].old, events[i].new)
    \/ Fault("insert", today, s) \in lost

DeadlineExplained ==
    [][row.deadline # None /\ row'.deadline # row.deadline =>
          \E kind \in {"deadline_extended", "deadline_shortened"} :
              Noted(Event(kind, row.deadline, row'.deadline))]_vars

(* The posted date only moves forward, although the listing and the page     *)
(* report dates of their own, and every move of a known date is flagged as a *)
(* repost.                                                                   *)
RepostExplained ==
    [][row.posted # None /\ row'.posted # row.posted =>
          /\ row'.posted > row.posted
          /\ row'.reposted
          /\ Noted(Event("reposted", row.posted, row'.posted))]_vars

(* Both dates, as said above.                                                *)
HistoryExplains == DeadlineExplained /\ RepostExplained

(* A change is recorded at most once a day, also when a run that recorded it *)
(* was cut off, or not allowed to update the row, and the next run finds it  *)
(* again; only a lookup that failed lets it in twice.                        *)
OncePerDay ==
    \A i, j \in DOMAIN events :
        events[i] = events[j] /\ i # j => Fault("lookup", events[i].at, events[i]) \in lost

(* A recruiter is said to have re-opened a posting only if its page was      *)
(* found closed before: the closing is among the earlier events, of the day  *)
(* the posting was closed or the day before, unless the record of that very  *)
(* closing was refused or cut off.                                           *)
ReopenedWasClosed ==
    \A i \in DOMAIN events :
        events[i].kind = "reopened" =>
            \/ \E j \in 1..(i - 1) : events[j].kind = "closed" /\ events[j].at + 1 >= events[i].old
            \/ Fault("insert", events[i].old, Closing) \in lost
=============================================================================
