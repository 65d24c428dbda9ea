----------------------------- MODULE FundingRadar -----------------------------
(***************************************************************************)
(* The radar of grants and prizes of srv/funding: a curated list in the      *)
(* code, corrected by a table of verified facts, is written into the table   *)
(* funding at every start and on request, one row after the other; the       *)
(* owner's status stays.  Deadlines of the next 14 days are urgent: they     *)
(* make the weekly mail go out although there may be no new posting.         *)
(*                                                                         *)
(* A day is a number, a multiple of 7 is a Monday; dates are days, and       *)
(* NoDate is the empty string.                                             *)
(***************************************************************************)
EXTENDS Naturals, Integers, Sequences, SequencesExt

CONSTANTS
    Keys,       \* of the entries
    Seeds,      \* of each release: the entries it has, as functions from keys
                \* to records of score and deadline
    Verified,   \* of each release: the overrides it has, the same way
    Days,       \* bound: the days on which something may happen, all Mondays
                \* up to the last of them included
    MaxFunding  \* bound: the owner's changes of a status, reseeds and restarts

NoDate == 0

ASSUME SeedsAssumption ==
    /\ 1 \in DOMAIN Seeds /\ DOMAIN Seeds = DOMAIN Verified
    /\ \A r \in DOMAIN Seeds :
        /\ DOMAIN Seeds[r] \subseteq Keys /\ DOMAIN Verified[r] \subseteq Keys
        /\ \A f \in {Seeds[r], Verified[r]} : \A k \in DOMAIN f : f[k] \in [score : 0..100, deadline : Nat]
ASSUME KeysAssumption == IsFiniteSet(Keys) /\ MaxFunding \in Nat
ASSUME DaysAssumption ==
    /\ Days \subseteq Nat /\ 0 \in Days
    /\ \A d \in Days : \A m \in 0..d : m % 7 = 0 => m \in Days

VARIABLES
    day,
    release,   \* the release that runs
    table,     \* the rows, from the keys that have one
    seeding,   \* the keys left of the Seed under way
    starting,  \* is it the one of the start, before anything is served?
    chosen,    \* history: the status the owner last gave
    since,     \* history: the day on which the row last became what it is
    changes

funding == <<day, release, table, seeding, starting, chosen, since, changes>>

\* Skip stands for rejected and won, too, which are nowhere told apart.
Statuses == {"open", "applied", "skip"}

-----------------------------------------------------------------------------
\* An override replaces the score and the deadline, which it may clear.
applyVerified(r, k) == IF k \in DOMAIN Verified[r] THEN Verified[r][k] ELSE Seeds[r][k]

\* The hours until midnight before the deadline, at some time of the day, rounded
\* towards zero to days, and one more.
DaysLeft(deadline, today) ==
    CASE deadline = NoDate -> -1
      [] deadline > today -> deadline - today
      [] OTHER -> deadline - today + 1

\* The entries a mail of this day lists, with ReportSection's 90 days and 40 points.
Upcoming ==
    {k \in DOMAIN table :
        /\ table[k].status \in {"open", "applied"}
        /\ table[k].deadline # NoDate
        /\ table[k].deadline >= day /\ table[k].deadline <= day + 90
        /\ table[k].score >= 40}

\* Mutant: only the last week is urgent.
UrgentLastWeek == \E k \in Upcoming : table[k].status = "open" /\ DaysLeft(table[k].deadline, day) <= 7

Urgent == \E k \in Upcoming : table[k].status = "open" /\ DaysLeft(table[k].deadline, day) <= 14

-----------------------------------------------------------------------------
FundingTypeOK ==
    /\ day \in Days
    /\ release \in DOMAIN Seeds
    /\ DOMAIN table \subseteq Keys
    /\ \A k \in DOMAIN table : table[k] \in [score : 0..100, deadline : Nat, status : Statuses]
    /\ seeding \in Seq(DOMAIN Seeds[release])
    /\ starting => seeding # <<>>
    /\ \A k \in DOMAIN chosen : k \in DOMAIN table /\ chosen[k] \in Statuses
    /\ DOMAIN since = DOMAIN table /\ \A k \in DOMAIN since : since[k] \in 0..day
    /\ changes \in 0..MaxFunding

\* The order of the list of a release.
SeedOrder(r) == SetToSeq(DOMAIN Seeds[r])

FundingInit ==
    /\ day = 0 /\ release = 1
    /\ table = <<>> /\ chosen = <<>> /\ since = <<>>
    /\ seeding = SeedOrder(1) /\ starting = (seeding # <<>>)
    /\ changes = 0

\* A table with a row written; (k :> x) @@ f, in terms that the prover knows.
Put(f, k, x) == [j \in DOMAIN f \cup {k} |-> IF j = k THEN x ELSE f[j]]

\* A row that is new or no longer the same.
Touched(k, row) ==
    /\ table' = Put(table, k, row)
    /\ since' = IF k \in DOMAIN table /\ table[k] = row THEN since ELSE Put(since, k, day)

\* Mutant: the row is replaced as a whole.
SeededAnew(k) ==
    LET e == applyVerified(release, k)
    IN  [score |-> e.score, deadline |-> e.deadline, status |-> "open"]

\* The curated columns are refreshed, the status is kept.
Seeded(k) ==
    LET e == applyVerified(release, k)
    IN  [score |-> e.score, deadline |-> e.deadline,
         status |-> IF k \in DOMAIN table THEN table[k].status ELSE "open"]

\* The next row of the Seed under way.
Seed ==
    /\ seeding # <<>>
    /\ Touched(Head(seeding), Seeded(Head(seeding)))
    /\ seeding' = Tail(seeding)
    /\ starting' = (starting /\ seeding' # <<>>)
    /\ UNCHANGED <<day, release, chosen, changes>>

\* An error ends it; the rows it has written stay.
SeedFails ==
    /\ seeding # <<>> /\ changes < MaxFunding
    /\ changes' = changes + 1
    /\ seeding' = <<>> /\ starting' = FALSE
    /\ UNCHANGED <<day, release, table, chosen, since>>

HandleAdminFundingReseed ==
    /\ seeding = <<>> /\ changes < MaxFunding
    /\ changes' = changes + 1
    /\ seeding' = SeedOrder(release)
    /\ UNCHANGED <<day, release, table, starting, chosen, since>>

SetStatus(k, status) ==
    /\ ~starting /\ k \in DOMAIN table /\ changes < MaxFunding
    /\ changes' = changes + 1
    /\ Touched(k, [table[k] EXCEPT !.status = status])
    /\ chosen' = Put(chosen, k, status)
    /\ UNCHANGED <<day, release, seeding, starting>>

\* The process dies, or the next release is deployed; either way it starts anew.
Restart(r) ==
    /\ r \in {release, release + 1} \cap DOMAIN Seeds
    /\ changes < MaxFunding /\ changes' = changes + 1
    /\ release' = r
    /\ seeding' = SeedOrder(r) /\ starting' = (seeding' # <<>>)
    /\ UNCHANGED <<day, table, chosen, since>>

\* The next of the days.
Tomorrow ==
    /\ day' \in Days /\ day' > day
    /\ \A d \in Days : d > day => d >= day'
    /\ UNCHANGED <<release, table, seeding, starting, chosen, since, changes>>

-----------------------------------------------------------------------------
(* Whatever the code says of an entry, and however often a start or a        *)
(* request writes it anew, also when it is cut off: the status the owner      *)
(* gave an entry is the status it has.                                       *)
ChoiceKept == \A k \in DOMAIN chosen : table[k].status = chosen[k]
=============================================================================
