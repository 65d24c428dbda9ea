--------------------------- MODULE BackgroundJobs ---------------------------
(***************************************************************************)
(* The background jobs of the job radar: the activity slot                 *)
(* (srv/jobs/status.go), the goroutines the admin's fetch, rank and email  *)
(* buttons start (srv/jobs_handlers.go), the scheduler goroutine           *)
(* (srv/jobs/report.go) and the process that systemd restarts.             *)
(*                                                                         *)
(* Every method of Activity runs under its mutex, so each is one step.     *)
(* What a phase does to the database is the subject of other modules; here *)
(* it only takes time.  Time is the day and whether it is before or after   *)
(* 04:00 UTC.                                                              *)
(***************************************************************************)
EXTENDS Naturals

CONSTANTS
    Requests,    \* the HTTP requests for a manual job that may be in flight
    Scheduler,   \* the scheduler goroutine
    Nobody,      \* the holder of a free slot
    WeekLength,  \* days from one Monday to the next
    MaxDay,      \* bound: the last day of the clock
    MaxRestarts  \* bound: how often the process dies

ASSUME SchedulerAssumption == Scheduler \notin Requests
ASSUME NobodyAssumption == Nobody \notin Requests \cup {Scheduler}
ASSUME BoundsAssumption ==
    /\ WeekLength \in Nat \ {0}
    /\ MaxDay \in Nat
    /\ MaxRestarts \in Nat

VARIABLES
    kind,      \* Activity.kind; "free" stands for the empty string
    pc,        \* where each request and the scheduler is
    job,       \* the kind of job each runner was started for
    day,       \* the calendar day
    hour,      \* "night" until 04:00, "morning" from then on
    due,       \* the day whose 04:00 the scheduler sleeps to
    ticks,     \* how often time went on during the running job
    restarts,
    turns,     \* history: the days for which a scheduled fetch began
    emailed,   \* history: the days on which a scheduled email began
    missed     \* history: the days the scheduler found the slot taken, or on
               \* which the process (re)started after 04:00

history == <<turns, emailed, missed>>
vars == <<kind, pc, job, day, hour, due, ticks, restarts, turns, emailed, missed>>

Runners == Requests \cup {Scheduler}
JobKinds == {"fetch", "rank", "email"}
Phases == {"fetch", "rank", "brief", "check", "email"}

\* The phase that follows phase p of a job of kind j: a fetch ranks, briefs and
\* checks, a rank briefs.
Following(j, p) ==
    CASE p = "fetch" -> "rank"
      [] p = "rank" -> "brief"
      [] p = "brief" /\ j = "fetch" -> "check"
      [] OTHER -> "end"

Working(r) == pc[r] \in Phases

Monday(d) == d % WeekLength = 0

\* Mutants: the 04:00 of today even if it has passed; always tomorrow's.
NextDailyToday == day
NextDailyTomorrow == day + 1

\* The next 04:00 strictly after now.
NextDaily == IF hour = "night" THEN day ELSE day + 1

\* The 04:00 the scheduler sleeps to has come.
Due == due < day \/ (due = day /\ hour = "morning")

TypeOK ==
    /\ kind \in Phases \cup {"free"}
    /\ pc \in [Runners -> Phases \cup {"idle", "refused", "weekday"}]
    /\ job \in [Runners -> JobKinds]
    /\ day \in Nat
    /\ hour \in {"night", "morning"}
    /\ due \in Nat
    /\ ticks \in {0, 1}
    /\ restarts \in 0..MaxRestarts
    /\ turns \in SUBSET Nat
    /\ emailed \in SUBSET Nat
    /\ missed \in SUBSET Nat

Init ==
    /\ kind = "free"
    /\ pc = [r \in Runners |-> "idle"]
    /\ job = [r \in Runners |-> "fetch"]
    /\ day = 0
    /\ hour \in {"night", "morning"}
    /\ due = NextDaily
    /\ ticks = 0
    /\ restarts = 0
    /\ turns = {}
    /\ emailed = {}
    /\ missed = IF hour = "morning" THEN {0} ELSE {}

-----------------------------------------------------------------------------
(* The slot: the three methods of Activity that change it. *)

\* Mutant: the slot is taken without looking.
StartUnguarded(r, j) ==
    /\ kind' = j
    /\ pc' = [pc EXCEPT ![r] = j]
    /\ job' = [job EXCEPT ![r] = j]
    /\ ticks' = 0

Start(r, j) ==
    /\ kind = "free"
    /\ kind' = j
    /\ pc' = [pc EXCEPT ![r] = j]
    /\ job' = [job EXCEPT ![r] = j]
    /\ ticks' = 0

StartTaken(r, next) ==
    /\ kind # "free"
    /\ pc' = [pc EXCEPT ![r] = next]
    /\ UNCHANGED <<kind, job, ticks>>

Switch(r, next) ==
    /\ kind' = IF kind # "free" THEN next ELSE kind
    /\ pc' = [pc EXCEPT ![r] = next]
    /\ UNCHANGED <<job, ticks>>

Finish(r, next) ==
    /\ kind' = "free"
    /\ pc' = [pc EXCEPT ![r] = next]
    /\ UNCHANGED <<job, ticks>>

-----------------------------------------------------------------------------
(* startBackground: the handler takes the slot and leaves a goroutine behind, *)
(* or is refused and reads the slot a second time for the "busy" redirect.   *)

Request(r, j) ==
    /\ pc[r] = "idle"
    /\ Start(r, j) \/ StartTaken(r, "refused")
    /\ UNCHANGED <<day, hour, due, restarts, history>>

BusyRedirect(r) ==
    /\ pc[r] = "refused"
    /\ pc' = [pc EXCEPT ![r] = "idle"]
    /\ UNCHANGED <<kind, job, day, hour, due, ticks, restarts, history>>

\* Mutant: the slot is given back before the last phase.
NextPhaseEarlyFinish(r) ==
    /\ Working(r)
    /\ LET next == Following(job[r], pc[r]) IN
         \/ next \notin {"end", "check"} /\ Switch(r, next)
         \/ next = "check" /\ Finish(r, "check")
         \/ next = "end" /\ Finish(r, "idle")
    /\ UNCHANGED <<day, hour, due, restarts, history>>

\* The goroutine goes on to its next phase, or ends.
NextPhase(r) ==
    /\ Working(r)
    /\ LET next == Following(job[r], pc[r]) IN
         \/ next # "end" /\ Switch(r, next)
         \/ next = "end" /\ Finish(r, "idle")
    /\ UNCHANGED <<day, hour, due, restarts, history>>

\* Mutant: the panic is recovered but the slot is not released.
PanicKeepsSlot(r) ==
    /\ Working(r)
    /\ pc' = [pc EXCEPT ![r] = "idle"]
    /\ UNCHANGED <<kind, job, ticks, day, hour, due, restarts, history>>

\* A panic in the goroutine is recovered by the deferred function, which
\* releases the slot: "fetch crashed".
Panic(r) ==
    /\ Working(r)
    /\ Finish(r, "idle")
    /\ UNCHANGED <<day, hour, due, restarts, history>>

-----------------------------------------------------------------------------
(* The scheduler goroutine. *)

Wake ==
    /\ pc[Scheduler] = "idle"
    /\ Due
    /\ \/ /\ Start(Scheduler, "fetch")
          /\ turns' = turns \cup {due}
          /\ UNCHANGED <<due, missed>>
       \/ /\ StartTaken(Scheduler, "idle")
          /\ due' = NextDaily
          /\ missed' = missed \cup {day}
          /\ UNCHANGED turns
    /\ UNCHANGED <<day, hour, restarts, emailed>>

\* The four phases of the daily run, and Finish after the last of them.
SchedulerPhase ==
    /\ pc[Scheduler] \in {"fetch", "rank", "brief", "check"}
    /\ LET next == Following("fetch", pc[Scheduler]) IN
         \/ next # "end" /\ Switch(Scheduler, next)
         \/ next = "end" /\ Finish(Scheduler, "weekday")
    /\ UNCHANGED <<day, hour, due, restarts, history>>

\* Mutant: the weekly email insists until it gets the slot.
WeekdayInsisting ==
    /\ pc[Scheduler] = "weekday"
    /\ \/ Start(Scheduler, "email") /\ emailed' = emailed \cup {day}
       \/ StartTaken(Scheduler, "weekday") /\ UNCHANGED emailed
    /\ UNCHANGED <<day, hour, due, restarts, turns, missed>>

\* The slot is free between Finish and the Start of the weekly email.
Weekday ==
    /\ pc[Scheduler] = "weekday"
    /\ \/ /\ Monday(day)
          /\ Start(Scheduler, "email")
          /\ emailed' = emailed \cup {day}
          /\ UNCHANGED <<due, missed>>
       \/ /\ Monday(day)
          /\ StartTaken(Scheduler, "idle")
          /\ due' = NextDaily
          /\ missed' = missed \cup {day}
          /\ UNCHANGED emailed
       \/ /\ ~Monday(day)
          /\ pc' = [pc EXCEPT ![Scheduler] = "idle"]
          /\ due' = NextDaily
          /\ UNCHANGED <<kind, job, ticks, emailed, missed>>
    /\ UNCHANGED <<day, hour, restarts, turns>>

WeeklyEmailDone ==
    /\ pc[Scheduler] = "email"
    /\ Finish(Scheduler, "idle")
    /\ due' = NextDaily
    /\ UNCHANGED <<day, hour, restarts, history>>

-----------------------------------------------------------------------------
(* The environment: time, and the death of the process.                     *)
(*                                                                         *)
(* A manual job has a deadline of at most 20 minutes, so at most one tick   *)
(* falls into it.  The scheduled run, from 04:00 on, is over by midnight.   *)
(* An idle scheduler whose time has come runs before the clock goes on.     *)
Tick ==
    /\ pc[Scheduler] = "idle" /\ ~Due
    /\ (\E r \in Requests : Working(r)) => ticks = 0
    /\ \/ hour = "night" /\ hour' = "morning" /\ UNCHANGED day
       \/ hour = "morning" /\ hour' = "night" /\ day < MaxDay /\ day' = day + 1
    /\ ticks' = IF kind = "free" THEN 0 ELSE 1
    /\ UNCHANGED <<kind, pc, job, due, restarts, history>>

\* Mutant: a process that starts late in the day catches up on its 04:00.
RestartCatchingUp ==
    /\ restarts < MaxRestarts
    /\ restarts' = restarts + 1
    /\ kind' = "free"
    /\ pc' = [r \in Runners |-> "idle"]
    /\ job' = [r \in Runners |-> "fetch"]
    /\ due' = day
    /\ ticks' = 0
    /\ UNCHANGED <<day, hour, turns, emailed, missed>>

\* A panic of the scheduler is recovered nowhere; it, a kill or a deployment
\* ends the process, and systemd starts a new one.  The slot is process memory.
Restart ==
    /\ restarts < MaxRestarts
    /\ restarts' = restarts + 1
    /\ kind' = "free"
    /\ pc' = [r \in Runners |-> "idle"]
    /\ job' = [r \in Runners |-> "fetch"]
    /\ due' = NextDaily
    /\ ticks' = 0
    /\ missed' = IF hour = "morning" THEN missed \cup {day} ELSE missed
    /\ UNCHANGED <<day, hour, turns, emailed>>

ManualNext == \E r \in Requests :
    \/ \E j \in JobKinds : Request(r, j)
    \/ BusyRedirect(r)
    \/ NextPhase(r)
    \/ Panic(r)

SchedulerNext == Wake \/ SchedulerPhase \/ Weekday \/ WeeklyEmailDone

Next == ManualNext \/ SchedulerNext \/ Tick \/ Restart

(* Every phase ends: it is a loop over finitely many items, and each call in *)
(* it has a timeout.  Nobody has to press a button, no panic has to happen   *)
(* and the clock may stand still.                                            *)
Fairness ==
    /\ \A r \in Requests : WF_vars(NextPhase(r)) /\ WF_vars(BusyRedirect(r))
    /\ WF_vars(SchedulerNext)

Spec == Init /\ [][Next]_vars /\ Fairness

-----------------------------------------------------------------------------
(* At most one runner works at a time, whoever started it: Start refuses    *)
(* while a job runs, and neither Switch nor Finish nor the deferred recovery *)
(* of a panic ever frees a slot that has passed to another job.              *)
SlotExclusive ==
    \A r, s \in Runners : Working(r) /\ Working(s) => r = s

(* What the status endpoint shows is what runs: the slot is free exactly    *)
(* when nobody works, and its label is the phase the one worker is in        *)
(* (Switch relabels "without releasing the slot").                           *)
LabelIsPhase ==
    /\ (kind = "free") <=> (\A r \in Runners : ~Working(r))
    /\ \A r \in Runners : Working(r) => kind = pc[r]

(* The promise of the slot as an abstract lock: the scheduler, the requests, *)
(* panics and restarts together implement OneJobAtATime.                     *)
Holder ==
    IF \E r \in Runners : Working(r)
    THEN CHOOSE r \in Runners : Working(r)
    ELSE Nobody

Slot == INSTANCE OneJobAtATime WITH holder <- Holder

ImplementsOneJobAtATime == Slot!Spec

(* The scheduler runs at most one fetch for each 04:00, whatever the manual  *)
(* jobs do and however often the process restarts: the time it computes next *)
(* is always strictly later than the one it last acted on.                   *)
OneTurnPerDay ==
    [][pc[Scheduler] = "idle" /\ pc'[Scheduler] = "fetch" => \A d \in turns : d < due]_vars

(* The owner gets at most one scheduled email a day even across restarts:    *)
(* a day on which it has begun is never begun again.                         *)
OneEmailPerMonday ==
    [][pc[Scheduler] = "weekday" /\ pc'[Scheduler] = "email" => day \notin emailed]_vars

(* A Monday passes without the weekly email only if the scheduler found the  *)
(* slot taken by a manual job that day, or the process (re)started after     *)
(* 04:00 that day.                                                           *)
MondayOver(d) == d < day /\ Monday(d)
SkippedOnlyWhenTaken ==
    \A d \in 0..day : MondayOver(d) => d \in emailed \cup missed

(* Where the scheduler stands in its calendar, as an inductive invariant:   *)
(* every 04:00 before the one it acts on or sleeps to is dealt with, for     *)
(* good, and a run under way is the run of today.                            *)
SchedulerInv ==
    /\ pc[Scheduler] \in {"idle", "fetch", "rank", "brief", "check", "weekday", "email"}
    /\ IF pc[Scheduler] = "idle"
       THEN due = day \/ (due = day + 1 /\ hour = "morning")
       ELSE due = day /\ hour = "morning"
    /\ \A d \in turns : d < due \/ (d = due /\ pc[Scheduler] # "idle")
    /\ \A d \in emailed : d < due \/ (d = due /\ pc[Scheduler] = "email")
    /\ pc[Scheduler] = "email" => due \in emailed
    /\ \A d \in 0..due : Monday(d) /\ d < due => d \in emailed \cup missed

(* The scheduler always gets back to waiting for its next 04:00: no manual   *)
(* job can hang it.                                                          *)
SchedulerReturns == []<>(pc[Scheduler] = "idle")
=============================================================================
