------------------------ MODULE BackgroundJobs_proofs ------------------------
(***************************************************************************)
(* Proofs about BackgroundJobs for every set of requests, every calendar    *)
(* and every number of restarts.                                            *)
(***************************************************************************)
EXTENDS BackgroundJobs, TLAPS

(* The state between two steps is well typed. *)
THEOREM TypeCorrect == Spec => []TypeOK
<1> USE BoundsAssumption DEF TypeOK, Runners, Phases, JobKinds
<1>1. Init => TypeOK
  BY DEF Init, NextDaily
<1>2. TypeOK /\ [Next]_vars => TypeOK'
  <2> SUFFICES ASSUME TypeOK, [Next]_vars PROVE TypeOK'
    OBVIOUS
  <2> USE DEF history
  <2>1. ASSUME NEW r \in Requests, NEW j \in JobKinds, Request(r, j) PROVE TypeOK'
    BY <2>1 DEF Request, Start, StartTaken
  <2>2. ASSUME NEW r \in Requests, BusyRedirect(r) PROVE TypeOK'
    BY <2>2 DEF BusyRedirect
  <2>3. ASSUME NEW r \in Requests, NextPhase(r) PROVE TypeOK'
    BY <2>3 DEF NextPhase, Switch, Finish, Following, Working
  <2>4. ASSUME NEW r \in Requests, Panic(r) PROVE TypeOK'
    BY <2>4 DEF Panic, Finish
  <2>5. CASE Wake
    <3>1. CASE Start(Scheduler, "fetch")
      BY <2>5, <3>1 DEF Wake, Start, StartTaken
    <3>2. CASE StartTaken(Scheduler, "idle")
      <4>1. /\ pc' = [pc EXCEPT ![Scheduler] = "idle"]
            /\ due' = NextDaily
            /\ missed' = missed \cup {day}
            /\ UNCHANGED <<kind, job, ticks, day, hour, restarts, turns, emailed>>
        BY <2>5, <3>2 DEF Wake, Start, StartTaken
      <4> QED
        BY <4>1 DEF NextDaily
    <3> QED
      BY <2>5, <3>1, <3>2 DEF Wake
  <2>6. CASE SchedulerPhase
    BY <2>6 DEF SchedulerPhase, Switch, Finish, Following
  <2>7. CASE Weekday
    <3>1. CASE Start(Scheduler, "email")
      BY <2>7, <3>1 DEF Weekday, Start, StartTaken
    <3>2. CASE StartTaken(Scheduler, "idle")
      <4>1. /\ pc' = [pc EXCEPT ![Scheduler] = "idle"]
            /\ due' = NextDaily
            /\ missed' \in {missed, missed \cup {day}}
            /\ UNCHANGED <<kind, job, ticks, day, hour, restarts, turns, emailed>>
        BY <2>7, <3>2 DEF Weekday, Start, StartTaken
      <4> QED
        BY <4>1 DEF NextDaily
    <3>3. CASE ~Monday(day)
      <4>1. /\ pc' = [pc EXCEPT ![Scheduler] = "idle"]
            /\ due' = NextDaily
            /\ UNCHANGED <<kind, job, ticks, day, hour, restarts, history>>
        BY <2>7, <3>3 DEF Weekday
      <4> QED
        BY <4>1 DEF NextDaily
    <3> QED
      BY <2>7, <3>1, <3>2, <3>3 DEF Weekday
  <2>8. CASE WeeklyEmailDone
    BY <2>8 DEF WeeklyEmailDone, Finish, NextDaily
  <2>9. CASE Tick
    BY <2>9 DEF Tick
  <2>10. CASE Restart
    BY <2>10 DEF Restart, NextDaily
  <2>11. CASE UNCHANGED vars
    BY <2>11 DEF vars
  <2> QED
    BY <2>1, <2>2, <2>3, <2>4, <2>5, <2>6, <2>7, <2>8, <2>9, <2>10, <2>11
       DEF Next, ManualNext, SchedulerNext
<1> QED
  BY <1>1, <1>2, PTL DEF Spec

-----------------------------------------------------------------------------
(* Who holds the slot: the conjunction that is inductive.  A refused request *)
(* and an idle scheduler do not work, so only Start makes a worker.          *)
SlotInv == TypeOK /\ SlotExclusive /\ LabelIsPhase

(* At most one runner works, and the label of the slot is its phase, for     *)
(* every number of requests.                                                 *)
LEMMA SlotInvariant == Spec => []SlotInv
<1> USE DEF Runners, Phases, JobKinds, Working
<1>1. Init => SlotExclusive /\ LabelIsPhase
  BY DEF Init, SlotExclusive, LabelIsPhase
<1>2. SlotInv /\ [Next]_vars => (SlotExclusive /\ LabelIsPhase)'
  <2> SUFFICES ASSUME SlotInv, [Next]_vars PROVE (SlotExclusive /\ LabelIsPhase)'
    OBVIOUS
  <2> USE DEF SlotInv, TypeOK, SlotExclusive, LabelIsPhase
  <2>1. ASSUME NEW r \in Requests, NEW j \in JobKinds, Request(r, j)
        PROVE (SlotExclusive /\ LabelIsPhase)'
    BY <2>1 DEF Request, Start, StartTaken
  <2>2. ASSUME NEW r \in Requests, BusyRedirect(r) PROVE (SlotExclusive /\ LabelIsPhase)'
    BY <2>2 DEF BusyRedirect
  <2>3. ASSUME NEW r \in Requests, NextPhase(r) PROVE (SlotExclusive /\ LabelIsPhase)'
    BY <2>3 DEF NextPhase, Switch, Finish, Following
  <2>4. ASSUME NEW r \in Requests, Panic(r) PROVE (SlotExclusive /\ LabelIsPhase)'
    BY <2>4 DEF Panic, Finish
  <2>5. CASE Wake
    BY <2>5 DEF Wake, Start, StartTaken
  <2>6. CASE SchedulerPhase
    BY <2>6 DEF SchedulerPhase, Switch, Finish, Following
  <2>7. CASE Weekday
    BY <2>7 DEF Weekday, Start, StartTaken
  <2>8. CASE WeeklyEmailDone
    BY <2>8 DEF WeeklyEmailDone, Finish
  <2>9. CASE Tick
    BY <2>9 DEF Tick
  <2>10. CASE Restart
    BY <2>10 DEF Restart
  <2>11. CASE UNCHANGED vars
    BY <2>11 DEF vars
  <2> QED
    BY <2>1, <2>2, <2>3, <2>4, <2>5, <2>6, <2>7, <2>8, <2>9, <2>10, <2>11
       DEF Next, ManualNext, SchedulerNext
<1> QED
  BY <1>1, <1>2, TypeCorrect, PTL DEF Spec, SlotInv

(* At most one background job runs at a time. *)
THEOREM OneJobRuns == Spec => []SlotExclusive
BY SlotInvariant, PTL DEF SlotInv

(* The status endpoint reports the phase that runs. *)
THEOREM StatusTellsThePhase == Spec => []LabelIsPhase
BY SlotInvariant, PTL DEF SlotInv

-----------------------------------------------------------------------------
(* The scheduler's calendar. *)
CalendarInv == TypeOK /\ SchedulerInv

(* SchedulerInv is inductive: the clock does not pass an 04:00 the scheduler *)
(* sleeps to, and a run ends on the day it began.                            *)
LEMMA CalendarInvariant == Spec => []CalendarInv
<1> USE BoundsAssumption, SchedulerAssumption DEF Runners, Phases, JobKinds, history
<1>1. Init => SchedulerInv
  BY DEF Init, SchedulerInv, NextDaily
<1>2. CalendarInv /\ [Next]_vars => SchedulerInv'
  <2> SUFFICES ASSUME CalendarInv, [Next]_vars PROVE SchedulerInv'
    OBVIOUS
  <2> USE DEF CalendarInv, TypeOK, SchedulerInv
  <2>0. ASSUME pc'[Scheduler] = pc[Scheduler], UNCHANGED <<day, hour, due, history>>
        PROVE SchedulerInv'
    BY <2>0
  <2>1. ASSUME NEW r \in Requests, NEW j \in JobKinds, Request(r, j) PROVE SchedulerInv'
    BY <2>0, <2>1 DEF Request, Start, StartTaken
  <2>2. ASSUME NEW r \in Requests, BusyRedirect(r) PROVE SchedulerInv'
    BY <2>0, <2>2 DEF BusyRedirect
  <2>3. ASSUME NEW r \in Requests, NextPhase(r) PROVE SchedulerInv'
    BY <2>0, <2>3 DEF NextPhase, Switch, Finish, Working
  <2>4. ASSUME NEW r \in Requests, Panic(r) PROVE SchedulerInv'
    BY <2>0, <2>4 DEF Panic, Finish
  <2>5. CASE Wake
    <3>1. CASE Start(Scheduler, "fetch")
      <4>1. /\ pc'[Scheduler] = "fetch"
            /\ turns' = turns \cup {due}
            /\ UNCHANGED <<day, hour, due, emailed, missed>>
        BY <2>5, <3>1 DEF Wake, Start, StartTaken
      <4> QED
        BY <2>5, <4>1 DEF Wake, Due
    <3>2. CASE StartTaken(Scheduler, "idle")
      <4>1. /\ pc'[Scheduler] = "idle"
            /\ due = day /\ hour = "morning" /\ due' = day + 1
            /\ missed' = missed \cup {day}
            /\ UNCHANGED <<day, hour, turns, emailed>>
            /\ pc[Scheduler] = "idle"
        BY <2>5, <3>2 DEF Wake, Start, StartTaken, NextDaily, Due
      <4>2. ASSUME NEW d \in 0..due', Monday(d), d < due' PROVE d \in emailed' \cup missed'
        <5>1. d = day \/ (d \in 0..due /\ d < due)
          BY <4>1, <4>2
        <5> QED
          BY <4>1, <4>2, <5>1
      <4>3. \A d \in turns \cup emailed : d < due'
        BY <4>1
      <4> QED
        BY <4>1, <4>2, <4>3
    <3> QED
      BY <2>5, <3>1, <3>2 DEF Wake
  <2>6. CASE SchedulerPhase
    BY <2>6 DEF SchedulerPhase, Switch, Finish, Following
  <2>7. CASE Weekday
    <3>0. due = day /\ hour = "morning" /\ pc[Scheduler] = "weekday"
      BY <2>7 DEF Weekday
    <3>1. CASE Start(Scheduler, "email")
      <4>1. /\ pc'[Scheduler] = "email"
            /\ emailed' = emailed \cup {day}
            /\ UNCHANGED <<day, hour, due, turns, missed>>
        BY <2>7, <3>1 DEF Weekday, Start, StartTaken
      <4> QED
        BY <3>0, <4>1
    <3>2. CASE Monday(day) /\ StartTaken(Scheduler, "idle")
      <4>1. /\ pc'[Scheduler] = "idle"
            /\ due' = day + 1
            /\ missed' = missed \cup {day}
            /\ UNCHANGED <<day, hour, turns, emailed>>
        BY <2>7, <3>0, <3>2 DEF Weekday, Start, StartTaken, NextDaily
      <4>2. ASSUME NEW d \in 0..due', Monday(d), d < due' PROVE d \in emailed' \cup missed'
        <5>1. d = day \/ (d \in 0..due /\ d < due)
          BY <3>0, <4>1, <4>2
        <5> QED
          BY <4>1, <4>2, <5>1
      <4>3. \A d \in turns \cup emailed : d < due'
        BY <3>0, <4>1
      <4> QED
        BY <3>0, <4>1, <4>2, <4>3
    <3>3. CASE ~Monday(day)
      <4>1. /\ pc'[Scheduler] = "idle"
            /\ due' = day + 1
            /\ UNCHANGED <<day, hour, history>>
        BY <2>7, <3>0, <3>3 DEF Weekday, NextDaily
      <4>2. ASSUME NEW d \in 0..due', Monday(d), d < due' PROVE d \in emailed \cup missed
        <5>1. d # day
          BY <3>3, <4>2
        <5>2. d \in 0..due /\ d < due
          BY <3>0, <4>1, <4>2, <5>1
        <5> QED
          BY <4>2, <5>2
      <4>3. \A d \in turns \cup emailed : d < due'
        BY <3>0, <4>1
      <4> QED
        BY <3>0, <4>1, <4>2, <4>3
    <3> QED
      BY <2>7, <3>1, <3>2, <3>3 DEF Weekday
  <2>8. CASE WeeklyEmailDone
    BY <2>8 DEF WeeklyEmailDone, Finish, NextDaily
  <2>9. CASE Tick
    BY <2>9 DEF Tick, Due
  <2>10. CASE Restart
    BY <2>10 DEF Restart, NextDaily
  <2>11. CASE UNCHANGED vars
    BY <2>0, <2>11 DEF vars
  <2> QED
    BY <2>1, <2>2, <2>3, <2>4, <2>5, <2>6, <2>7, <2>8, <2>9, <2>10, <2>11
       DEF Next, ManualNext, SchedulerNext
<1> QED
  BY <1>1, <1>2, TypeCorrect, PTL DEF Spec, CalendarInv

(* At most one scheduled fetch for each 04:00, for every calendar and any    *)
(* number of restarts.                                                       *)
THEOREM OneTurn == Spec => OneTurnPerDay
<1>1. CalendarInv /\ [Next]_vars =>
        [pc[Scheduler] = "idle" /\ pc'[Scheduler] = "fetch" => \A d \in turns : d < due]_vars
  BY DEF CalendarInv, SchedulerInv
<1> QED
  BY <1>1, CalendarInvariant, PTL DEF Spec, OneTurnPerDay

(* The owner gets at most one scheduled email on a Monday. *)
THEOREM OneEmail == Spec => OneEmailPerMonday
<1>1. CalendarInv /\ [Next]_vars =>
        [pc[Scheduler] = "weekday" /\ pc'[Scheduler] = "email" => day \notin emailed]_vars
  <2> SUFFICES ASSUME CalendarInv, pc[Scheduler] = "weekday" PROVE day \notin emailed
    OBVIOUS
  <2> QED
    BY DEF CalendarInv, TypeOK, SchedulerInv
<1> QED
  BY <1>1, CalendarInvariant, PTL DEF Spec, OneEmailPerMonday

(* A Monday without the weekly email is one on which a manual job held the   *)
(* slot or the process came up after 04:00.                                  *)
THEOREM SkippedWhenTaken == Spec => []SkippedOnlyWhenTaken
<1>1. CalendarInv => SkippedOnlyWhenTaken
  BY DEF CalendarInv, TypeOK, SchedulerInv, SkippedOnlyWhenTaken, MondayOver
<1> QED
  BY <1>1, CalendarInvariant, PTL

-----------------------------------------------------------------------------
(* The slot implements the abstract lock. *)

(* Who the holder is: the one worker, or nobody.                             *)
HolderFacts ==
    /\ \A r \in Runners : Working(r) => Holder = r
    /\ (\A r \in Runners : ~Working(r)) => Holder = Nobody

(* There is only one worker to choose. *)
LEMMA HolderIsWorker == SlotInv => HolderFacts
<1> SUFFICES ASSUME SlotInv PROVE HolderFacts
  OBVIOUS
<1>1. ASSUME NEW r \in Runners, Working(r) PROVE Holder = r
  <2> DEFINE W == CHOOSE s \in Runners : Working(s)
  <2>1. W \in Runners /\ Working(W)
    BY <1>1
  <2>2. W = r
    BY <1>1, <2>1 DEF SlotInv, SlotExclusive
  <2> QED
    BY <1>1, <2>2 DEF Holder
<1> QED
  BY <1>1 DEF HolderFacts, Holder

(* The holder moves only between nobody and one runner: a step starts a job  *)
(* from the free slot, ends the job of the holder, or keeps the holder.      *)
LEMMA HolderStep ==
  ASSUME SlotInv, HolderFacts, SlotInv', HolderFacts', [Next]_vars
  PROVE  [Slot!Next]_Holder
<1> USE DEF Runners
<1>1. ASSUME NEW r \in Runners, NEW j \in JobKinds, Start(r, j) PROVE Slot!Take(r)
  <2>1. Holder = Nobody
    BY <1>1 DEF Start, SlotInv, LabelIsPhase, HolderFacts
  <2>2. Working(r)'
    BY <1>1 DEF Start, SlotInv, TypeOK, Working, JobKinds, Phases
  <2> QED
    BY <2>1, <2>2 DEF HolderFacts, Slot!Take
<1>2. ASSUME NEW r \in Runners, NEW p, Working(r), Finish(r, p), p \notin Phases
      PROVE  Slot!Release(r)
  <2>1. \A s \in Runners : ~Working(s)'
    BY <1>2 DEF Finish, SlotInv, SlotExclusive, TypeOK, Working
  <2> QED
    BY <1>2, <2>1 DEF HolderFacts, Slot!Release
<1>3. ASSUME NEW r \in Runners, NEW p, Switch(r, p), Working(r), p \in Phases
      PROVE  Holder' = Holder
  <2>1. Working(r)'
    BY <1>3 DEF Switch, SlotInv, TypeOK, Working
  <2> QED
    BY <1>3, <2>1 DEF HolderFacts
<1>4. ASSUME NEW r \in Runners, ~Working(r), NEW p, p \notin Phases,
             pc' = [pc EXCEPT ![r] = p]
      PROVE  Holder' = Holder
  <2>1. \A s \in Runners : Working(s)' <=> Working(s)
    BY <1>4 DEF SlotInv, TypeOK, Working
  <2> QED
    BY <2>1 DEF HolderFacts
<1>5. ASSUME UNCHANGED pc PROVE Holder' = Holder
  BY <1>5 DEF Holder, Working
<1>6. ASSUME NEW r \in Requests, NEW j \in JobKinds, Request(r, j) PROVE [Slot!Next]_Holder
  <2>1. CASE Start(r, j)
    BY <1>1, <2>1 DEF Slot!Next
  <2>2. CASE StartTaken(r, "refused")
    BY <1>4, <1>6, <2>2 DEF Request, StartTaken, Working, Phases
  <2> QED
    BY <1>6, <2>1, <2>2 DEF Request
<1>7. ASSUME NEW r \in Requests, BusyRedirect(r) PROVE [Slot!Next]_Holder
  BY <1>4, <1>7 DEF BusyRedirect, Working, Phases
<1>8. ASSUME NEW r \in Requests, NextPhase(r) PROVE [Slot!Next]_Holder
  BY <1>2, <1>3, <1>8 DEF NextPhase, Following, Phases, Slot!Next
<1>9. ASSUME NEW r \in Requests, Panic(r) PROVE [Slot!Next]_Holder
  BY <1>2, <1>9 DEF Panic, Phases, Slot!Next
<1>10. CASE Wake
  BY <1>1, <1>4, <1>10 DEF Wake, StartTaken, JobKinds, Working, Phases, Slot!Next
<1>11. CASE SchedulerPhase
  <2>1. Working(Scheduler)
    BY <1>11 DEF SchedulerPhase, Working, Phases
  <2> QED
    BY <1>2, <1>3, <1>11, <2>1 DEF SchedulerPhase, Following, Phases, Slot!Next
<1>12. CASE Weekday
  <2>1. ~Working(Scheduler)
    BY <1>12 DEF Weekday, Working, Phases
  <2> QED
    BY <1>1, <1>4, <1>12, <2>1 DEF Weekday, StartTaken, JobKinds, Phases, Slot!Next
<1>13. CASE WeeklyEmailDone
  BY <1>2, <1>13 DEF WeeklyEmailDone, Working, Phases, Slot!Next
<1>14. CASE Tick
  BY <1>5, <1>14 DEF Tick
<1>15. CASE Restart
  <2>1. Holder' = Nobody
    BY <1>15 DEF Restart, HolderFacts, Working, Phases
  <2>2. Holder = Nobody \/ (\E r \in Runners : Holder = r)
    BY DEF HolderFacts
  <2> QED
    BY <2>1, <2>2 DEF Slot!Next, Slot!Release
<1>16. CASE UNCHANGED vars
  BY <1>5, <1>16 DEF vars
<1> QED
  BY <1>6, <1>7, <1>8, <1>9, <1>10, <1>11, <1>12, <1>13, <1>14, <1>15, <1>16
     DEF Next, ManualNext, SchedulerNext

(* Requests, panics, scheduler and restarts together implement the safety    *)
(* part of the abstract lock: the slot is taken only when free and released  *)
(* only by its holder.                                                       *)
THEOREM ImplementsLock == Spec => Slot!Safety
<1>1. Init => Slot!Init
  BY DEF Init, Slot!Init, Holder, Working, Phases, Runners
<1>2. SlotInv => HolderFacts
  BY HolderIsWorker
<1>3. SlotInv /\ HolderFacts /\ SlotInv' /\ HolderFacts' /\ [Next]_vars => [Slot!Next]_Holder
  BY HolderStep
<1> QED
  BY <1>1, <1>2, <1>3, SlotInvariant, PTL DEF Spec, Slot!Safety

=============================================================================
