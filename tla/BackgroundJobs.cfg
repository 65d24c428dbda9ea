SPECIFICATION Spec
CONSTANTS
    Requests = {r1, r2}
    Scheduler = Scheduler
    Nobody = Nobody
    WeekLength = 2
    MaxDay = 3
    MaxRestarts = 1
INVARIANTS
    SlotExclusive
    LabelIsPhase
    SkippedOnlyWhenTaken
PROPERTIES
    OneTurnPerDay
    OneEmailPerMonday
    ImplementsOneJobAtATime
    SchedulerReturns
