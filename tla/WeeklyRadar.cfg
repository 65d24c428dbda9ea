SPECIFICATION Spec
CONSTANTS
    Keys = {"grant", "prize"}
    Seeds <- MCSeeds
    Verified <- MCVerified
    Days = {0, 2, 4, 7, 11, 14, 18}
    MaxFunding = 2
    Emails = {"anna", "typo"}
    Malformed = {"typo"}
    Owner = "owner"
    Requests = {1, 2}
    MaxEdits = 3
    MaxVisits = 2
    MaxFaults = 2
    MaxEvents = 3
INVARIANTS
    TypeOK
    DeadlineAnnounced
    ChoiceKept
    AccessAsTold
    NoLoginLoop
CHECK_DEADLOCK FALSE
