SPECIFICATION Spec
CONSTANTS
    Listings <- MCListings
    Pages <- MCPages
    Days = {1, 2, 5, 16}
    MaxEvents = 3
    MaxFaults = 1
INVARIANTS
    OncePerDay
    ReopenedWasClosed
    ReopenedIsTold
PROPERTIES
    HistoryExplains
