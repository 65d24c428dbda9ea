SPECIFICATION Spec
CONSTANTS
    Reasons = {"role"}
    Requests = {r1, r2}
    MaxClicks = 3
    MaxFaults = 1
SYMMETRY Symmetry
INVARIANTS
    PageTellsRow
    LogTellsRow
PROPERTY ReasonNeverTrashes
