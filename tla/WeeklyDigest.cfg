SPECIFICATION Spec
CONSTANTS
    Postings <- MCPostings
    Url <- MCUrl
    Org <- MCOrg
    Title <- MCTitle
    Score <- MCScore
    Source <- MCSource
    Alike <- MCAlike
    Blank = "none"
    Arriving = {1, 2, 3, 4}
    Trashable = {1}
    Recipients = {r1, r2}
    ReportMax = 1
    AlsoMax = 1
INVARIANTS
    NeverSilentlyDropped
    GroupsAreClosure
PROPERTIES
    ShownOnce
    TopPickMailed
