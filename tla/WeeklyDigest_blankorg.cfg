SPECIFICATION Spec
CONSTANTS
    Postings <- MCPostingsBlank
    Url <- MCUrlBlank
    Org <- MCOrgBlank
    Title <- MCTitleBlank
    Score <- MCScoreBlank
    Source <- MCSourceBlank
    Alike <- MCAlike
    Blank = "none"
    Arriving = {1, 2, 3, 4}
    Trashable = {1}
    Recipients = {r1, r2}
    ReportMax = 1
    AlsoMax = 1
PROPERTY ShownOnce
