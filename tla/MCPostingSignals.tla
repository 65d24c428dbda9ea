------------------------- MODULE MCPostingSignals -------------------------
(***************************************************************************)
(* PostingSignals with two deadlines and two posted dates in the listing,  *)
(* and pages that are closed, unreachable, complete or bare.               *)
(***************************************************************************)
EXTENDS PostingTags

MCListings == {[deadline |-> 20, posted |-> 1], [deadline |-> 30, posted |-> 2],
               [deadline |-> None, posted |-> None]}

Page(answer, applicants, salary, validThru, datePosted) ==
    [answer |-> answer, applicants |-> applicants, salary |-> salary,
     validThru |-> validThru, datePosted |-> datePosted]

MCPages == {Page("error", None, None, None, None), Page("gone", None, None, None, None),
            Page("ok", 7, 50, None, None), Page("ok", None, 60, 30, 3)}
===========================================================================
