---------------------------- MODULE MCWeeklyRadar ----------------------------
(* Two entries, and two releases: the second moves the deadline of the one,    *)
(* and drops the other, which keeps its row.                                 *)
EXTENDS WeeklyRadar

MCSeeds == << ("grant" :> [score |-> 50, deadline |-> 17]) @@ ("prize" :> [score |-> 30, deadline |-> 16]),
              "grant" :> [score |-> 50, deadline |-> 17] >>

MCVerified == << "prize" :> [score |-> 60, deadline |-> 14],
                 "grant" :> [score |-> 45, deadline |-> 16] >>
=============================================================================
