--------------------------- MODULE OneJobAtATime ---------------------------
(***************************************************************************)
(* What the activity slot of srv/jobs/status.go promises, as "Activity     *)
(* tracks the one background job (fetch / rank / email) that may run at a  *)
(* time": at most one runner works, a runner takes the slot only when it   *)
(* is free, the slot is never passed from one runner to another, and every *)
(* job gives the slot back.                                                *)
(***************************************************************************)
CONSTANTS Runners, Nobody

VARIABLE holder

TypeOK == holder \in Runners \cup {Nobody}

Init == holder = Nobody

Take(r) == holder = Nobody /\ holder' = r

Release(r) == holder = r /\ holder' = Nobody

Next == \E r \in Runners : Take(r) \/ Release(r)

\* A job may take long but ends; nothing says that anyone asks for the slot.
Fairness == \A r \in Runners : WF_holder(Release(r))

\* The safety part alone, and with the promise that jobs end.
Safety == Init /\ [][Next]_holder
Spec == Safety /\ Fairness
=============================================================================
