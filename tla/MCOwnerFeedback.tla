--------------------------- MODULE MCOwnerFeedback ---------------------------
(***************************************************************************)
(* OwnerFeedback with one reason and requests that are interchangeable.     *)
(***************************************************************************)
EXTENDS OwnerFeedback, TLC

Symmetry == Permutations(Requests)
=============================================================================
