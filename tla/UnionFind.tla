------------------------------ MODULE UnionFind ------------------------------
(***************************************************************************)
(* The union-find of srv/jobs/dedupe.go.  A parent function p has every row  *)
(* point to itself or, through other rows, to the root of its group; find    *)
(* shortens the path it walks, union makes the lower of two roots the parent *)
(* of the other.                                                           *)
(***************************************************************************)
EXTENDS Naturals

newUF(n) == [i \in 1..n |-> i]

\* Parents come before their children, so that walking up comes to an end.
Ordered(p, n) == p \in [1..n -> 1..n] /\ \A i \in 1..n : p[i] <= i

\* Where find ends.
Root(p) ==
    LET root[i \in DOMAIN p] == IF p[i] = i THEN i ELSE root[p[i]]
    IN  root

\* Every other row of the walk is moved up to its grandparent.
Walked(p) ==
    LET walked[i \in DOMAIN p] == IF p[i] = i THEN {} ELSE {i} \cup walked[p[p[i]]]
    IN  walked

Halve(p, V) == [k \in DOMAIN p |-> IF k \in V THEN p[p[k]] ELSE p[k]]

find(p, i) == Halve(p, Walked(p)[i])

Link(p, ra, rb) ==
    IF ra = rb THEN p
    ELSE IF ra < rb THEN [p EXCEPT ![rb] = ra] ELSE [p EXCEPT ![ra] = rb]

\* Mutant: the rows are linked instead of their roots.
UnionOfRows(p, a, b) == Link(find(find(p, a), b), a, b)

union(p, a, b) == Link(find(find(p, a), b), Root(p)[a], Root(p)[b])
=============================================================================
