------------------------------ MODULE MCRefSync ------------------------------
(* Instances of RefSync: two clones, with one or two processes in the first. *)
EXTENDS RefSync, TLC

CONSTANTS c1, c2, p1, p2, p3

CloneOf2 == [p \in {p1, p2} |-> IF p = p1 THEN c1 ELSE c2]
CloneOf3 == [p \in {p1, p2, p3} |-> IF p \in {p1, p3} THEN c1 ELSE c2]

\* Two processes of one clone do the same things.
SameClone == Permutations({p1, p3})

=============================================================================
