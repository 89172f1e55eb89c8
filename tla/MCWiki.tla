------------------------------- MODULE MCWiki -------------------------------
(* Instances of Wiki: one or two terminals and two worktree directories.   *)
EXTENDS Wiki, TLC

CONSTANTS p1, p2, w1, w2

Symmetry == Permutations({p1, p2}) \cup Permutations({w1, w2})

=============================================================================
