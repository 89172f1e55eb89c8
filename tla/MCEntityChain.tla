---------------------------- MODULE MCEntityChain ----------------------------
(* Instances of EntityChain: writers and compactions racing in one clone.  *)
EXTENDS EntityChain

CONSTANTS w1, w2, f1

WriterSymmetry == Permutations({w1, w2})

=============================================================================
