----------------------------- MODULE EventUnion -----------------------------
(***************************************************************************)
(* What replication promises, with git, refs, fetches and pushes left out: *)
(* every clone holds a set of events, a command records a new event in the *)
(* clone it runs in, and a clone may learn events that some clone already  *)
(* holds.  Nothing is ever forgotten and nothing appears from nowhere.     *)
(* RefSync implements it, whatever happens to the remote in between.       *)
(***************************************************************************)

CONSTANTS Replica,  \* the clones
          Event     \* every event that may ever be recorded

VARIABLE known      \* known[r]: the events replica r holds

Everything == UNION {known[r] : r \in Replica}

Init == known = [r \in Replica |-> {}]

Record(r) ==
    \E e \in Event \ Everything : known' = [known EXCEPT ![r] = @ \cup {e}]

Learn(r) ==
    \E E \in SUBSET Everything : known' = [known EXCEPT ![r] = @ \cup E]

Next == \E r \in Replica : Record(r) \/ Learn(r)

Spec == Init /\ [][Next]_known

=============================================================================
