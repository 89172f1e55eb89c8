----------------------------- MODULE MCSyncBatch -----------------------------
(* Instances of SyncBatch: the second clone has a newer tool.              *)
EXTENDS SyncBatch

SecondIsNewer == [c \in Clone |-> IF c = 2 THEN 2 ELSE 1]
Newest == [c \in Clone |-> 2]

\* Refs in pairs; the issue and the registry meet envelopes of two versions.
Pairs ==
    {[refs |-> {"meta", r}, envelopes |-> Newest] : r \in {"users", "issue"}}
        \cup {[refs |-> {"users", "issue"}, envelopes |-> SecondIsNewer]}

FirstMakesTwo == [c \in Clone |-> IF c = 1 THEN 2 ELSE 1]

=============================================================================
