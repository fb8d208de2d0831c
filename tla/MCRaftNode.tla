----------------------------- MODULE MCRaftNode -----------------------------
(* Small instances of RaftNode for TLC. *)
EXTENDS RaftNode, TLC

NodeSymmetry == Permutations(Node)

\* Bound: at most one node is in a vote or replication round at a time.
OneRound == Cardinality({n \in Node : phase[n] # "idle"}) <= 1

=============================================================================
