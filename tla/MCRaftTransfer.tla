--------------------------- MODULE MCRaftTransfer ---------------------------
(* Small instances of RaftTransfer for TLC. *)
EXTENDS RaftTransfer, TLC

NodeSymmetry == Permutations(Node)

\* Where behaviours are cut off: no log has two client commands, two joint entries, or
\* both a command and a joint entry.
ShortLogs ==
  \A n \in Node : \A i, j \in DOMAIN log[n] :
    i < j /\ {log[n][i].data, log[n][j].data} \subseteq Command =>
      log[n][i].data = Joint /\ log[n][j].data = Final

=============================================================================
