-------------------------- MODULE MCPeerCollector --------------------------
(***************************************************************************)
(* Small instances of PeerCollector for TLC.  Three ancestors above the    *)
(* last pid, so that a walk can meet the depth limit; root's and a user's  *)
(* processes side by side, so that a reused pid may or may not bear the    *)
(* peer's uid; a set-user-id process, whose real and effective uids        *)
(* differ; a free pid.                                                     *)
(***************************************************************************)
EXTENDS PeerCollector

MCTables ==
    {[p \in Pids |-> CASE p = 1 -> Process(1, 0, 0, 0)
                      [] p = 2 -> Process(2, 0, 0, 1)
                      [] p = 3 -> Process(3, 1, 1, 2)
                      [] p = 4 -> Process(4, 1, e, 3)] : e \in {0, 1}}
    \cup {[p \in Pids |-> CASE p = 1 -> Process(1, 0, 0, 0)
                      [] p = 2 -> Process(2, 1, 1, 1)
                      [] p = 3 -> Gone
                      [] p = 4 -> Process(4, 1, 1, 2)]}
=============================================================================
