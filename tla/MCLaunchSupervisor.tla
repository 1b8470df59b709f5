-------------------------- MODULE MCLaunchSupervisor --------------------------
(***************************************************************************)
(* Small instances of LaunchSupervisor for TLC.                            *)
(***************************************************************************)
EXTENDS LaunchSupervisor

Words == {"run", "--profile", "--", "--help", "name", "with/slash"}

\* Every command line of at most five words, one whose command has a
\* separator of its own, one with two profiles, and the short options.
MCArgvs ==
    UNION {[1..n -> Words] : n \in 0..5}
        \cup {<<"run", "--profile", "name", "--", "name", "--">>,
              <<"run", "--profile", "name", "--profile", "name", "--", "name">>,
              <<"-h">>, <<"-V">>, <<"--version">>}
=============================================================================
