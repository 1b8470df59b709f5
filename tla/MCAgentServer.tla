---------------------------- MODULE MCAgentServer ----------------------------
(***************************************************************************)
(* Small instances of AgentServer for TLC.                                 *)
(***************************************************************************)
EXTENDS AgentServer
=============================================================================
