---------------------------- MODULE MCAgentRegistry ----------------------------
(***************************************************************************)
(* Small instances of AgentRegistry.  Handlers are interchangeable.        *)
(***************************************************************************)
EXTENDS AgentRegistry, TLC

CallerSymmetry == Permutations(Callers)
================================================================================
