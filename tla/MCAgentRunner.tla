---------------------------- MODULE MCAgentRunner ----------------------------
(***************************************************************************)
(* Small instances of AgentRunner.  Permission prompts are interchangeable.*)
(***************************************************************************)
EXTENDS AgentRunner, TLC

PromptSymmetry == Permutations(Prompts)
================================================================================
