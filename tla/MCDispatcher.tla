----------------------------- MODULE MCDispatcher -----------------------------
(***************************************************************************)
(* Small instances of Dispatcher.  Tasks are interchangeable.              *)
(***************************************************************************)
EXTENDS Dispatcher, TLC

TaskSymmetry == Permutations(Tasks)
================================================================================
