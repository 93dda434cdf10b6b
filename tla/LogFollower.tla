------------------------------ MODULE LogFollower ------------------------------
(***************************************************************************)
(* What the replay and the live stream promise together (DESIGN.md         *)
(* 1009-1021): whoever follows an agent's log comes to hold every row of   *)
(* it, once each and whatever the order, but for the rows it is excused    *)
(* from.  Nothing is held that was not written, and nothing is let go of.  *)
(***************************************************************************)
EXTENDS Naturals

CONSTANT MaxRows   \* bound: the rows of the log

VARIABLES
  head,      \* the rows written are 1..head
  got,       \* those the follower has
  excused    \* those it need not get

vars == <<head, got, excused>>

Init == head \in 0..MaxRows /\ got \subseteq 1..head /\ excused \subseteq 1..head

Next ==
  /\ head' \in {head, head + 1}
  /\ got \subseteq got' /\ excused \subseteq excused'
  /\ got' \union excused' \subseteq 1..head'

Settled(n) == n \in got \union excused
Keeps == \A n \in 1..MaxRows : n <= head ~> Settled(n)

Spec == Init /\ [][Next]_vars /\ Keeps
================================================================================
