----------------------------- MODULE ProcessSweep ------------------------------
(***************************************************************************)
(* The process groups an agent's tool calls leave behind, and which of     *)
(* them are signalled when it stops (src/src/agent/process.rs: Sweep,      *)
(* owns, sweep_targets, stop_targets, refresh_sweep, ChildHandle::stop;    *)
(* src/src/agent/supervisor.rs: refresh_sweep, tear_down_groups).          *)
(*                                                                         *)
(* Ids of processes and groups are reused.  A group is recorded while its  *)
(* leader is seen under the CLI, and its id signalled minutes later, when  *)
(* nothing in the process table says any more whose it is: what the server *)
(* goes by is when the processes that are in it now were started.          *)
(***************************************************************************)
EXTENDS Integers, FiniteSets

CONSTANTS
  Cli,         \* the id of the agent's child, the root of its tree
  Shell,       \* a process that is not the agent's, and stays
  Pids,        \* ids of processes that come and go
  ClockSlack,  \* CLOCK_SLACK_MS
  ProofSlack,  \* PROOF_SLACK_MS
  MaxGroups,   \* MAX_GROUPS
  Lag,         \* how much later than it was true a table is stamped
  Coarse,      \* what ps rounds off a process's age
  PidWrap,     \* how long until ids come round and one is given out again
  MaxChanges,  \* bound: processes started, or moved to another group
  MaxTime      \* bound: the last instant

Ids == Pids \union {Cli, Shell}

(* What the ownership test rests on: tables are read faster than the slack *)
(* of the proof window, and ids do not come round within a few seconds.    *)
ASSUME ProcessSweepAssumption ==
  /\ Ids \subseteq Nat \ {0, 1} /\ Cli # Shell /\ {Cli, Shell} \intersect Pids = {}
  /\ ClockSlack \in Nat /\ ProofSlack \in Nat /\ Lag \in Nat /\ Coarse \in Nat
  /\ PidWrap \in Nat /\ MaxGroups \in Nat /\ MaxChanges \in Nat /\ MaxTime \in Nat
  /\ Lag < ProofSlack /\ ClockSlack + Lag + Coarse < PidWrap

VARIABLES
  now,        \* the clock
  changes,    \* processes started or moved so far
  proc,       \* the kernel's processes, by id
  exited,     \* the child was reaped, so the runner knows that it exited
  sweep,      \* the groups recorded, by id
  teardown,   \* how far the runner's teardown is, once the child is gone;
              \* "blind" is one that ended on a table it could not read
  mine,       \* history: the groups led by a process of the agent's
  wrong,      \* history: groups found to signal that were not of these
  joined,     \* history: groups that a process entered after its start
  misled      \* history: a tree was walked from an id that was the child's

world == <<now, changes, proc, mine, joined>>
vars == <<world, exited, sweep, teardown, wrong, misled>>

(* A process: its parent (1 once that is gone), its group, when it was     *)
(* started, and (history) whether it descends from the agent's child.      *)
Process == [alive : BOOLEAN, ppid : Ids \union {1}, pgid : Ids,
            born : Nat, ours : BOOLEAN]

(* GroupRecord.  The witness is the leader, so its pid is the group's id.  *)
None == [proven |-> -1]
Record == [witness_started : Nat, proven : Nat]
Sweeps == [Ids -> Record \union {None}]
Empty == [g \in Ids |-> None]

TypeOK ==
  /\ now \in Nat /\ changes \in Nat /\ proc \in [Ids -> Process] /\ exited \in BOOLEAN
  /\ sweep \in Sweeps
  /\ teardown \in {"no", "polling", "done", "blind"}
  /\ mine \subseteq Ids /\ wrong \subseteq Ids
  /\ joined \subseteq Ids /\ misled \in BOOLEAN

Init ==
  /\ now = PidWrap /\ changes = 0
  /\ proc = [p \in Ids |->
       [alive |-> p \notin Pids, ppid |-> 1, pgid |-> p,
        born |-> 0, ours |-> p = Cli]]
  /\ exited = FALSE /\ sweep = Empty /\ teardown = "no"
  /\ mine = {Cli} /\ wrong = {} /\ joined = {} /\ misled = FALSE

--------------------------------------------------------------------------------
(* The kernel's processes (external).                                      *)

Alive(p) == proc[p].alive
Group(g) == {p \in Ids : Alive(p) /\ proc[p].pgid = g}

Tick == now < MaxTime /\ now' = now + 1
  /\ UNCHANGED <<changes, proc, mine, joined, exited, sweep, teardown, wrong, misled>>

(* An id is given out when neither a process nor a group has it and ids    *)
(* have come round.  The new process is in its parent's group, or has      *)
(* entered one in its session, or leads a group of its own, before it      *)
(* shows in any table.                                                     *)
Fork(p, c) ==
  /\ Alive(p) /\ ~Alive(c) /\ Group(c) = {} /\ now >= proc[c].born + PidWrap
  /\ changes < MaxChanges /\ changes' = changes + 1
  /\ \E g \in {c, proc[p].pgid} \union {h \in Pids : Group(h) # {}} :
       /\ proc' = [proc EXCEPT ![c] = [alive |-> TRUE, ppid |-> p, pgid |-> g,
                                       born |-> now, ours |-> proc[p].ours]]
       /\ mine' = IF g # c THEN mine ELSE IF proc[p].ours THEN mine \union {c} ELSE mine \ {c}
  /\ UNCHANGED <<now, joined, exited, sweep, teardown, wrong, misled>>

(* setpgid, into a group that is there.                                    *)
Enters(p, g) ==
  /\ Alive(p) /\ Group(g) # {} /\ proc[p].pgid # g
  /\ changes < MaxChanges /\ changes' = changes + 1
  /\ proc' = [proc EXCEPT ![p].pgid = g] /\ joined' = joined \union {g}
  /\ UNCHANGED <<now, mine, exited, sweep, teardown, wrong, misled>>

(* Processes end: their children become init's, and a group is gone with   *)
(* its last process.  One that is still to be waited for counts as gone;   *)
(* that it still has its id could only keep others from it.                *)
Ended(ps) ==
  [q \in Ids |->
     IF q \in ps THEN [proc[q] EXCEPT !.alive = FALSE, !.ppid = 1, !.pgid = q, !.ours = FALSE]
     ELSE IF proc[q].ppid \in ps THEN [proc[q] EXCEPT !.ppid = 1] ELSE proc[q]]
End(ps) ==
  /\ proc' = Ended(ps)
  /\ mine' = {g \in mine : ~(Group(g) \subseteq ps)}
  /\ exited' = (exited \/ Cli \in ps)

Exits(p) ==
  /\ p # Shell /\ Alive(p) /\ End({p})
  /\ UNCHANGED <<now, changes, joined, sweep, teardown, wrong, misled>>

--------------------------------------------------------------------------------
(* A process table, as ps prints it: stamped a moment after it was true,   *)
(* ages rounded down, so that a process looks younger than it is.  When ps *)
(* cannot be run, or fails, the table is empty: a sweep then leaves what   *)
(* is known as it was and a stop finds no group, which change nothing      *)
(* here; what a teardown makes of it is TeardownUnread.                    *)

Rounding == [Ids -> 0..Coarse]
Started(p, lag, round) == proc[p].born + lag + round[p]

(* Mutant: the group's id is proof enough while a process leads it.        *)
OwnsByPid(r, g, lag, round) ==
  \/ Alive(g) /\ proc[g].pgid = g
  \/ \E p \in Ids : Alive(p) /\ proc[p].pgid = g /\ Started(p, lag, round) + ProofSlack <= r.proven

(* owns: the leader that was seen is alive, told by when it started; or a  *)
(* process that was running when the group was last proved to be ours.     *)
Owns(r, g, lag, round) ==
  \/ /\ Alive(g) /\ proc[g].pgid = g
     /\ LET late == Started(g, lag, round) - r.witness_started
        IN late <= ClockSlack /\ -late <= ClockSlack
  \/ \E p \in Ids : Alive(p) /\ proc[p].pgid = g /\ Started(p, lag, round) + ProofSlack <= r.proven

(* The processes under the child: the least set that has it and, with a    *)
(* process, its children.                                                  *)
Closed(S) == \A p \in Ids : Alive(p) /\ proc[p].ppid \in S => p \in S
Descendants == {p \in Ids : \A S \in SUBSET Ids : Cli \in S /\ Closed(S) => p \in S} \ {Cli}
RootGroup == IF Alive(Cli) THEN proc[Cli].pgid ELSE Cli

(* sweep_targets: the groups led by a process under the child.             *)
Targets == {g \in Descendants \ {RootGroup, Shell} : Alive(g) /\ proc[g].pgid = g}

Later(a, b) == IF a >= b THEN a ELSE b

(* merge: a group known keeps its witness.                                 *)
Merged(r, g, targets, lag, round) ==
  IF g \notin targets THEN r
  ELSE IF r = None
  THEN [witness_started |-> Started(g, lag, round), proven |-> now + lag]
  ELSE [r EXCEPT !.proven = Later(@, now + lag)]

(* Mutant: a group that has processes is the one that was recorded.        *)
ConfirmsAny(r, g, lag, round) ==
  IF r # None /\ Group(g) # {} THEN [r EXCEPT !.proven = Later(@, now + lag)] ELSE None

(* confirm and prune: what is proved again is proved as of this table, and *)
(* what cannot be is dropped.                                              *)
Confirmed(r, g, lag, round) ==
  IF r # None /\ Owns(r, g, lag, round) THEN [r EXCEPT !.proven = Later(@, now + lag)] ELSE None

(* Of more groups than are tracked, as many as are; which are dropped, the *)
(* ones recorded first, is left open.                                      *)
Cut(s, keep) == [g \in Ids |-> IF g \in keep THEN s[g] ELSE None]
Recorded(s) == {g \in Ids : s[g] # None}
Capped(s) ==
  {Cut(s, keep) : keep \in
     {k \in SUBSET Recorded(s) :
        \/ k = Recorded(s) /\ Cardinality(k) <= MaxGroups
        \/ k # Recorded(s) /\ Cardinality(k) = MaxGroups}}

(* refresh_sweep_with.                                                     *)
Cycled(s, targets, lag, round) ==
  [g \in Ids |-> Confirmed(Merged(s[g], g, targets, lag, round), g, lag, round)]
Refreshed(s, lag, round) == Capped(Cycled(s, Targets, lag, round))

(* groups_to_kill.                                                         *)
ToKill(s, lag, round) == {g \in Ids : s[g] # None /\ Owns(s[g], g, lag, round)}

(* stop_targets: what is known is folded into a fresh walk, so the witness *)
(* of a group that was walked to is the process that leads it now.         *)
StopTargets(lag, round) == Targets \union ToKill(sweep, lag, round)

--------------------------------------------------------------------------------
(* The runner's sweeps and its teardown.                                   *)

(* The id the runner knows its child by is another process's.              *)
Reused == exited /\ Alive(Cli)
Signals(S) == wrong' = wrong \union (S \ mine)

(* A sweep after a tool call, at its return or on other activity, some of  *)
(* them late: the last may run when the child has gone.  The teardown goes *)
(* by the one copy it takes, and nobody reads what is recorded after that. *)
Refresh ==
  /\ teardown = "no"
  /\ \E lag \in 0..Lag, round \in Rounding : sweep' \in Refreshed(sweep, lag, round)
  /\ misled' = (misled \/ Reused)
  /\ UNCHANGED <<world, exited, teardown, wrong>>

(* ChildHandle::stop: a fresh walk, folded into what is known.  What it    *)
(* finds is sent SIGTERM, as is the child.                                 *)
Stop ==
  /\ ~exited
  /\ \E lag \in 0..Lag, round \in Rounding : Signals(StopTargets(lag, round))
  /\ UNCHANGED <<world, exited, sweep, teardown, misled>>

(* tear_down_groups: once the child has exited, the groups that survive it *)
(* are sent SIGTERM.                                                       *)
TeardownFinds ==
  /\ exited /\ teardown = "no"
  /\ \E lag \in 0..Lag, round \in Rounding :
       LET found == ToKill(sweep, lag, round)
       IN Signals(found) /\ teardown' = IF found = {} THEN "done" ELSE "polling"
  /\ UNCHANGED <<world, exited, sweep, misled>>

(* A poll that finds none left.                                            *)
TeardownEnds ==
  /\ teardown = "polling" /\ teardown' = "done"
  /\ \E lag \in 0..Lag, round \in Rounding : ToKill(sweep, lag, round) = {}
  /\ UNCHANGED <<world, exited, sweep, wrong, misled>>

(* The first look, a poll or the last look is given no table, and takes    *)
(* that for none left.                                                     *)
TeardownUnread ==
  /\ exited /\ teardown \in {"no", "polling"} /\ Recorded(sweep) # {}
  /\ teardown' = "blind"
  /\ UNCHANGED <<world, exited, sweep, wrong, misled>>

(* Mutant: at the deadline it gives up.                                    *)
TeardownLeaves ==
  /\ teardown = "polling" /\ teardown' = "done"
  /\ UNCHANGED <<world, exited, sweep, wrong, misled>>

(* The grace is over: what is left is sent SIGKILL.                        *)
TeardownKills ==
  /\ teardown = "polling" /\ teardown' = "done"
  /\ \E lag \in 0..Lag, round \in Rounding :
       LET found == ToKill(sweep, lag, round)
       IN Signals(found) /\ End({p \in Ids : Alive(p) /\ proc[p].pgid \in found})
  /\ UNCHANGED <<now, changes, joined, sweep, misled>>

Kernel ==
  \/ Tick \/ (\E p, c \in Ids : Fork(p, c)) \/ (\E p, g \in Ids : Enters(p, g))
  \/ (\E p \in Ids : Exits(p))
Next ==
  \/ Kernel \/ Refresh \/ Stop
  \/ TeardownFinds \/ TeardownEnds \/ TeardownUnread \/ TeardownKills

Spec == Init /\ [][Next]_vars

--------------------------------------------------------------------------------
(* Properties.                                                             *)

(* Nothing is found to signal but what the agent's own processes started,  *)
(* however ids are reused and however late a table is.  It rests on two    *)
(* things the code does not see: that a process in a group was in it from  *)
(* its start, and that the child's id is not another's when its tree is    *)
(* walked.                                                                 *)
OnlyOurs == misled \/ wrong \subseteq joined

(* Every recorded group is the agent's as long as anything in it is older  *)
(* than the table that last proved it: the next test rests on this proof,  *)
(* and the one after on that.                                              *)
ProofsHold ==
  misled \/ \A g \in Ids \ joined :
    sweep[g] # None /\ g \notin mine =>
      \A p \in Group(g) : proc[p].born + Lag >= sweep[g].proven

(* When a teardown that could read the process table returns, nothing is   *)
(* left running that it could prove to be the agent's by what had been     *)
(* recorded when it took its copy, and nothing started since comes to look *)
(* like it; a group that another process has moved into may.               *)
NoneLeft ==
  teardown = "done" =>
    \E lag \in 0..Lag, round \in Rounding : ToKill(sweep, lag, round) \subseteq joined
================================================================================
