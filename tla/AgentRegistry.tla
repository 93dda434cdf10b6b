----------------------------- MODULE AgentRegistry -----------------------------
(***************************************************************************)
(* The registry of live agents (src/src/agent/supervisor.rs, `Supervisor`),*)
(* as the requests made of one agent see it: launches, resumes, stops,     *)
(* mode changes, deletes and the shutdown, any number of them at once.     *)
(*                                                                         *)
(* Each request runs in a handler of its own and gives up its place at     *)
(* every await, so a handler is broken here at each read and write of what *)
(* the handlers share: the agent's row, the registry slot, the runner's    *)
(* channel.  What a runner does with its child is AgentRunner's subject.   *)
(***************************************************************************)
EXTENDS AgentStatus, Sequences

CONSTANTS
  Callers,      \* handlers, one request each
  Modes,        \* the permission modes the callers ask for
  MaxLaunches,  \* bound: how often the agent's slot is claimed
  MaxInbox,     \* bound: commands waiting for a runner
  MayAbandon    \* whether a client may go away, and its handler with it

ASSUME RegistryAssumption ==
  /\ Modes \subseteq Mode /\ Modes # {}
  /\ MaxLaunches \in Nat /\ MaxInbox \in Nat /\ MayAbandon \in BOOLEAN

VARIABLES
  \* the agent's row: its status, live or not, and its permission mode
  rowStatus, rowMode,
  \* the registry: the launch that holds the agent's slot, or NoLaunch, and
  \* the last generation handed out
  slot, generation,
  \* each launch: its stage, whether its child is alive and in what mode, and
  \* the commands its runner has not taken
  stage, child, childMode, inbox,
  \* each handler: where it is, the mode it read or was asked for, and the
  \* launch it made
  at, mode, mine

rowVars == <<rowStatus, rowMode>>
slotVars == <<slot, generation>>
launchVars == <<stage, child, childMode, inbox>>
callerVars == <<at, mode, mine>>
vars == <<rowVars, slotVars, launchVars, callerVars>>

NoLaunch == 0
Launches == 1..MaxLaunches
Stop == "stop"
Stage == {"unborn", "claimed", "starting", "running", "exited", "gone", "lost"}
Launching == {"inserted", "launching", "claimed", "starting", "failing"}
Place == {"idle", "done", "dropped", "resuming", "deleting", "awaiting", "removing",
          "mode_read", "mode_checked", "mode_written", "closing", "closed"} \union Launching

TypeOK ==
  /\ rowStatus \in {"unborn", "live", "terminal", "deleted"} /\ rowMode \in Modes
  /\ generation \in 0..MaxLaunches /\ slot \in 0..MaxLaunches
  /\ stage \in [Launches -> Stage] /\ child \in [Launches -> BOOLEAN]
  /\ childMode \in [Launches -> Modes] /\ inbox \in [Launches -> Seq(Modes \union {Stop})]
  /\ at \in [Callers -> Place] /\ mode \in [Callers -> Modes]
  /\ mine \in [Callers -> 0..MaxLaunches]

(* An agent to be spawned, or one that was stopped before.                 *)
Init ==
  /\ rowStatus \in {"unborn", "terminal"} /\ rowMode \in Modes
  /\ slot = NoLaunch /\ generation = 0
  /\ stage = [g \in Launches |-> "unborn"] /\ child = [g \in Launches |-> FALSE]
  /\ childMode = [g \in Launches |-> rowMode] /\ inbox = [g \in Launches |-> <<>>]
  /\ at = [c \in Callers |-> "idle"] /\ mode = [c \in Callers |-> rowMode]
  /\ mine = [c \in Callers |-> NoLaunch]

--------------------------------------------------------------------------------
(* Helpers.                                                                *)

RowExists == rowStatus \in {"live", "terminal"}

(* Handler c goes from one place to the next.                              *)
Goes(c, from, to) == at[c] = from /\ at' = [at EXCEPT ![c] = to]

(* An UPDATE of the row: of a row that is gone it changes nothing.         *)
RowBecomes(status) == rowStatus' = IF RowExists THEN status ELSE rowStatus

(* Supervisor::command: queued if the registry holds the agent and its     *)
(* runner's channel is open.                                               *)
Listening(g) == stage[g] \in {"claimed", "starting", "running", "exited"}
Send(cmd) ==
  IF slot # NoLaunch /\ Listening(slot)
  THEN /\ Len(inbox[slot]) < MaxInbox
       /\ inbox' = [inbox EXCEPT ![slot] = Append(@, cmd)]
  ELSE UNCHANGED inbox

(* Mutant: the slot is never given back.                                   *)
DeregisterNothing(g) == UNCHANGED slot

(* deregister: a launch gives up the slot only if it is still its own.     *)
Deregister(g) == slot' = IF slot = g THEN NoLaunch ELSE slot

--------------------------------------------------------------------------------
(* Spawn, resume, launch.                                                  *)

(* spawn_agent, as far as the row: `starting`, and listed from here on.    *)
SpawnInserts(c) ==
  /\ rowStatus = "unborn"
  /\ Goes(c, "idle", "inserted")
  /\ rowStatus' = "live"
  /\ \E m \in Modes : rowMode' = m /\ mode' = [mode EXCEPT ![c] = m]
  /\ UNCHANGED <<slotVars, launchVars, mine>>

(* resume: is_running, and then the row.                                   *)
ResumeChecks(c) ==
  /\ slot = NoLaunch
  /\ Goes(c, "idle", "resuming")
  /\ UNCHANGED <<rowVars, slotVars, launchVars, mode, mine>>

ResumeReads(c) ==
  /\ Goes(c, "resuming", IF RowExists THEN "launching" ELSE "done")
  /\ mode' = [mode EXCEPT ![c] = rowMode]
  /\ UNCHANGED <<rowVars, slotVars, launchVars, mine>>

(* launch refuses a folder that overlaps the portal's own, as spawn_agent  *)
(* has done before it made a row.                                          *)
LaunchRefused(c) ==
  /\ Goes(c, "launching", "done")
  /\ UNCHANGED <<rowVars, slotVars, launchVars, mode, mine>>

(* Mutant: the slot is taken without a look at who holds it.               *)
ClaimsAnyway(c) ==
  /\ at[c] \in {"inserted", "launching"} /\ generation < MaxLaunches
  /\ generation' = generation + 1 /\ slot' = generation'
  /\ stage' = [stage EXCEPT ![generation'] = "claimed"]
  /\ mine' = [mine EXCEPT ![c] = generation']
  /\ at' = [at EXCEPT ![c] = "claimed"]
  /\ UNCHANGED <<rowVars, child, childMode, inbox, mode>>

(* The slot is claimed, or it is not free and nothing else happens.        *)
Claims(c) ==
  /\ at[c] \in {"inserted", "launching"}
  /\ IF slot = NoLaunch
     THEN /\ generation < MaxLaunches
          /\ generation' = generation + 1 /\ slot' = generation'
          /\ stage' = [stage EXCEPT ![generation'] = "claimed"]
          /\ mine' = [mine EXCEPT ![c] = generation']
          /\ at' = [at EXCEPT ![c] = "claimed"]
     ELSE at' = [at EXCEPT ![c] = "done"] /\ UNCHANGED <<slotVars, stage, mine>>
  /\ UNCHANGED <<rowVars, child, childMode, inbox, mode>>

(* The child is started, with the flags of the row that was read.          *)
ChildStarts(c) ==
  /\ Goes(c, "claimed", "starting")
  /\ stage' = [stage EXCEPT ![mine[c]] = "starting"]
  /\ child' = [child EXCEPT ![mine[c]] = TRUE]
  /\ childMode' = [childMode EXCEPT ![mine[c]] = mode[c]]
  /\ UNCHANGED <<rowVars, slotVars, inbox, mode, mine>>

(* The row reads `starting`, and the runner's task is on its own.          *)
RunnerStarts(c) ==
  /\ Goes(c, "starting", "done")
  /\ RowBecomes("live")
  /\ stage' = [stage EXCEPT ![mine[c]] = "running"]
  /\ UNCHANGED <<rowMode, slotVars, child, childMode, inbox, mode, mine>>

(* The child cannot be started: the slot is given back, and then the row   *)
(* is marked failed.                                                       *)
SpawnFails(c) ==
  /\ Goes(c, "claimed", "failing")
  /\ Deregister(mine[c])
  /\ stage' = [stage EXCEPT ![mine[c]] = "gone"]
  /\ UNCHANGED <<rowVars, generation, child, childMode, inbox, mode, mine>>

(* Mutant: the failure is not recorded.                                    *)
MarksNothing(c) ==
  Goes(c, "failing", "done") /\ UNCHANGED <<rowVars, slotVars, launchVars, mode, mine>>

MarksFailed(c) ==
  /\ Goes(c, "failing", "done")
  /\ RowBecomes("terminal")
  /\ UNCHANGED <<rowMode, slotVars, launchVars, mode, mine>>

--------------------------------------------------------------------------------
(* Stop, delete, shutdown.                                                 *)

StopAsked(c) ==
  /\ RowExists
  /\ Goes(c, "idle", "done")
  /\ Send(Stop)
  /\ UNCHANGED <<rowVars, slotVars, stage, child, childMode, mode, mine>>

(* delete: the row, then is_running and stop, then the wait for the runner *)
(* to go, which ends at teardown_deadline if it does not.                  *)
DeleteReads(c) ==
  /\ RowExists
  /\ Goes(c, "idle", "deleting")
  /\ UNCHANGED <<rowVars, slotVars, launchVars, mode, mine>>

DeleteStops(c) ==
  /\ Goes(c, "deleting", IF slot = NoLaunch THEN "removing" ELSE "awaiting")
  /\ Send(Stop)
  /\ UNCHANGED <<rowVars, slotVars, stage, child, childMode, mode, mine>>

AwaitEnds(c) ==
  /\ slot = NoLaunch
  /\ Goes(c, "awaiting", "removing")
  /\ UNCHANGED <<rowVars, slotVars, launchVars, mode, mine>>

DeadlinePasses(c) ==
  /\ slot # NoLaunch
  /\ Goes(c, "awaiting", "removing")
  /\ UNCHANGED <<rowVars, slotVars, launchVars, mode, mine>>

(* The worktree is not safe to remove, or will not go.                     *)
DeleteRefused(c) ==
  /\ Goes(c, "removing", "done")
  /\ UNCHANGED <<rowVars, slotVars, launchVars, mode, mine>>

RowRemoved(c) ==
  /\ Goes(c, "removing", "done")
  /\ RowBecomes("deleted")
  /\ UNCHANGED <<rowMode, slotVars, launchVars, mode, mine>>

(* shutdown: the agents of that moment are stopped, and when the registry  *)
(* is empty or the deadline has passed every row is marked stopped.        *)
ShutdownStops(c) ==
  /\ Goes(c, "idle", "closing")
  /\ Send(Stop)
  /\ UNCHANGED <<rowVars, slotVars, stage, child, childMode, mode, mine>>

ShutdownMarks(c) ==
  /\ Goes(c, "closing", "closed")
  /\ RowBecomes("terminal")
  /\ UNCHANGED <<rowMode, slotVars, launchVars, mode, mine>>

--------------------------------------------------------------------------------
(* set_permission_mode.                                                    *)

(* The row is read: a change that relaxes it is refused, unless the        *)
(* operator has confirmed it.                                              *)
ModeRead(c) ==
  /\ RowExists
  /\ \E m \in Modes \ {rowMode}, confirmed \in BOOLEAN :
       /\ Goes(c, "idle", IF Relaxes(m, rowMode) /\ ~confirmed THEN "done" ELSE "mode_read")
       /\ mode' = [mode EXCEPT ![c] = m]
  /\ UNCHANGED <<rowVars, slotVars, launchVars, mine>>

(* A mode that is a launch flag is refused while the agent runs.           *)
ModeChecked(c) ==
  /\ Goes(c, "mode_read",
          IF slot # NoLaunch /\ ~HasControlValue(mode[c]) THEN "done" ELSE "mode_checked")
  /\ UNCHANGED <<rowVars, slotVars, launchVars, mode, mine>>

ModeWritten(c) ==
  /\ Goes(c, "mode_checked", "mode_written")
  /\ rowMode' = IF RowExists THEN mode[c] ELSE rowMode
  /\ UNCHANGED <<rowStatus, slotVars, launchVars, mode, mine>>

(* A running agent is switched live; a stopped one picks it up on resume.  *)
ModeSent(c) ==
  /\ Goes(c, "mode_written", "done")
  /\ Send(mode[c])
  /\ UNCHANGED <<rowVars, slotVars, stage, child, childMode, mode, mine>>

--------------------------------------------------------------------------------
(* A runner and its child.                                                 *)

(* The runner takes a command.  A mode without a control request changes   *)
(* nothing; a stop is the child's end, which ChildDies leaves to happen.   *)
RunnerTakes(g) ==
  /\ stage[g] = "running" /\ inbox[g] # <<>>
  /\ inbox' = [inbox EXCEPT ![g] = Tail(@)]
  /\ childMode' = IF Head(inbox[g]) # Stop /\ HasControlValue(Head(inbox[g]))
                  THEN [childMode EXCEPT ![g] = Head(inbox[g])] ELSE childMode
  /\ UNCHANGED <<rowVars, slotVars, stage, child, callerVars>>

ChildDies(g) ==
  /\ child[g]
  /\ child' = [child EXCEPT ![g] = FALSE]
  /\ UNCHANGED <<rowVars, slotVars, stage, childMode, inbox, callerVars>>

(* on_exit: the row says how it ended.                                     *)
RunnerExits(g) ==
  /\ stage[g] = "running" /\ ~child[g]
  /\ stage' = [stage EXCEPT ![g] = "exited"]
  /\ RowBecomes("terminal")
  /\ UNCHANGED <<rowMode, slotVars, child, childMode, inbox, callerVars>>

(* The process groups are torn down, what is queued is dropped, and the    *)
(* slot is given back.                                                     *)
RunnerGone(g) ==
  /\ stage[g] = "exited"
  /\ stage' = [stage EXCEPT ![g] = "gone"] /\ inbox' = [inbox EXCEPT ![g] = <<>>]
  /\ Deregister(g)
  /\ UNCHANGED <<rowVars, generation, child, childMode, callerVars>>

--------------------------------------------------------------------------------
(* Clients and servers that go away.                                       *)

(* The client hangs up and its handler is dropped where it waits.  With a  *)
(* launch goes its end of the channel, and of the child's pipes.           *)
Abandoned(c) ==
  /\ MayAbandon /\ at[c] \notin {"idle", "done", "dropped", "closing", "closed"}
  /\ at' = [at EXCEPT ![c] = IF at[c] \in Launching THEN "dropped" ELSE "done"]
  /\ stage' = IF at[c] \in {"claimed", "starting"}
              THEN [stage EXCEPT ![mine[c]] = "lost"] ELSE stage
  /\ UNCHANGED <<rowVars, slotVars, child, childMode, inbox, mode, mine>>

(* The server dies, or shuts down: its children die with it, and the next  *)
(* one marks every live row stopped before it answers anybody.             *)
ServerRestarts ==
  /\ slot' = NoLaunch
  /\ stage' = [g \in Launches |-> IF stage[g] = "unborn" THEN "unborn" ELSE "gone"]
  /\ child' = [g \in Launches |-> FALSE] /\ inbox' = [g \in Launches |-> <<>>]
  /\ at' = [c \in Callers |-> IF at[c] = "idle" THEN "idle" ELSE "done"]
  /\ RowBecomes("terminal")
  /\ UNCHANGED <<rowMode, generation, childMode, mode, mine>>

Launch(c) ==
  SpawnInserts(c) \/ ResumeChecks(c) \/ ResumeReads(c) \/ LaunchRefused(c) \/ Claims(c)
    \/ ChildStarts(c) \/ RunnerStarts(c) \/ SpawnFails(c) \/ MarksFailed(c)
Delete(c) ==
  DeleteReads(c) \/ DeleteStops(c) \/ AwaitEnds(c) \/ DeadlinePasses(c)
    \/ DeleteRefused(c) \/ RowRemoved(c)
ModeChange(c) == ModeRead(c) \/ ModeChecked(c) \/ ModeWritten(c) \/ ModeSent(c)
Shutdown(c) == ShutdownStops(c) \/ ShutdownMarks(c)

Next ==
  \/ \E c \in Callers :
       Launch(c) \/ StopAsked(c) \/ Delete(c) \/ ModeChange(c) \/ Shutdown(c) \/ Abandoned(c)
  \/ \E g \in Launches : RunnerTakes(g) \/ ChildDies(g) \/ RunnerExits(g) \/ RunnerGone(g)
  \/ ServerRestarts

Spec == Init /\ [][Next]_vars

--------------------------------------------------------------------------------
(* Properties.                                                             *)

(* Two children never run on one session id, however many resumes race     *)
(* each other, a delete and the end of the run before.                     *)
OneChild == \A g, h \in Launches : child[g] /\ child[h] => g = h

(* A runner's handle is in the registry until that very runner is done:    *)
(* no failed or finished launch takes the slot from under a live child,    *)
(* which nothing could stop any more.                                      *)
LiveChildIsHeld == \A g \in Launches : child[g] \/ stage[g] = "running" => slot = g

(* The slot is held for a launch under way or for its runner: an agent     *)
(* whose run ended, or whose child would not start, can be launched again. *)
(* A launch whose handler was dropped is the exception.                    *)
SlotHeldForAReason ==
  slot # NoLaunch => stage[slot] \in {"running", "exited", "lost"} \/
    \E c \in Callers : at[c] \in {"claimed", "starting"} /\ mine[c] = slot

(* A row that claims a live agent has a runner, or a handler about to give *)
(* it one or to say that it failed: no order of requests leaves an agent   *)
(* neither running nor resumable, short of a launch dropped half-way.      *)
LiveRowIsOwned ==
  rowStatus = "live" /\ slot = NoLaunch =>
    \E c \in Callers : at[c] \in {"inserted", "failing", "dropped"}

(* Delete removes an agent: one that runs on without its row can be        *)
(* stopped by nobody, since every request finds the agent by its row.      *)
DeletedRunsNothing ==
  rowStatus = "deleted" /\ (\A c \in Callers : at[c] \in {"idle", "done", "dropped"}) =>
    \A g \in Launches : ~child[g]
================================================================================
