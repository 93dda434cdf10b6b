------------------------------ MODULE Dispatcher ------------------------------
(***************************************************************************)
(* How CLI output becomes an agent's status and its subagent list          *)
(* (src/src/agent/process.rs, `Dispatcher`).                               *)
(*                                                                         *)
(* The CLI is the environment and the ground truth: it runs turns, of the  *)
(* operator's making or its own, starts subagents inside them, and tells   *)
(* of both only in lines on one pipe.  The dispatcher reads each line to   *)
(* its end before the next, so a line is one action: what changed in the   *)
(* CLI, and what on_stdout makes of it.  The transitions it raises reach   *)
(* the status through a queue, against which the operator's messages race. *)
(***************************************************************************)
EXTENDS AgentStatus, Sequences, SequencesExt, FiniteSets

CONSTANTS
  Tasks,         \* the task ids subagents run under
  MaxSubagents,  \* MAX_SUBAGENTS: how many subagents are listed
  MaxTurns,      \* bound: turns the CLI begins
  MaxInbox,      \* bound: messages of the operator the CLI has not read
  MaxRaised      \* bound: transitions on their way to the runner

ASSUME DispatcherAssumption ==
  /\ MaxSubagents \in Nat \ {0} /\ MaxTurns \in Nat /\ MaxInbox \in Nat
  /\ MaxRaised \in Nat \ {0}

VARIABLES
  \* the CLI: whether a turn is open and has spoken, how many began, unread
  \* messages, and each task's kind, phase and lines still to be printed
  turn, spoke, turns, inbox, kind, phase, owed,
  \* the dispatcher
  turn_open, deferred_turn_end, background_tasks, subagents,
  backgrounded, synchronous, top_level_synchronous, closed_by_backstop,
  \* the runner: transitions it has yet to take, and the status beneath any
  \* permission prompt
  raised, status

cliVars == <<turn, spoke, turns, inbox, kind, phase, owed>>
turnVars == <<turn_open, deferred_turn_end, background_tasks>>
listVars == <<subagents, backgrounded, synchronous, top_level_synchronous,
              closed_by_backstop>>
runnerVars == <<raised, status>>
vars == <<cliVars, turnVars, listVars, runnerVars>>

(* A subagent is backgrounded, or its parent waits for it: the agent's own *)
(* turn, or for a nested one another subagent.                             *)
Kind == {"background", "synchronous", "nested"}
Line == {"task_started", "background_tasks_changed", "task_updated",
         "task_notification", "tool_result"}
Shown == {"running", "completed", "failed"}

TypeOK ==
  /\ turn \in BOOLEAN /\ spoke \in BOOLEAN /\ turns \in Nat /\ inbox \in Nat
  /\ kind \in [Tasks -> Kind]
  /\ phase \in [Tasks -> {"unborn", "running", "ended"}]
  /\ owed \in [Tasks -> SUBSET Line]
  /\ turn_open \in BOOLEAN /\ deferred_turn_end \in BOOLEAN
  /\ background_tasks \subseteq Tasks
  /\ subagents \in Seq([task_id : Tasks, state : Shown])
  /\ backgrounded \subseteq Tasks /\ synchronous \subseteq Tasks
  /\ top_level_synchronous \subseteq Tasks /\ closed_by_backstop \subseteq Tasks
  /\ raised \in Seq(Transition) /\ status \in Status

Init ==
  /\ turn = FALSE /\ spoke = FALSE /\ turns = 0 /\ inbox = 0
  /\ kind \in [Tasks -> Kind]
  /\ phase = [t \in Tasks |-> "unborn"] /\ owed = [t \in Tasks |-> {}]
  /\ turn_open = FALSE /\ deferred_turn_end = FALSE /\ background_tasks = {}
  /\ subagents = <<>> /\ backgrounded = {} /\ synchronous = {}
  /\ top_level_synchronous = {} /\ closed_by_backstop = {}
  /\ raised = <<>> /\ status = "idle"

--------------------------------------------------------------------------------
(* The turn.                                                               *)

(* What a line raises joins the runner's queue.                            *)
Raise(transitions) ==
  /\ Len(raised) < MaxRaised
  /\ raised' = raised \o transitions
  /\ UNCHANGED status

(* Mutant: a held turn end is never let go.                                *)
AfterTaskLineForgets(left) ==
  background_tasks' = left /\ UNCHANGED <<deferred_turn_end, turn_open>> /\ Raise(<<>>)

(* on_task_line, once the live set is `left`: a turn end that was held     *)
(* back lands when nothing is left to wait for.                            *)
AfterTaskLine(left) ==
  /\ background_tasks' = left
  /\ IF left = {} /\ deferred_turn_end
     THEN /\ deferred_turn_end' = FALSE /\ turn_open' = FALSE
          /\ Raise(<<"TurnEnded">>)
     ELSE UNCHANGED <<deferred_turn_end, turn_open>> /\ Raise(<<>>)

(* The main arm of on_stdout for `assistant`: only the first line of a     *)
(* turn raises TurnStarted, and a subagent's line opens none.              *)
OnAssistant(delegated) ==
  /\ turn_open' = (turn_open \/ ~delegated)
  /\ Raise(IF delegated \/ turn_open THEN <<>> ELSE <<"TurnStarted">>)
  /\ UNCHANGED <<deferred_turn_end, background_tasks>>

(* Mutant: a turn ends whatever it leaves running.                         *)
OnResultAtOnce(outOfTokens) ==
  /\ turn_open' = FALSE /\ deferred_turn_end' = FALSE
  /\ Raise(<<IF outOfTokens THEN "LimitReached" ELSE "TurnEnded">>)
  /\ UNCHANGED background_tasks

(* The arm for `result`.                                                   *)
OnResult(outOfTokens) ==
  /\ turn_open' = FALSE
  /\ deferred_turn_end' =
       IF outOfTokens THEN FALSE ELSE deferred_turn_end \/ background_tasks # {}
  /\ Raise(IF outOfTokens THEN <<"LimitReached">>
           ELSE IF background_tasks = {} THEN <<"TurnEnded">> ELSE <<>>)
  /\ UNCHANGED background_tasks

--------------------------------------------------------------------------------
(* The subagent list.                                                      *)

Listed == {subagents[i].task_id : i \in DOMAIN subagents}
ShownAs(s) == {subagents[i].task_id : i \in {j \in DOMAIN subagents : subagents[j].state = s}}

(* Every listed subagent of S put in state s.                              *)
Marked(S, s) ==
  [i \in DOMAIN subagents |->
     IF subagents[i].task_id \in S THEN [subagents[i] EXCEPT !.state = s]
     ELSE subagents[i]]

(* track_subagent, `task_started`: the list grows at its end, and over its *)
(* bound the oldest finished one goes, or failing that the oldest.         *)
ListStarted(t) ==
  LET grown == IF t \in Listed THEN Marked({t}, "running")
               ELSE Append(subagents, [task_id |-> t, state |-> "running"])
      finished == {i \in DOMAIN grown : grown[i].state # "running"}
      at == IF finished = {} THEN 1 ELSE CHOOSE i \in finished : \A j \in finished : i <= j
      gone == IF Len(grown) > MaxSubagents THEN {grown[at].task_id} ELSE {}
  IN /\ subagents' = IF gone = {} THEN grown ELSE RemoveAt(grown, at)
     /\ backgrounded' =
          (backgrounded \union (IF kind[t] = "background" THEN {t} ELSE {})) \ gone
     /\ synchronous' =
          (synchronous \union (IF kind[t] # "background" THEN {t} ELSE {})) \ gone
     /\ top_level_synchronous' =
          (top_level_synchronous \union (IF kind[t] = "synchronous" THEN {t} ELSE {})) \ gone
     /\ closed_by_backstop' = closed_by_backstop \ ({t} \union gone)

(* A line that says task t ended, and how (task_updated with a terminal    *)
(* status, task_notification).                                             *)
ListEnded(t, s) ==
  /\ closed_by_backstop' = closed_by_backstop \ {t}
  /\ subagents' = Marked({t}, s)
  /\ UNCHANGED <<backgrounded, synchronous, top_level_synchronous>>

(* A sign of life undoes what the turn-end backstop guessed (task_progress,*)
(* task_updated, note_subagent_tool).                                      *)
ListAlive(t) ==
  /\ closed_by_backstop' = closed_by_backstop \ {t}
  /\ subagents' = Marked({t} \intersect closed_by_backstop, "running")
  /\ UNCHANGED <<backgrounded, synchronous, top_level_synchronous>>

(* close_synchronous_subagent: the Agent tool call of t returned.  Only a  *)
(* subagent known to be synchronous ends with it.                          *)
ListReturned(t, s) ==
  LET ends == /\ t \in ShownAs("running") \/ t \in closed_by_backstop
              /\ t \in synchronous \ backgrounded /\ t \notin background_tasks
  IN /\ closed_by_backstop' = closed_by_backstop \ ({t} \intersect Listed)
     /\ subagents' = IF ends THEN Marked({t}, s) ELSE subagents
     /\ UNCHANGED <<backgrounded, synchronous, top_level_synchronous>>

(* Mutants: the guess is taken for good; it is not made.                   *)
ListTurnEndForGood ==
  /\ subagents' = Marked((ShownAs("running") \intersect top_level_synchronous)
                           \ background_tasks, "completed")
  /\ UNCHANGED <<backgrounded, synchronous, top_level_synchronous, closed_by_backstop>>
ListTurnEndNothing == UNCHANGED listVars

(* close_subagents_at_turn_end: the agent cannot have outlived the tool    *)
(* call of a synchronous subagent of its own.                              *)
ListTurnEnd ==
  LET closed == (ShownAs("running") \intersect top_level_synchronous) \ background_tasks
  IN /\ subagents' = Marked(closed, "completed")
     /\ closed_by_backstop' = closed_by_backstop \union closed
     /\ UNCHANGED <<backgrounded, synchronous, top_level_synchronous>>

(* track_subagent, `background_tasks_changed`: a backgrounded subagent off *)
(* the complete list `live` has ended, however the other lines put it.     *)
ListBackground(live) ==
  /\ subagents' =
       Marked((ShownAs("running") \intersect background_tasks) \ live, "completed")
  /\ UNCHANGED <<backgrounded, synchronous, top_level_synchronous, closed_by_backstop>>

--------------------------------------------------------------------------------
(* The CLI.                                                                *)

(* A turn begins: with a message of the operator, or because a subagent    *)
(* reported.  Nothing is printed yet.                                      *)
TurnBegins ==
  /\ ~turn /\ turns < MaxTurns
  /\ inbox > 0 \/ \E t \in Tasks : phase[t] = "ended"
  /\ turn' = TRUE /\ spoke' = FALSE /\ turns' = turns + 1
  /\ inbox' = IF inbox > 0 THEN inbox - 1 ELSE 0
  /\ UNCHANGED <<kind, phase, owed, turnVars, listVars, runnerVars>>

(* A message that arrives during a turn is taken into it.                  *)
MessageJoinsTurn ==
  /\ turn /\ inbox > 0
  /\ inbox' = inbox - 1
  /\ UNCHANGED <<turn, spoke, turns, kind, phase, owed, turnVars, listVars, runnerVars>>

(* The agent itself prints an assistant line.                              *)
Speaks ==
  /\ turn
  /\ spoke' = TRUE
  /\ OnAssistant(FALSE)
  /\ UNCHANGED <<turn, turns, inbox, kind, phase, owed, listVars>>

(* A subagent starts, its lines still to be printed.  Which of them a      *)
(* version of the CLI prints is its own affair, as long as there is one.   *)
SubagentStarts(t) ==
  /\ phase[t] = "unborn"
  /\ IF kind[t] = "nested" THEN \E u \in Tasks \ {t} : phase[u] = "running"
     ELSE turn /\ spoke
  /\ phase' = [phase EXCEPT ![t] = "running"]
  /\ IF kind[t] = "background"
     THEN \E lines \in (SUBSET {"task_started", "background_tasks_changed"}) \ {{}} :
            owed' = [owed EXCEPT ![t] = lines]
     ELSE owed' = [owed EXCEPT ![t] = {"task_started"}]
  /\ UNCHANGED <<turn, spoke, turns, inbox, kind, turnVars, listVars, runnerVars>>

Announced(t) == phase[t] = "running" /\ owed[t] = {}

(* A backgrounded subagent ends, to be told by one line or more; one that  *)
(* is waited for ends with its tool result alone.                          *)
SubagentEnds(t) ==
  /\ Announced(t)
  /\ phase' = [phase EXCEPT ![t] = "ended"]
  /\ IF kind[t] = "background"
     THEN \E lines \in (SUBSET {"background_tasks_changed", "task_updated",
                                 "task_notification"}) \ {{}} :
            owed' = [owed EXCEPT ![t] = lines]
     ELSE owed' = [owed EXCEPT ![t] = {"tool_result"}]
  /\ UNCHANGED <<turn, spoke, turns, inbox, kind, turnVars, listVars, runnerVars>>

(* The line l that task t owes is printed.                                 *)
Owes(t, l) ==
  /\ l \in owed[t]
  /\ owed' = [owed EXCEPT ![t] = @ \ {l}]
  /\ UNCHANGED <<turn, spoke, turns, inbox, kind, phase>>

TaskStarted(t) ==
  /\ Owes(t, "task_started")
  /\ ListStarted(t)
  /\ IF kind[t] = "background" THEN AfterTaskLine(background_tasks \union {t})
     ELSE UNCHANGED turnVars /\ Raise(<<>>)

(* The list is complete: every backgrounded subagent that is running.      *)
BackgroundTasksChanged(t) ==
  LET live == {u \in Tasks : kind[u] = "background" /\ phase[u] = "running"} IN
  /\ Owes(t, "background_tasks_changed")
  /\ ListBackground(live)
  /\ AfterTaskLine(live)

TaskUpdated(t) ==
  /\ Owes(t, "task_updated")
  /\ \E s \in {"completed", "failed"} : ListEnded(t, s)
  /\ AfterTaskLine(background_tasks \ {t})

TaskNotification(t) ==
  /\ Owes(t, "task_notification")
  /\ \E s \in {"completed", "failed"} : ListEnded(t, s)
  /\ AfterTaskLine(background_tasks \ {t})

ToolResult(t) ==
  /\ Owes(t, "tool_result")
  /\ \E s \in {"completed", "failed"} : ListReturned(t, s)
  /\ UNCHANGED turnVars /\ Raise(<<>>)

(* A backgrounded subagent's tool call returns while it runs.              *)
Launched(t) ==
  /\ Announced(t) /\ kind[t] = "background"
  /\ ListReturned(t, "completed")
  /\ UNCHANGED <<cliVars, turnVars>> /\ Raise(<<>>)

(* A running subagent shows itself: a progress line, or a tool of its own  *)
(* on its parent's stream.  It may start no turn.                          *)
SubagentWorks(t) ==
  /\ Announced(t)
  /\ ListAlive(t)
  /\ OnAssistant(TRUE)
  /\ UNCHANGED cliVars

(* The turn ends, the subagents it started announced by then.  An agent    *)
(* that was interrupted leaves the subagents it waited for without a       *)
(* result: they end untold, or go on for a while.                          *)
TurnEnds(outOfTokens) ==
  /\ turn /\ \A t \in Tasks : phase[t] = "running" => Announced(t)
  /\ turn' = FALSE /\ spoke' = FALSE
  /\ \E dropped \in SUBSET {t \in Tasks : kind[t] = "synchronous" /\ Announced(t)} :
       phase' = [t \in Tasks |-> IF t \in dropped THEN "ended" ELSE phase[t]]
  /\ OnResult(outOfTokens)
  /\ ListTurnEnd
  /\ UNCHANGED <<turns, inbox, kind, owed>>

--------------------------------------------------------------------------------
(* The runner.                                                             *)

(* Runner::send_user_message: the status moves before the CLI has read it. *)
OperatorSends ==
  /\ inbox < MaxInbox
  /\ inbox' = inbox + 1
  /\ status' = Apply(status, "TurnStarted")
  /\ UNCHANGED <<turn, spoke, turns, kind, phase, owed, turnVars, listVars, raised>>

RunnerApplies ==
  /\ raised # <<>>
  /\ raised' = Tail(raised)
  /\ status' = Apply(status, Head(raised))
  /\ UNCHANGED <<cliVars, turnVars, listVars>>

TaskLine(t) ==
  \/ TaskStarted(t) \/ BackgroundTasksChanged(t) \/ TaskUpdated(t)
  \/ TaskNotification(t) \/ ToolResult(t)

Next ==
  \/ TurnBegins \/ MessageJoinsTurn \/ Speaks
  \/ \E t \in Tasks : SubagentStarts(t) \/ SubagentEnds(t)
  \/ \E t \in Tasks : TaskLine(t) \/ Launched(t) \/ SubagentWorks(t)
  \/ \E outOfTokens \in BOOLEAN : TurnEnds(outOfTokens)
  \/ OperatorSends \/ RunnerApplies

Spec == Init /\ [][Next]_vars

--------------------------------------------------------------------------------
(* Properties.                                                             *)

(* Nothing is going on in the CLI and everything it had to say was taken.  *)
Quiet ==
  /\ ~turn /\ inbox = 0 /\ raised = <<>>
  /\ \A t \in Tasks : phase[t] # "running" /\ owed[t] = {}

(* A turn end held back for backgrounded subagents lands in the end,       *)
(* whichever of their lines the CLI prints and in what order: an agent     *)
(* with nothing left to do has come to rest, and is not left at working.   *)
ComesToRest == Quiet => status # "working"

(* Why it lands: a turn end is held back only while a backgrounded         *)
(* subagent is still to be heard from.                                     *)
HeldForAReason ==
  deferred_turn_end =>
    \E t \in background_tasks : phase[t] = "running" \/ owed[t] # {}

(* `idle` means the operator's turn to type (DESIGN section 4): while no   *)
(* transition is on its way, an idle agent is in no turn it has spoken in, *)
(* and has no backgrounded subagent it was told about.  The first turn     *)
(* always holds its end back for what it leaves running; with a second     *)
(* turn open when the last line arrives, the end held for the first closes *)
(* that one too, and the agent reads idle while it works.                  *)
IdleIsYourTurn ==
  status = "idle" /\ raised = <<>> /\ inbox = 0 =>
    ~(turn /\ spoke) /\ background_tasks = {}
FirstTurnIdleIsYourTurn == turns <= 1 => IdleIsYourTurn

(* A subagent shown as finished has finished, or was closed as a guess at  *)
(* the turn's end and any sign of life will undo it.                       *)
ShownEndsAreReal ==
  \A t \in Listed \ ShownAs("running") : phase[t] = "ended" \/ t \in closed_by_backstop

(* And the reverse, once the CLI has told all: a subagent that ended is    *)
(* not shown running, even one whose tool call never returned.             *)
NoGhostSubagents == Quiet => ShownAs("running") = {}

================================================================================
