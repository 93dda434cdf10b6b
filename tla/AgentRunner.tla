------------------------------ MODULE AgentRunner ------------------------------
(***************************************************************************)
(* One agent and the runner task that owns its child process               *)
(* (src/src/agent/supervisor.rs, `Runner`; src/src/agent/process.rs, the   *)
(* stdout reader and the exit monitor of `spawn`).                         *)
(*                                                                         *)
(* The runner is a single task: it takes one message from the child or one *)
(* command from the operator at a time and runs its handler to the end, so *)
(* a handler is one action here.  What interleaves is everything around    *)
(* it: the child printing lines and dying, the reader turning a line into  *)
(* several messages, the exit monitor racing that reader, the operator's   *)
(* commands, and the server dying between any two steps.                   *)
(*                                                                         *)
(* Whether two launches can run at once is AgentRegistry's subject; here a *)
(* launch happens only when no runner holds the agent.                     *)
(***************************************************************************)
EXTENDS AgentStatus, Sequences, FiniteSets

CONSTANTS
  Prompts,    \* the request ids the child may use for permission prompts
  NoPrompt,   \* the absence of one
  MaxOutstanding, \* the 256 control requests kept track of
  MaxQueue,   \* bound: messages of the child waiting for the runner
  MaxCmds,    \* bound: operator commands waiting for the runner
  MaxControls \* bound: control requests outstanding when another is made

ASSUME RunnerAssumption ==
  /\ NoPrompt \notin Prompts /\ MaxOutstanding \in Nat \ {0}
  /\ MaxQueue \in Nat /\ MaxCmds \in Nat /\ MaxControls \in Nat

VARIABLES
  \* the database: the agent's row, and the prompts its event log leaves open
  dbStatus, openInLog,
  \* the runner; the answer to `initialize` is outstanding, and how many
  \* answers to other control requests
  runner, base, status, pending, handshake, outstanding, stopRequested, msgs, cmds,
  \* the child process, and the line its stdout reader is working through
  child, waiting, answers, feed, exitSent,
  \* history: asks and logged outcomes of each prompt, the prompts the present
  \* child has asked, and whether so many control requests were outstanding
  \* that its handshake was forgotten
  asks, outcomes, mine, flooded

dbVars == <<dbStatus, openInLog>>
statusVars == <<base, status, dbStatus>>
controlVars == <<handshake, outstanding, flooded>>
runnerVars == <<runner, base, status, pending, controlVars, stopRequested, msgs, cmds>>
childVars == <<child, waiting, answers, feed, exitSent>>
promptHistory == <<asks, outcomes, mine>>
vars == <<dbVars, runnerVars, childVars, promptHistory>>

--------------------------------------------------------------------------------
(* Messages.  A transition the dispatcher raises travels under its own     *)
(* name; "Row" is Persist(PermissionRequest), "Prompt" is Permission,      *)
(* "Cancel" is CancelPermission, "Handshake" the answer to `initialize`,   *)
(* "Answered" one to another control request.  Control is Interrupt, or a  *)
(* change to a mode that has a control request.                            *)

RaisedByLine == { "Initialized", "TurnStarted", "TurnEnded", "LimitReached",
                  "PermissionRequested" }
AboutPrompt == {"Row", "Prompt", "Cancel"}
Message ==
  [kind : RaisedByLine \union {"Handshake", "Answered", "Exited"}, p : {NoPrompt}]
    \union [kind : AboutPrompt, p : Prompts]
Command == [kind : {"Send", "Control", "Stop"}, p : {NoPrompt}] \union [kind : {"Decide"}, p : Prompts]

Msg(k) == [kind |-> k, p |-> NoPrompt]
About(k, p) == [kind |-> k, p |-> p]

(* The messages one `can_use_tool` line becomes, in the order sent.        *)
AskLine(p) == <<About("Row", p), About("Prompt", p), Msg("PermissionRequested")>>

TypeOK ==
  /\ dbStatus \in Status /\ openInLog \subseteq Prompts
  /\ runner \in {"absent", "running", "tearing_down"}
  /\ base \in Status /\ status \in Status /\ pending \subseteq Prompts
  /\ handshake \in BOOLEAN /\ outstanding \in Nat /\ stopRequested \in BOOLEAN
  /\ msgs \in Seq(Message) /\ cmds \in Seq(Command)
  /\ child \in {"none", "alive", "dead"}
  /\ waiting \subseteq Prompts /\ answers \subseteq Prompts
  /\ feed \in Seq(Message) /\ exitSent \in BOOLEAN
  /\ asks \in [Prompts -> Nat] /\ outcomes \in [Prompts -> Nat]
  /\ mine \subseteq Prompts /\ flooded \in BOOLEAN

Init ==
  /\ dbStatus = "stopped" /\ openInLog = {}
  /\ runner = "absent" /\ base = "stopped" /\ status = "stopped"
  /\ pending = {} /\ handshake = FALSE /\ outstanding = 0 /\ stopRequested = FALSE
  /\ msgs = <<>> /\ cmds = <<>>
  /\ child = "none" /\ waiting = {} /\ answers = {} /\ feed = <<>> /\ exitSent = FALSE
  /\ asks = [p \in Prompts |-> 0] /\ outcomes = [p \in Prompts |-> 0] /\ mine = {}
  /\ flooded = FALSE

--------------------------------------------------------------------------------
(* Helpers of the runner.                                                  *)

(* Mutant: the row is not written when the status changes.                 *)
PublishInMemory(next) == status' = next /\ UNCHANGED dbStatus

(* Runner::publish_status, reached only when the status really changes.    *)
Publish(next) ==
  /\ status' = next
  /\ dbStatus' = IF next = status THEN dbStatus ELSE next

(* Runner::set_status, with `held` the prompts held once the handler is    *)
(* done with the pending map.  The two approval transitions leave the base *)
(* alone; a refused transition changes nothing.                            *)
SetStatus(t, held) ==
  LET applied == Apply(base, t)
      next == IF t \in {"PermissionRequested", "PermissionResolved"}
              THEN base ELSE applied
  IN IF applied = Ignored
     THEN UNCHANGED statusVars
     ELSE /\ base' = next
          /\ Publish(WithApprovals(next, held # {}))

(* Mutant: a change of the pending map does not reach the status.          *)
SyncNothing(held) == UNCHANGED statusVars

(* Runner::sync_approvals.                                                 *)
SyncApprovals(held) ==
  /\ Publish(WithApprovals(base, held # {}))
  /\ UNCHANGED base

(* Mutant: every open prompt is closed with the one decided.               *)
CloseAllInLog(S) ==
  /\ openInLog' = {}
  /\ outcomes' = [p \in Prompts |-> outcomes[p] + (IF p \in S THEN 1 ELSE 0)]

(* One permission_decision row per prompt of S: Db::pending_permissions no *)
(* longer lists them.                                                      *)
CloseInLog(S) ==
  /\ openInLog' = openInLog \ S
  /\ outcomes' = [p \in Prompts |-> outcomes[p] + (IF p \in S THEN 1 ELSE 0)]

(* A control_response goes to the child's stdin, and is not waited for.    *)
Answer(p) == answers' = answers \union {p}

--------------------------------------------------------------------------------
(* What a page is told of the agent (Supervisor::view).  A dead process    *)
(* cannot be answered: its prompts are not shown, whatever the log holds.  *)
Resumable == runner = "absent" /\ dbStatus \in Terminal
PendingPermissions == IF runner = "absent" THEN {} ELSE openInLog

--------------------------------------------------------------------------------
(* Launch and resume.                                                      *)

(* The status a launch leaves: Spawned resets the machine, and a first     *)
(* message starts a turn.                                                  *)
LaunchStatus(first) ==
  IF first THEN Apply("starting", "TurnStarted") ELSE "starting"

(* Supervisor::launch once the slot is claimed: prompts an earlier process *)
(* left open are expired, the child is spawned, the machine is reset and   *)
(* the handshake written; a first message, if there is one, is sent before *)
(* the runner's loop starts.                                               *)
Launch(first) ==
  /\ runner = "absent"
  /\ CloseInLog(openInLog)
  /\ runner' = "running" /\ child' = "alive" /\ exitSent' = FALSE
  /\ handshake' = TRUE /\ outstanding' = 0 /\ flooded' = FALSE
  /\ stopRequested' = FALSE /\ pending' = {}
  /\ msgs' = <<>> /\ cmds' = <<>> /\ feed' = <<>>
  /\ waiting' = {} /\ answers' = {} /\ mine' = {}
  /\ LET now == LaunchStatus(first)
     IN base' = now /\ status' = now /\ dbStatus' = now
  /\ UNCHANGED asks

(* The same, when the child cannot be started: the slot is given back and  *)
(* the row reads failed.                                                   *)
LaunchFails ==
  /\ runner = "absent"
  /\ CloseInLog(openInLog)
  /\ dbStatus' = "failed"
  /\ UNCHANGED <<runnerVars, childVars, asks, mine>>

--------------------------------------------------------------------------------
(* The child, its stdout reader and its exit monitor (process::spawn).     *)

(* The child prints a line and the reader starts on what it means.  A next *)
(* line waits in the pipe, which is to say it has not been printed.        *)
Prints(line) ==
  /\ child = "alive" /\ feed = <<>>
  /\ feed' = line
  /\ UNCHANGED <<dbVars, runnerVars, child, exitSent>>

(* Lines that concern no prompt.  The handshake is answered at most once,  *)
(* and nothing when nothing is outstanding, since an answer whose id is no *)
(* longer outstanding is ignored.                                          *)
ChildPrints ==
  /\ \/ \E k \in {"Initialized", "TurnStarted", "TurnEnded", "LimitReached"} :
          Prints(<<Msg(k)>>)
     \/ outstanding > 0 /\ Prints(<<Msg("Answered")>>)
     \/ handshake /\ Prints(<<Msg("Handshake")>>)
  /\ UNCHANGED <<waiting, answers, promptHistory>>

(* The child blocks on a prompt.  It may reuse an id it is waiting on, the *)
(* misbehaviour the runner guards against.                                 *)
ChildAsks(p) ==
  /\ asks[p] = 0 \/ (asks[p] = 1 /\ p \in waiting)
  /\ Prints(AskLine(p))
  /\ asks' = [asks EXCEPT ![p] = @ + 1]
  /\ waiting' = waiting \union {p} /\ mine' = mine \union {p}
  /\ UNCHANGED <<answers, outcomes>>

(* The child stops waiting of its own accord (control_cancel_request).     *)
ChildWithdraws(p) ==
  /\ p \in waiting
  /\ Prints(<<About("Cancel", p)>>)
  /\ waiting' = waiting \ {p}
  /\ UNCHANGED <<answers, promptHistory>>

(* The child reads a decision from its stdin.                              *)
ChildReadsAnswer(p) ==
  /\ child = "alive" /\ p \in answers
  /\ answers' = answers \ {p} /\ waiting' = waiting \ {p}
  /\ UNCHANGED <<dbVars, runnerVars, child, feed, exitSent, promptHistory>>

(* The child is gone: on its own, or because it was signalled.             *)
ChildDies ==
  /\ child = "alive"
  /\ child' = "dead"
  /\ UNCHANGED <<dbVars, runnerVars, waiting, answers, feed, exitSent,
                 promptHistory>>

(* The reader sends one of the line's messages.  The channel has no limit; *)
(* MaxQueue only keeps the model finite.                                   *)
ReaderSends ==
  /\ feed # <<>> /\ runner = "running" /\ Len(msgs) < MaxQueue
  /\ msgs' = Append(msgs, Head(feed)) /\ feed' = Tail(feed)
  /\ UNCHANGED <<dbVars, runner, base, status, pending, controlVars, stopRequested, cmds,
                 child, waiting, answers, exitSent, promptHistory>>

(* Mutant: the monitor waits for the reader however long it takes.         *)
ExitReportedInOrder ==
  /\ child = "dead" /\ ~exitSent /\ runner = "running" /\ feed = <<>>
  /\ msgs' = Append(msgs, Msg("Exited")) /\ exitSent' = TRUE
  /\ UNCHANGED <<dbVars, runner, base, status, pending, controlVars, stopRequested, cmds,
                 child, waiting, answers, feed, promptHistory>>

(* The exit monitor waits for the child, then for the reader but only for  *)
(* DRAIN_AFTER_EXIT: the exit may overtake messages still to be sent.      *)
ExitReported ==
  /\ child = "dead" /\ ~exitSent /\ runner = "running"
  /\ msgs' = Append(msgs, Msg("Exited")) /\ exitSent' = TRUE
  /\ UNCHANGED <<dbVars, runner, base, status, pending, controlVars, stopRequested, cmds,
                 child, waiting, answers, feed, promptHistory>>

--------------------------------------------------------------------------------
(* The runner takes a message of the child (Runner::run, Runner::on_action)*)

Takes(kinds) ==
  /\ runner = "running" /\ msgs # <<>> /\ Head(msgs).kind \in kinds
  /\ msgs' = Tail(msgs)

OnTransition ==
  /\ Takes(RaisedByLine)
  /\ SetStatus(Head(msgs).kind, pending)
  /\ UNCHANGED <<openInLog, runner, pending, controlVars, stopRequested, cmds,
                 childVars, promptHistory>>

(* Persist: the permission_request row, logged before the prompt is held.  *)
OnRow ==
  /\ Takes({"Row"})
  /\ openInLog' = openInLog \union {Head(msgs).p}
  /\ UNCHANGED <<dbStatus, runner, base, status, pending, controlVars, stopRequested,
                 cmds, childVars, promptHistory>>

(* Permission: a second prompt under an id already held is ignored.        *)
OnPrompt ==
  /\ Takes({"Prompt"})
  /\ pending' = pending \union {Head(msgs).p}
  /\ IF Head(msgs).p \in pending
     THEN UNCHANGED statusVars
     ELSE SyncApprovals(pending')
  /\ UNCHANGED <<openInLog, runner, controlVars, stopRequested, cmds, childVars,
                 promptHistory>>

(* Runner::withdraw: a prompt that is not held is not ours to close.       *)
OnCancel ==
  /\ Takes({"Cancel"})
  /\ IF Head(msgs).p \in pending
     THEN /\ pending' = pending \ {Head(msgs).p}
          /\ CloseInLog({Head(msgs).p})
          /\ SyncApprovals(pending')
     ELSE UNCHANGED <<pending, openInLog, outcomes, statusVars>>
  /\ UNCHANGED <<runner, controlVars, stopRequested, cmds, childVars, asks, mine>>

(* ControlResponse to `initialize`: the readiness signal of a launch.      *)
OnHandshake ==
  /\ Takes({"Handshake"})
  /\ handshake' = FALSE
  /\ IF handshake THEN SetStatus("Initialized", pending) ELSE UNCHANGED statusVars
  /\ UNCHANGED <<openInLog, runner, pending, outstanding, flooded, stopRequested, cmds, childVars,
                 promptHistory>>

(* ControlResponse to another request, or to one no longer outstanding.    *)
OnAnswered ==
  /\ Takes({"Answered"})
  /\ outstanding' \in {outstanding, IF outstanding = 0 THEN 0 ELSE outstanding - 1}
  /\ UNCHANGED <<dbVars, runner, base, status, pending, handshake, flooded,
                 stopRequested, cmds, childVars, promptHistory>>

(* Runner::on_exit as far as the teardown of process groups: the terminal  *)
(* status is written and every held prompt expired.  Messages behind the   *)
(* exit are never taken.                                                   *)
OnExit ==
  /\ Takes({"Exited"})
  /\ LET end == Apply(base, IF stopRequested THEN "Exited" ELSE "Errored")
         final == IF end # Ignored THEN end
                  ELSE IF stopRequested THEN "stopped" ELSE "failed"
     IN base' = final /\ status' = final /\ dbStatus' = final
  /\ pending' = {} /\ CloseInLog(pending)
  /\ runner' = "tearing_down"
  /\ UNCHANGED <<controlVars, stopRequested, cmds, childVars, asks, mine>>

(* The runner is gone with its queues and its end of the child's pipes.    *)
RunnerGone ==
  /\ runner' = "absent" /\ msgs' = <<>> /\ cmds' = <<>>
  /\ handshake' = FALSE /\ outstanding' = 0 /\ flooded' = FALSE /\ stopRequested' = FALSE
  /\ child' = "none" /\ waiting' = {} /\ answers' = {} /\ feed' = <<>> /\ exitSent' = FALSE

(* The rest of on_exit, then drop_unsent and deregister: what is queued is *)
(* never sent.                                                             *)
FinishTeardown ==
  /\ runner = "tearing_down"
  /\ RunnerGone
  /\ UNCHANGED <<dbVars, base, status, pending, promptHistory>>

--------------------------------------------------------------------------------
(* Operator commands (Supervisor::command): accepted while the registry    *)
(* holds the agent, the teardown included.                                 *)

Operator(cmd) ==
  /\ runner # "absent" /\ Len(cmds) < MaxCmds
  /\ cmds' = Append(cmds, cmd)
  /\ UNCHANGED <<dbVars, runner, base, status, pending, controlVars, stopRequested, msgs,
                 childVars, promptHistory>>

OperatorSends == Operator(Msg("Send"))

(* A page may answer any prompt it has ever been shown, twice included.    *)
OperatorDecides(p) == asks[p] > 0 /\ Operator(About("Decide", p))

OperatorInterrupts == outstanding < MaxControls /\ Operator(Msg("Control"))

OperatorStops == Operator(Msg("Stop"))

(* The runner takes a command (Runner::on_command).                        *)
TakesCommand(kind) ==
  /\ runner = "running" /\ cmds # <<>> /\ Head(cmds).kind = kind
  /\ cmds' = Tail(cmds)

(* send_user_message: written to the child's stdin, logged, turn started.  *)
OnSend ==
  /\ TakesCommand("Send")
  /\ SetStatus("TurnStarted", pending)
  /\ UNCHANGED <<openInLog, runner, pending, controlVars, stopRequested, msgs, childVars,
                 promptHistory>>

(* Mutant: an answer is written whether or not its prompt is held.         *)
OnAnyDecide ==
  /\ TakesCommand("Decide")
  /\ LET p == Head(cmds).p IN
       /\ pending' = pending \ {p} /\ Answer(p)
       /\ CloseInLog({p}) /\ SetStatus("PermissionResolved", pending')
  /\ UNCHANGED <<runner, controlVars, stopRequested, msgs, child, waiting, feed, exitSent,
                 asks, mine>>

(* Runner::decide: only a prompt that is held may be answered.             *)
OnDecide ==
  /\ TakesCommand("Decide")
  /\ LET p == Head(cmds).p IN
     IF p \in pending
     THEN /\ pending' = pending \ {p}
          /\ Answer(p)
          /\ CloseInLog({p})
          /\ SetStatus("PermissionResolved", pending')
     ELSE UNCHANGED <<pending, answers, openInLog, outcomes, statusVars>>
  /\ UNCHANGED <<runner, controlVars, stopRequested, msgs, child, waiting, feed, exitSent,
                 asks, mine>>

(* Mutant: whatever was outstanding is forgotten.                          *)
OnControlForgets ==
  /\ TakesCommand("Control")
  /\ outstanding' = 1 /\ handshake' = FALSE /\ UNCHANGED flooded
  /\ UNCHANGED <<dbVars, runner, base, status, pending, stopRequested, msgs, childVars,
                 promptHistory>>

(* Interrupt, SetPermissionMode: a control request under an id of its own. *)
(* When there are more of them than are kept track of, the earlier ones    *)
(* are forgotten, the handshake included (take_request_id).                *)
OnControl ==
  /\ TakesCommand("Control")
  /\ IF outstanding + (IF handshake THEN 1 ELSE 0) < MaxOutstanding
     THEN outstanding' = outstanding + 1 /\ UNCHANGED <<handshake, flooded>>
     ELSE outstanding' = 1 /\ handshake' = FALSE /\ flooded' = (flooded \/ handshake)
  /\ UNCHANGED <<dbVars, runner, base, status, pending, stopRequested, msgs, childVars,
                 promptHistory>>

(* Mutant: the request is lost.                                            *)
OnStopForgets ==
  /\ TakesCommand("Stop")
  /\ UNCHANGED <<dbVars, runner, base, status, pending, controlVars, stopRequested, msgs,
                 childVars, promptHistory>>

(* Stop: the child is asked to end, with SIGKILL behind the request.       *)
OnStop ==
  /\ TakesCommand("Stop")
  /\ stopRequested' = TRUE
  /\ UNCHANGED <<dbVars, runner, base, status, pending, controlVars, msgs, childVars,
                 promptHistory>>

--------------------------------------------------------------------------------
(* The server dies and starts again: what was in memory is gone, children  *)
(* do not survive it, and main marks every row that looks live as stopped. *)
ServerRestarts ==
  /\ runner # "absent"
  /\ RunnerGone /\ pending' = {}
  /\ dbStatus' = IF dbStatus \in Terminal THEN dbStatus ELSE "stopped"
  /\ base' = dbStatus' /\ status' = dbStatus'
  /\ UNCHANGED <<openInLog, promptHistory>>

RunnerTakesMessage ==
  OnTransition \/ OnRow \/ OnPrompt \/ OnCancel \/ OnHandshake \/ OnAnswered \/ OnExit
RunnerTakesCommand == OnSend \/ OnDecide \/ OnControl \/ OnStop

Next ==
  \/ \E first \in BOOLEAN : Launch(first)
  \/ LaunchFails
  \/ ChildPrints
  \/ \E p \in Prompts : ChildAsks(p) \/ ChildWithdraws(p) \/ ChildReadsAnswer(p)
  \/ ChildDies
  \/ ReaderSends
  \/ ExitReported
  \/ RunnerTakesMessage
  \/ RunnerTakesCommand
  \/ FinishTeardown
  \/ OperatorSends \/ OperatorInterrupts \/ OperatorStops
  \/ \E p \in Prompts : OperatorDecides(p)
  \/ ServerRestarts

Spec == Init /\ [][Next]_vars

(* The select loop polls both channels in random order, so neither starves *)
(* the other; the exit monitor and the teardown run to their end; and a    *)
(* child asked to stop is killed after the grace period (ChildHandle::stop)*)
Fairness ==
  /\ WF_vars(RunnerTakesMessage)
  /\ WF_vars(RunnerTakesCommand)
  /\ WF_vars(ExitReported)
  /\ WF_vars(FinishTeardown)
  /\ WF_vars(stopRequested /\ ChildDies)

FairSpec == Spec /\ Fairness

--------------------------------------------------------------------------------
(* Properties.                                                             *)

(* Status::AwaitingApproval says one thing, that a prompt waits on the     *)
(* operator: between two handlers of a running agent the published status  *)
(* is awaiting_approval exactly while a prompt is held, and the status     *)
(* underneath is never awaiting_approval, so clearing the last prompt      *)
(* always has something true to return to.                                 *)
AwaitingIffHeld ==
  runner = "running" =>
    /\ status = "awaiting_approval" <=> pending # {}
    /\ base \in Live \ {"awaiting_approval"}

(* The row every page reads is the runner's status while there is a        *)
(* runner, though most transitions write nothing; and with no runner it is *)
(* terminal, so no runner's end leaves the agent neither running nor       *)
(* resumable (AgentView::resumable), whatever died and whenever.           *)
RowTellsTheTruth ==
  IF runner = "absent" THEN Resumable ELSE dbStatus = status

(* The prompts a page loads come from the event log, the answers are       *)
(* judged by the pending map.  Every held prompt is in the log's open list *)
(* (unless the child misused its id), so no agent awaits an approval that  *)
(* a freshly loaded page cannot show; and every prompt the log of a        *)
(* running agent leaves open is held, or its Permission message is on its  *)
(* way to be, so no page shows a card that can never be answered: through  *)
(* withdrawals, exits that overtook a prompt's messages, restarts and      *)
(* relaunches.                                                             *)
Coming(p) ==
  \E m \in {msgs[i] : i \in DOMAIN msgs} \union {feed[i] : i \in DOMAIN feed} :
    m = About("Prompt", p)
HeldPromptsShown == \A p \in pending : asks[p] = 1 => p \in PendingPermissions
ShownPromptsAnswerable ==
  runner = "running" => \A p \in PendingPermissions : p \in pending \/ Coming(p)
ShownIffHeld == HeldPromptsShown /\ ShownPromptsAnswerable

(* A prompt is closed once: the operator's answers from two tabs, the      *)
(* child's withdrawal, its exit, and the expiry at the next launch never   *)
(* give one prompt two outcomes in the log.  And a decision reaches only   *)
(* the process that asked for it: an answer queued for one child is never  *)
(* written to the child of a later launch.                                 *)
OneOutcome == \A p \in Prompts : asks[p] = 1 => outcomes[p] <= 1
AnswersOnlyTheAsker == answers \subseteq mine
AnsweredOnce == OneOutcome /\ AnswersOnlyTheAsker

(* A stop that was accepted ends in the agent being resumable, whatever    *)
(* the child prints meanwhile and whatever else is queued.                 *)
StopIsObeyed ==
  (\E i \in DOMAIN cmds : cmds[i].kind = "Stop") ~> (runner = "absent")

(* The child's answer to `initialize` is the one readiness signal a launch *)
(* is sure to get: once it is there the agent leaves `starting`, however   *)
(* many control requests the operator has sent before it is taken, up to   *)
(* the number that are kept track of.                                      *)
ReadyIsNoticed ==
  (\E i \in DOMAIN msgs : msgs[i].kind = "Handshake") ~> (status # "starting" \/ flooded)

(* A child that died leaves its agent resumable, even if its output is     *)
(* never drained.                                                          *)
ExitIsReported == (child = "dead") ~> (runner = "absent")
================================================================================
