--------------------------- MODULE AgentRunnerProofs ---------------------------
(***************************************************************************)
(* Proofs about AgentRunner, for any set of prompts and any bounds: its    *)
(* status and its row, then its prompts.                                   *)
(***************************************************************************)
EXTENDS AgentRunner, TLAPS

(* `apply` answers a status or refuses.                                    *)
LEMMA ApplyType ==
  ASSUME NEW s \in Status, NEW t \in Transition
  PROVE  Apply(s, t) \in Status \union {Ignored}
BY DEF Apply, LandsOn, Live, Terminal, Status, Transition

LEMMA WithApprovalsType ==
  ASSUME NEW s \in Status, NEW any \in BOOLEAN
  PROVE  WithApprovals(s, any) \in Status
BY DEF WithApprovals, Live, Terminal, Status

(* Runner::set_status keeps the base out of awaiting_approval because the  *)
(* machine only ever puts a status there for the two approval transitions, *)
(* which the runner does not apply to the base.                            *)
LEMMA ApplyOfLive ==
  ASSUME NEW s \in Live \ {"awaiting_approval"}, NEW t \in RaisedByLine,
         t # "PermissionRequested"
  PROVE  Apply(s, t) \in Live \ {"awaiting_approval"}
BY DEF Apply, LandsOn, Live, Terminal, RaisedByLine

(* What the correction of a live status by the held prompts comes to.      *)
LEMMA CorrectedLive ==
  ASSUME NEW s \in Live \ {"awaiting_approval"}, NEW any \in BOOLEAN
  PROVE  WithApprovals(s, any) = IF any THEN "awaiting_approval" ELSE s
BY DEF WithApprovals, Live, Terminal

--------------------------------------------------------------------------------
(* Types.                                                                  *)

(* Every message and command the runner takes is well formed.              *)
LEMMA Heads ==
  ASSUME TypeOK
  PROVE  /\ msgs # <<>> => Head(msgs) \in Message /\ Tail(msgs) \in Seq(Message)
         /\ cmds # <<>> => Head(cmds) \in Command /\ Tail(cmds) \in Seq(Command)
         /\ feed # <<>> => Head(feed) \in Message /\ Tail(feed) \in Seq(Message)
BY DEF TypeOK

(* The two ways a handler moves the status keep all three in the domain.   *)
LEMMA SetStatusType ==
  ASSUME TypeOK, NEW t \in Transition, NEW held, SetStatus(t, held)
  PROVE  base' \in Status /\ status' \in Status /\ dbStatus' \in Status
<1>1. Apply(base, t) \in Status \union {Ignored}
  BY ApplyType DEF TypeOK
<1>2. CASE Apply(base, t) = Ignored
  BY <1>2 DEF SetStatus, statusVars, TypeOK
<1>3. CASE Apply(base, t) # Ignored
  <2>1. base' \in Status
    BY <1>1, <1>3 DEF SetStatus, TypeOK
  <2>2. WithApprovals(base', held # {}) \in Status
    BY <2>1, WithApprovalsType
  <2>3. status' = WithApprovals(base', held # {})
        /\ dbStatus' = IF status' = status THEN dbStatus ELSE status'
    BY <1>3 DEF SetStatus, Publish
  <2>4. QED
    BY <2>1, <2>2, <2>3 DEF TypeOK
<1>4. QED
  BY <1>2, <1>3

LEMMA SyncApprovalsType ==
  ASSUME TypeOK, NEW held, SyncApprovals(held)
  PROVE  base' \in Status /\ status' \in Status /\ dbStatus' \in Status
BY WithApprovalsType DEF SyncApprovals, Publish, TypeOK

LEMMA CloseInLogType ==
  ASSUME TypeOK, NEW S, CloseInLog(S)
  PROVE  openInLog' \subseteq Prompts /\ outcomes' \in [Prompts -> Nat]
BY DEF CloseInLog, TypeOK

(* Empty channels, and a channel that holds one message.                   *)
LEMMA ShortSeqs ==
  ASSUME NEW S
  PROVE  /\ <<>> \in Seq(S)
         /\ \A m \in S : <<m>> \in Seq(S)
OBVIOUS

LEMMA RestartedType ==
  ASSUME RunnerGone
  PROVE  /\ runner' = "absent" /\ msgs' \in Seq(Message) /\ cmds' \in Seq(Command)
         /\ handshake' \in BOOLEAN /\ outstanding' \in Nat /\ flooded' \in BOOLEAN
         /\ stopRequested' \in BOOLEAN
         /\ child' = "none" /\ waiting' = {} /\ answers' = {}
         /\ feed' \in Seq(Message) /\ exitSent' \in BOOLEAN
BY ShortSeqs DEF RunnerGone

(* What a message or a command names, when it is taken.                    *)
LEMMA TakenType ==
  ASSUME TypeOK, NEW kinds, Takes(kinds)
  PROVE  /\ Head(msgs) \in Message /\ Head(msgs).kind \in kinds
         /\ msgs' \in Seq(Message)
BY Heads DEF Takes

LEMMA TakenCommandType ==
  ASSUME TypeOK, NEW kind, TakesCommand(kind)
  PROVE  Head(cmds) \in Command /\ cmds' \in Seq(Command)
BY Heads DEF TakesCommand

LEMMA InitType ==
  ASSUME Init
  PROVE  TypeOK
<1>1. msgs \in Seq(Message) /\ cmds \in Seq(Command) /\ feed \in Seq(Message)
  BY ShortSeqs DEF Init
<1>2. asks \in [Prompts -> Nat] /\ outcomes \in [Prompts -> Nat]
  BY DEF Init
<1>3. QED
  BY <1>1, <1>2 DEF Init, TypeOK, Status, Terminal

LEMMA NextType ==
  TypeOK /\ [Next]_vars => TypeOK'
<1> SUFFICES ASSUME TypeOK, [Next]_vars PROVE TypeOK'
  OBVIOUS
<1> USE Heads DEF TypeOK, dbVars, runnerVars, controlVars, childVars, promptHistory, statusVars
<1>1. ASSUME NEW first \in BOOLEAN, Launch(first) PROVE TypeOK'
  <2>1. base' \in Status /\ status' \in Status /\ dbStatus' \in Status
    BY <1>1 DEF Launch, LaunchStatus, Apply, LandsOn, Status, Live, Terminal
  <2>2. openInLog' \subseteq Prompts /\ outcomes' \in [Prompts -> Nat]
    BY <1>1, CloseInLogType DEF Launch
  <2>3. msgs' \in Seq(Message) /\ cmds' \in Seq(Command) /\ feed' \in Seq(Message)
    BY <1>1, ShortSeqs DEF Launch
  <2>4. QED
    BY <1>1, <2>1, <2>2, <2>3 DEF Launch
<1>2. CASE LaunchFails
  BY <1>2 DEF LaunchFails, CloseInLog, Status, Terminal
<1>3. CASE ChildPrints
  <2>1. \A k \in RaisedByLine \union {"Handshake", "Answered"} : Msg(k) \in Message
    BY DEF Msg, Message
  <2>2. feed' \in Seq(Message)
    BY <1>3, <2>1, ShortSeqs DEF ChildPrints, Prints, RaisedByLine
  <2>3. QED
    BY <1>3, <2>2 DEF ChildPrints, Prints
<1>4. ASSUME NEW p \in Prompts, ChildAsks(p) PROVE TypeOK'
  BY <1>4 DEF ChildAsks, Prints, AskLine, About, Msg, Message, RaisedByLine, AboutPrompt
<1>5. ASSUME NEW p \in Prompts, ChildWithdraws(p) PROVE TypeOK'
  BY <1>5 DEF ChildWithdraws, Prints, About, Message, AboutPrompt
<1>6. ASSUME NEW p \in Prompts, ChildReadsAnswer(p) PROVE TypeOK'
  BY <1>6 DEF ChildReadsAnswer
<1>7. CASE ChildDies
  BY <1>7 DEF ChildDies
<1>8. CASE ReaderSends
  BY <1>8 DEF ReaderSends
<1>9. CASE ExitReported
  BY <1>9 DEF ExitReported, Msg, Message
<1>10. CASE OnTransition
  <2>1. Head(msgs).kind \in Transition /\ msgs' \in Seq(Message)
    BY <1>10, TakenType DEF OnTransition, RaisedByLine, Transition
  <2>2. base' \in Status /\ status' \in Status /\ dbStatus' \in Status
    BY <1>10, <2>1, SetStatusType DEF OnTransition
  <2>3. QED
    BY <1>10, <2>1, <2>2 DEF OnTransition
<1>11. CASE OnRow
  <2>1. Head(msgs).p \in Prompts /\ msgs' \in Seq(Message)
    BY <1>11, TakenType DEF OnRow, Message, RaisedByLine
  <2>2. QED
    BY <1>11, <2>1 DEF OnRow
<1>12. CASE OnPrompt
  <2>1. Head(msgs).p \in Prompts /\ msgs' \in Seq(Message)
    BY <1>12, TakenType DEF OnPrompt, Message, RaisedByLine
  <2>2. base' \in Status /\ status' \in Status /\ dbStatus' \in Status
    BY <1>12, SyncApprovalsType DEF OnPrompt
  <2>3. QED
    BY <1>12, <2>1, <2>2 DEF OnPrompt
<1>13. CASE OnCancel
  <2>1. msgs' \in Seq(Message)
    BY <1>13, TakenType DEF OnCancel
  <2>2. base' \in Status /\ status' \in Status /\ dbStatus' \in Status
    BY <1>13, SyncApprovalsType DEF OnCancel
  <2>3. openInLog' \subseteq Prompts /\ outcomes' \in [Prompts -> Nat]
    BY <1>13, CloseInLogType DEF OnCancel
  <2>4. QED
    BY <1>13, <2>1, <2>2, <2>3 DEF OnCancel
<1>14. CASE OnHandshake
  <2>1. msgs' \in Seq(Message)
    BY <1>14, TakenType DEF OnHandshake
  <2>2. base' \in Status /\ status' \in Status /\ dbStatus' \in Status
    BY <1>14, SetStatusType DEF OnHandshake, Transition
  <2>3. QED
    BY <1>14, <2>1, <2>2 DEF OnHandshake
<1>15. CASE OnExit
  <2>1. msgs' \in Seq(Message)
    BY <1>15, TakenType DEF OnExit
  <2>2. base' \in Status /\ status' = base' /\ dbStatus' = base'
    BY <1>15, ApplyType DEF OnExit, Transition, Status, Terminal
  <2>3. openInLog' \subseteq Prompts /\ outcomes' \in [Prompts -> Nat]
    BY <1>15, CloseInLogType DEF OnExit
  <2>4. QED
    BY <1>15, <2>1, <2>2, <2>3 DEF OnExit
<1>16. CASE OnSend
  <2>1. cmds' \in Seq(Command)
    BY <1>16, TakenCommandType DEF OnSend
  <2>2. base' \in Status /\ status' \in Status /\ dbStatus' \in Status
    BY <1>16, SetStatusType DEF OnSend, Transition
  <2>3. QED
    BY <1>16, <2>1, <2>2 DEF OnSend
<1>17. CASE OnDecide
  <2>1. Head(cmds).p \in Prompts /\ cmds' \in Seq(Command)
    BY <1>17, TakenCommandType DEF OnDecide, TakesCommand, Command
  <2>2. base' \in Status /\ status' \in Status /\ dbStatus' \in Status
    BY <1>17, SetStatusType DEF OnDecide, Transition
  <2>3. openInLog' \subseteq Prompts /\ outcomes' \in [Prompts -> Nat]
    BY <1>17, CloseInLogType DEF OnDecide
  <2>4. QED
    BY <1>17, <2>1, <2>2, <2>3 DEF OnDecide, Answer
<1>18. CASE OnStop
  BY <1>18 DEF OnStop, TakesCommand
<1>19. CASE FinishTeardown
  BY <1>19, RestartedType DEF FinishTeardown
<1>20. CASE OperatorSends
  BY <1>20 DEF OperatorSends, Operator, Msg, Command
<1>21. CASE OperatorStops
  BY <1>21 DEF OperatorStops, Operator, Msg, Command
<1>22. ASSUME NEW p \in Prompts, OperatorDecides(p) PROVE TypeOK'
  BY <1>22 DEF OperatorDecides, Operator, About, Command
<1>23. CASE ServerRestarts
  BY <1>23, RestartedType DEF ServerRestarts, Status, Terminal
<1>24. CASE OnAnswered
  <2>1. msgs' \in Seq(Message)
    BY <1>24, TakenType DEF OnAnswered
  <2>2. outstanding' \in Nat
    BY <1>24 DEF OnAnswered
  <2>3. QED
    BY <1>24, <2>1, <2>2 DEF OnAnswered
<1>25. CASE OnControl
  <2>1. cmds' \in Seq(Command)
    BY <1>25, TakenCommandType DEF OnControl
  <2>2. outstanding' = outstanding + 1 \/ outstanding' = 1
    BY <1>25 DEF OnControl
  <2>3. handshake' \in BOOLEAN /\ flooded' \in BOOLEAN
    BY <1>25, Zenon DEF OnControl
  <2>4. UNCHANGED <<dbVars, runner, base, status, pending, stopRequested, msgs, childVars,
                    promptHistory>>
    BY <1>25 DEF OnControl
  <2>5. QED
    BY <2>1, <2>2, <2>3, <2>4
<1>26. CASE OperatorInterrupts
  BY <1>26 DEF OperatorInterrupts, Operator, Msg, Command
<1>27. CASE UNCHANGED vars
  BY <1>27 DEF vars
<1>28. QED
  BY <1>1, <1>2, <1>3, <1>4, <1>5, <1>6, <1>7, <1>8, <1>9, <1>10, <1>11, <1>12,
     <1>13, <1>14, <1>15, <1>16, <1>17, <1>18, <1>19, <1>20, <1>21, <1>22, <1>23,
     <1>24, <1>25, <1>26, <1>27 DEF Next, RunnerTakesMessage, RunnerTakesCommand

(* Type correctness of a runner, its channels and its child: whatever      *)
(* interleaves, each variable stays in its domain.                         *)
THEOREM TypeCorrect == Spec => []TypeOK
<1>1. Init => TypeOK
  BY InitType
<1>2. TypeOK /\ [Next]_vars => TypeOK'
  BY NextType
<1>3. QED
  BY <1>1, <1>2, PTL DEF Spec
--------------------------------------------------------------------------------
(* Status, prompts and row.                                                *)

(* What a running agent's status owes its prompts, for a set `held` of     *)
(* them; AwaitingIffHeld is this with the pending map.                     *)
Honest(held) ==
  /\ status = "awaiting_approval" <=> held # {}
  /\ base \in Live \ {"awaiting_approval"}
  /\ dbStatus = status

(* Inductive: the two invariants, and that a runner tearing down has       *)
(* already written the terminal status it will leave behind.               *)
StatusInv ==
  /\ TypeOK
  /\ AwaitingIffHeld
  /\ RowTellsTheTruth
  /\ runner = "tearing_down" => status \in Terminal

LEMMA SetStatusHonest ==
  ASSUME base \in Live \ {"awaiting_approval"}, dbStatus = status,
         NEW t \in RaisedByLine \union {"PermissionResolved"}, NEW held,
         SetStatus(t, held)
  PROVE  /\ status' = "awaiting_approval" <=> held # {}
         /\ base' \in Live \ {"awaiting_approval"}
         /\ dbStatus' = status'
<1>1. Apply(base, t) # Ignored
  BY DEF Apply, LandsOn, Live, Terminal, RaisedByLine, Ignored
<1>2. base' \in Live \ {"awaiting_approval"}
  BY <1>1, ApplyOfLive DEF SetStatus
<1>3. status' = WithApprovals(base', held # {})
      /\ dbStatus' = IF status' = status THEN dbStatus ELSE status'
  BY <1>1 DEF SetStatus, Publish
<1>4. WithApprovals(base', held # {}) = IF held # {} THEN "awaiting_approval" ELSE base'
  BY <1>2, CorrectedLive
<1>5. QED
  BY <1>2, <1>3, <1>4

LEMMA SyncHonest ==
  ASSUME base \in Live \ {"awaiting_approval"}, dbStatus = status, NEW held,
         SyncApprovals(held)
  PROVE  /\ status' = "awaiting_approval" <=> held # {}
         /\ base' \in Live \ {"awaiting_approval"}
         /\ dbStatus' = status'
BY CorrectedLive DEF SyncApprovals, Publish

(* A step that touches neither the runner's phase nor what is published.   *)
LEMMA StatusInvFrame ==
  ASSUME StatusInv, UNCHANGED <<runner, base, status, dbStatus, pending>>
  PROVE  (AwaitingIffHeld /\ RowTellsTheTruth
            /\ (runner = "tearing_down" => status \in Terminal))'
BY DEF StatusInv, AwaitingIffHeld, RowTellsTheTruth, Resumable

(* Base status, published status and row agree after every handler of the  *)
(* runner.                                                                 *)
THEOREM StatusInvHolds == Spec => []StatusInv
<1>1. Init => StatusInv
  <2> SUFFICES ASSUME Init PROVE StatusInv
    OBVIOUS
  <2>1. TypeOK
    BY InitType
  <2>2. QED
    BY <2>1 DEF Init, StatusInv, AwaitingIffHeld, RowTellsTheTruth, Resumable, Terminal
<1>2. StatusInv /\ [Next]_vars => StatusInv'
  <2> SUFFICES ASSUME StatusInv, [Next]_vars PROVE StatusInv'
    OBVIOUS
  <2>t. TypeOK'
    BY NextType DEF StatusInv
  <2>r. ASSUME runner = "running" PROVE Honest(pending)
    BY <2>r DEF StatusInv, AwaitingIffHeld, RowTellsTheTruth, Resumable, Honest
  <2>s. ASSUME UNCHANGED <<runner, base, status, dbStatus, pending>> PROVE StatusInv'
    BY <2>t, <2>s, StatusInvFrame DEF StatusInv
  <2>h. ASSUME runner' = "running",
               /\ status' = "awaiting_approval" <=> pending' # {}
               /\ base' \in Live \ {"awaiting_approval"}
               /\ dbStatus' = status'
        PROVE  StatusInv'
    BY <2>t, <2>h DEF StatusInv, AwaitingIffHeld, RowTellsTheTruth, Resumable
  <2> USE DEF dbVars, runnerVars, controlVars, childVars, promptHistory, statusVars
  <2>1. ASSUME NEW first \in BOOLEAN, Launch(first) PROVE StatusInv'
    <3>1. base' \in {"starting", "working"} /\ status' = base' /\ dbStatus' = base'
      BY <2>1 DEF Launch, LaunchStatus, Apply, LandsOn, Terminal
    <3>2. QED
      BY <2>1, <2>h, <3>1 DEF Launch, Live
  <2>2. CASE LaunchFails
    BY <2>t, <2>2 DEF LaunchFails, StatusInv, AwaitingIffHeld, RowTellsTheTruth, Resumable, Terminal
  <2>3. CASE ChildPrints
    BY <2>s, <2>3 DEF ChildPrints, Prints
  <2>4. ASSUME NEW p \in Prompts, ChildAsks(p) PROVE StatusInv'
    BY <2>s, <2>4 DEF ChildAsks, Prints
  <2>5. ASSUME NEW p \in Prompts, ChildWithdraws(p) PROVE StatusInv'
    BY <2>s, <2>5 DEF ChildWithdraws, Prints
  <2>6. ASSUME NEW p \in Prompts, ChildReadsAnswer(p) PROVE StatusInv'
    BY <2>s, <2>6 DEF ChildReadsAnswer
  <2>7. CASE ChildDies
    BY <2>s, <2>7 DEF ChildDies
  <2>8. CASE ReaderSends
    BY <2>s, <2>8 DEF ReaderSends
  <2>9. CASE ExitReported
    BY <2>s, <2>9 DEF ExitReported
  <2>10. CASE OnTransition
    <3>1. runner = "running" /\ Head(msgs).kind \in RaisedByLine
      BY <2>10 DEF OnTransition, Takes
    <3>2. /\ status' = "awaiting_approval" <=> pending # {}
          /\ base' \in Live \ {"awaiting_approval"}
          /\ dbStatus' = status'
      BY <2>10, <2>r, <3>1, SetStatusHonest DEF OnTransition, Honest
    <3>3. QED
      BY <2>10, <2>h, <3>1, <3>2 DEF OnTransition
  <2>11. CASE OnRow
    BY <2>s, <2>11 DEF OnRow
  <2>12. CASE OnPrompt
    <3>1. runner = "running" /\ runner' = "running"
      BY <2>12 DEF OnPrompt, Takes
    <3>2. CASE Head(msgs).p \in pending
      BY <2>12, <2>s, <3>2 DEF OnPrompt
    <3>3. CASE Head(msgs).p \notin pending
      BY <2>12, <2>r, <2>h, <3>1, <3>3, SyncHonest DEF OnPrompt, Honest
    <3>4. QED
      BY <3>2, <3>3
  <2>13. CASE OnCancel
    <3>1. runner = "running" /\ runner' = "running"
      BY <2>13 DEF OnCancel, Takes
    <3>2. CASE Head(msgs).p \notin pending
      BY <2>13, <2>s, <3>2 DEF OnCancel
    <3>3. CASE Head(msgs).p \in pending
      BY <2>13, <2>r, <2>h, <3>1, <3>3, SyncHonest DEF OnCancel, Honest
    <3>4. QED
      BY <3>2, <3>3
  <2>14. CASE OnHandshake
    <3>1. runner = "running" /\ runner' = "running"
      BY <2>14 DEF OnHandshake, Takes
    <3>2. CASE ~handshake
      BY <2>14, <2>s, <3>2 DEF OnHandshake
    <3>3. CASE handshake
      <4>1. SetStatus("Initialized", pending) /\ pending' = pending
        BY <2>14, <3>3 DEF OnHandshake
      <4>2. /\ status' = "awaiting_approval" <=> pending # {}
            /\ base' \in Live \ {"awaiting_approval"}
            /\ dbStatus' = status'
        BY <2>r, <3>1, <4>1, SetStatusHonest DEF Honest, RaisedByLine
      <4>3. QED
        BY <2>h, <3>1, <4>1, <4>2
    <3>4. QED
      BY <3>2, <3>3
  <2>15. CASE OnExit
    <3>1. base \in Live /\ runner' = "tearing_down" /\ status' = base' /\ dbStatus' = base'
      BY <2>15, <2>r DEF OnExit, Takes, Honest
    <3>2. base' \in Terminal
      BY <2>15, <3>1 DEF OnExit, Apply, LandsOn, Live, Terminal, Ignored
    <3>3. QED
      BY <2>t, <3>1, <3>2 DEF StatusInv, AwaitingIffHeld, RowTellsTheTruth, Resumable
  <2>16. CASE OnSend
    <3>1. runner = "running" /\ runner' = "running" /\ SetStatus("TurnStarted", pending)
          /\ pending' = pending
      BY <2>16 DEF OnSend, TakesCommand
    <3>2. /\ status' = "awaiting_approval" <=> pending # {}
          /\ base' \in Live \ {"awaiting_approval"}
          /\ dbStatus' = status'
      BY <2>r, <3>1, SetStatusHonest DEF Honest, RaisedByLine
    <3>3. QED
      BY <2>h, <3>1, <3>2
  <2>17. CASE OnDecide
    <3>1. runner = "running" /\ runner' = "running"
      BY <2>17 DEF OnDecide, TakesCommand
    <3>2. CASE Head(cmds).p \notin pending
      BY <2>17, <2>s, <3>2 DEF OnDecide
    <3>3. CASE Head(cmds).p \in pending
      <4>1. SetStatus("PermissionResolved", pending')
        BY <2>17, <3>3 DEF OnDecide
      <4>2. /\ status' = "awaiting_approval" <=> pending' # {}
            /\ base' \in Live \ {"awaiting_approval"}
            /\ dbStatus' = status'
        BY <2>r, <3>1, <4>1, SetStatusHonest DEF Honest
      <4>3. QED
        BY <2>h, <3>1, <4>2
    <3>4. QED
      BY <3>2, <3>3
  <2>18. CASE OnStop
    BY <2>s, <2>18 DEF OnStop
  <2>19. CASE FinishTeardown
    BY <2>t, <2>19 DEF FinishTeardown, RunnerGone, StatusInv, AwaitingIffHeld,
                       RowTellsTheTruth, Resumable
  <2>20. CASE OperatorSends
    BY <2>s, <2>20 DEF OperatorSends, Operator
  <2>21. CASE OperatorStops
    BY <2>s, <2>21 DEF OperatorStops, Operator
  <2>22. ASSUME NEW p \in Prompts, OperatorDecides(p) PROVE StatusInv'
    BY <2>s, <2>22 DEF OperatorDecides, Operator
  <2>23. CASE ServerRestarts
    BY <2>t, <2>23 DEF ServerRestarts, RunnerGone, StatusInv, AwaitingIffHeld,
                       RowTellsTheTruth, Resumable, Terminal
  <2>24. CASE OnAnswered
    BY <2>s, <2>24 DEF OnAnswered
  <2>25. CASE OnControl
    BY <2>s, <2>25 DEF OnControl
  <2>26. CASE OperatorInterrupts
    BY <2>s, <2>26 DEF OperatorInterrupts, Operator
  <2>27. CASE UNCHANGED vars
    BY <2>s, <2>27 DEF vars
  <2>28. QED
    BY <2>1, <2>2, <2>3, <2>4, <2>5, <2>6, <2>7, <2>8, <2>9, <2>10, <2>11, <2>12,
       <2>13, <2>14, <2>15, <2>16, <2>17, <2>18, <2>19, <2>20, <2>21, <2>22, <2>23,
       <2>24, <2>25, <2>26, <2>27 DEF Next, RunnerTakesMessage, RunnerTakesCommand
<1>3. QED
  BY <1>1, <1>2, PTL DEF Spec

(* The status a running agent shows is awaiting_approval exactly while its *)
(* runner holds a prompt: Runner::set_status, sync_approvals, withdraw and *)
(* decide leave no order of messages and commands in which it is not.      *)
THEOREM AwaitingIffHeldHolds == Spec => []AwaitingIffHeld
BY StatusInvHolds, PTL DEF StatusInv

(* The row never disagrees with the runner, and is terminal when there is  *)
(* no runner, so a crash at any point leaves a resumable agent.            *)
THEOREM RowTellsTheTruthHolds == Spec => []RowTellsTheTruth
BY StatusInvHolds, PTL DEF StatusInv

--------------------------------------------------------------------------------
(* The prompts, from the line that asks one to its outcome in the log.  A  *)
(* prompt is told of by two messages, its row and itself.  The log opens   *)
(* it at the first and the runner holds it at the second, so between the   *)
(* two, and whenever the queue is thrown away, log and runner differ.  The *)
(* invariant follows both messages through the reader and the queue.       *)


(* A message waits in a sequence; the row of a prompt is yet to be taken.  *)
In(s, m) == \E i \in DOMAIN s : s[i] = m
Rowed(p) == In(msgs, About("Row", p)) \/ feed = AskLine(p)
ToCome(p) ==
  In(msgs, About("Prompt", p)) \/ feed = AskLine(p) \/ feed = Tail(AskLine(p))

(* What is left of a line, once the reader is at it.                       *)
FeedShape ==
  \/ feed = <<>>
  \/ \E k \in RaisedByLine \union {"Handshake", "Answered"} : feed = <<Msg(k)>>
  \/ \E p \in Prompts : \/ feed = <<About("Cancel", p)>> \/ feed = AskLine(p)
                        \/ feed = Tail(AskLine(p))

(* A prompt's row goes before it.                                          *)
RowsLead ==
  \A p \in Prompts : \A i \in DOMAIN msgs :
    msgs[i] = About("Row", p) =>
      \/ feed = Tail(AskLine(p))
      \/ \E j \in DOMAIN msgs : j > i /\ msgs[j] = About("Prompt", p)

(* One that was asked once is told of once.                                *)
Once(p) ==
  /\ \A kind \in {"Row", "Prompt"} : \A i, j \in DOMAIN msgs :
       msgs[i] = About(kind, p) /\ msgs[j] = About(kind, p) => i = j
  /\ In(msgs, About("Row", p)) => feed # AskLine(p)
  /\ In(msgs, About("Prompt", p)) => feed # AskLine(p) /\ feed # Tail(AskLine(p))

QueueInv == FeedShape /\ RowsLead /\ \A p \in Prompts : asks[p] = 1 => Once(p)

(* One that was never asked has left no trace.                             *)
Unasked(p) ==
  /\ ~Rowed(p) /\ ~ToCome(p)
  /\ p \notin openInLog /\ p \notin pending /\ p \notin waiting /\ outcomes[p] = 0

(* One that was asked once is with its row, then in the log, and once it   *)
(* is held in both; it has no outcome until then, and one at most.         *)
AskedOnce(p) ==
  /\ Rowed(p) => p \notin openInLog /\ p \notin pending /\ outcomes[p] = 0
  /\ ToCome(p) => p \notin pending /\ (Rowed(p) \/ p \in openInLog)
  /\ p \in pending => p \in openInLog
  /\ p \in openInLog => outcomes[p] = 0
  /\ outcomes[p] <= 1

(* Whatever the runner holds or is yet to be told of, and every answer on  *)
(* its way, is of the present child's asking.                              *)
Own ==
  /\ pending \subseteq mine /\ answers \subseteq mine
  /\ \A p \in Prompts : ToCome(p) => p \in mine

(* With no runner there is no child, and nothing on its way.               *)
Gone == msgs = <<>> /\ feed = <<>> /\ child = "none"

PromptInv ==
  /\ TypeOK
  /\ QueueInv
  /\ Own
  /\ runner # "running" => pending = {}
  /\ runner = "absent" => Gone
  /\ runner = "running" => \A p \in openInLog : p \in pending \/ ToCome(p)
  /\ \A p \in Prompts : /\ asks[p] = 0 => Unasked(p)
                        /\ asks[p] = 1 => AskedOnce(p)

--------------------------------------------------------------------------------
(* Lines and queues.                                                       *)

LEMMA Messages ==
  ASSUME NEW p \in Prompts
  PROVE  /\ About("Row", p) \in Message /\ About("Prompt", p) \in Message
         /\ About("Cancel", p) \in Message /\ About("Row", p) # About("Prompt", p)
         /\ \A q \in Prompts : p # q =>
              About("Row", p) # About("Row", q) /\ About("Prompt", p) # About("Prompt", q)
         /\ \A q \in Prompts : About("Cancel", q) \notin {About("Row", p), About("Prompt", p)}
         /\ \A k \in RaisedByLine \union {"Handshake", "Answered", "Exited"} :
              /\ Msg(k) \in Message
              /\ Msg(k) \notin {About("Row", p), About("Prompt", p)}
BY DEF About, Msg, Message, AboutPrompt, RaisedByLine

LEMMA Lines ==
  ASSUME NEW p \in Prompts
  PROVE  /\ AskLine(p) \in Seq(Message) /\ Len(AskLine(p)) = 3
         /\ Head(AskLine(p)) = About("Row", p)
         /\ Tail(AskLine(p)) = <<About("Prompt", p), Msg("PermissionRequested")>>
         /\ Len(Tail(AskLine(p))) = 2
         /\ Head(Tail(AskLine(p))) = About("Prompt", p)
         /\ Tail(Tail(AskLine(p))) = <<Msg("PermissionRequested")>>
BY Messages DEF AskLine, RaisedByLine

(* A line tells which prompt it is about, and how much of it is left.      *)
LEMMA LinesDiffer ==
  ASSUME NEW p \in Prompts, NEW q \in Prompts
  PROVE  /\ AskLine(p) # <<>> /\ Tail(AskLine(p)) # <<>> /\ AskLine(p) # Tail(AskLine(q))
         /\ AskLine(p) = AskLine(q) => p = q
         /\ Tail(AskLine(p)) = Tail(AskLine(q)) => p = q
         /\ \A m : AskLine(p) # <<m>> /\ Tail(AskLine(p)) # <<m>>
<1>1. /\ Len(AskLine(p)) = 3 /\ Len(Tail(AskLine(p))) = 2 /\ Len(Tail(AskLine(q))) = 2
  BY Lines
<1>2. Len(<<>>) = 0 /\ \A m : Len(<<m>>) = 1
  OBVIOUS
<1>3. AskLine(p) = AskLine(q) => About("Row", p) = About("Row", q)
  BY Lines
<1>4. Tail(AskLine(p)) = Tail(AskLine(q)) => About("Prompt", p) = About("Prompt", q)
  BY Lines
<1>n. 3 # 0 /\ 3 # 1 /\ 3 # 2 /\ 2 # 0 /\ 2 # 1
  OBVIOUS
<1>5. AskLine(p) # <<>> /\ Tail(AskLine(p)) # <<>> /\ AskLine(p) # Tail(AskLine(q))
  BY <1>1, <1>2, <1>n, Zenon
<1>6. ASSUME NEW m PROVE AskLine(p) # <<m>> /\ Tail(AskLine(p)) # <<m>>
  BY <1>1, <1>2, <1>n, Zenon
<1>7. p # q => About("Row", p) # About("Row", q) /\ About("Prompt", p) # About("Prompt", q)
  BY Messages
<1>8. QED
  BY <1>3, <1>4, <1>5, <1>6, <1>7

LEMMA InTail ==
  ASSUME NEW s \in Seq(Message), s # <<>>, NEW m
  PROVE  In(s, m) <=> Head(s) = m \/ In(Tail(s), m)
<1>1. /\ Len(s) \in Nat /\ Len(s) > 0 /\ DOMAIN s = 1..Len(s) /\ Head(s) = s[1]
      /\ DOMAIN Tail(s) = 1..(Len(s) - 1) /\ \A i \in 1..(Len(s) - 1) : Tail(s)[i] = s[i + 1]
  OBVIOUS
<1>2. ASSUME NEW i \in DOMAIN s, s[i] = m PROVE Head(s) = m \/ In(Tail(s), m)
  <2>1. CASE i = 1
    BY <1>1, <1>2, <2>1
  <2>2. CASE i # 1
    <3>1. i - 1 \in DOMAIN Tail(s) /\ Tail(s)[i - 1] = m
      BY <1>1, <1>2, <2>2
    <3>2. QED
      BY <3>1 DEF In
  <2>3. QED
    BY <2>1, <2>2
<1>3. ASSUME NEW i \in DOMAIN Tail(s), Tail(s)[i] = m PROVE In(s, m)
  <2>1. i + 1 \in DOMAIN s /\ s[i + 1] = m
    BY <1>1, <1>3
  <2>2. QED
    BY <2>1 DEF In
<1>4. Head(s) = m => In(s, m)
  BY <1>1 DEF In
<1>5. QED
  BY <1>2, <1>3, <1>4 DEF In

LEMMA InAppend ==
  ASSUME NEW s \in Seq(Message), NEW x \in Message, NEW m
  PROVE  In(Append(s, x), m) <=> In(s, m) \/ x = m
<1>1. /\ Len(s) \in Nat /\ DOMAIN s = 1..Len(s) /\ DOMAIN Append(s, x) = 1..(Len(s) + 1)
      /\ \A i \in 1..Len(s) : Append(s, x)[i] = s[i]
      /\ Append(s, x)[Len(s) + 1] = x
  OBVIOUS
<1>2. QED
  BY <1>1 DEF In

LEMMA InEmpty == \A m : ~In(<<>>, m)
BY DEF In

(* Taking the head of the queue.                                           *)
LEMMA TakeHead ==
  ASSUME TypeOK, QueueInv, msgs # <<>>, msgs' = Tail(msgs), UNCHANGED <<feed, asks>>
  PROVE  /\ QueueInv'
         /\ \A p \in Prompts :
              /\ Rowed(p)' => Rowed(p)
              /\ ToCome(p)' => ToCome(p)
              /\ Head(msgs) # About("Row", p) => (Rowed(p) => Rowed(p)')
              /\ Head(msgs) # About("Prompt", p) => (ToCome(p) => ToCome(p)')
              /\ Head(msgs) = About("Row", p) => /\ ToCome(p)'
                                                 /\ asks[p] = 1 => ~Rowed(p)'
              /\ Head(msgs) = About("Prompt", p) /\ asks[p] = 1 => ~Rowed(p) /\ ~ToCome(p)'
<1>1. /\ msgs \in Seq(Message) /\ Len(msgs) \in Nat /\ Len(msgs) > 0
      /\ DOMAIN msgs = 1..Len(msgs) /\ Head(msgs) = msgs[1]
      /\ DOMAIN msgs' = 1..(Len(msgs) - 1)
      /\ \A i \in 1..(Len(msgs) - 1) : msgs'[i] = msgs[i + 1]
  BY DEF TypeOK
<1>2. \A m : In(msgs, m) <=> Head(msgs) = m \/ In(msgs', m)
  BY <1>1, InTail
<1>3. RowsLead'
  <2> SUFFICES ASSUME NEW p \in Prompts, NEW i \in DOMAIN msgs', msgs'[i] = About("Row", p),
                      feed # Tail(AskLine(p))
               PROVE  \E j \in DOMAIN msgs' : j > i /\ msgs'[j] = About("Prompt", p)
    BY DEF RowsLead
  <2>1. i + 1 \in DOMAIN msgs /\ msgs[i + 1] = About("Row", p)
    BY <1>1
  <2>2. PICK j \in DOMAIN msgs : j > i + 1 /\ msgs[j] = About("Prompt", p)
    BY <2>1 DEF QueueInv, RowsLead
  <2>3. j - 1 \in DOMAIN msgs' /\ j - 1 > i /\ msgs'[j - 1] = About("Prompt", p)
    BY <1>1, <2>2
  <2>4. QED
    BY <2>3
<1>4. ASSUME NEW p \in Prompts, asks[p] = 1 PROVE Once(p)'
  <2>1. Once(p)
    BY <1>4 DEF QueueInv
  <2>2. ASSUME NEW kind \in {"Row", "Prompt"}, NEW i \in DOMAIN msgs', NEW j \in DOMAIN msgs',
               msgs'[i] = About(kind, p), msgs'[j] = About(kind, p)
        PROVE  i = j
    <3>1. /\ i + 1 \in DOMAIN msgs /\ msgs[i + 1] = About(kind, p)
          /\ j + 1 \in DOMAIN msgs /\ msgs[j + 1] = About(kind, p)
      BY <1>1, <2>2
    <3>2. i + 1 = j + 1
      BY <2>1, <3>1 DEF Once
    <3>3. QED
      BY <1>1, <3>2
  <2>3. QED
    BY <1>2, <2>1, <2>2 DEF Once
<1>5. QueueInv'
  BY <1>3, <1>4 DEF QueueInv, FeedShape
<1>6. ASSUME NEW p \in Prompts
      PROVE  /\ Rowed(p)' => Rowed(p)
             /\ ToCome(p)' => ToCome(p)
             /\ Head(msgs) # About("Row", p) => (Rowed(p) => Rowed(p)')
             /\ Head(msgs) # About("Prompt", p) => (ToCome(p) => ToCome(p)')
  BY <1>2 DEF Rowed, ToCome
(* Of one that was asked once, what follows the head is not the head.      *)
<1>7. ASSUME NEW p \in Prompts, asks[p] = 1, NEW kind \in {"Row", "Prompt"},
             Head(msgs) = About(kind, p)
      PROVE  ~In(msgs', About(kind, p))
  <2> SUFFICES ASSUME NEW i \in DOMAIN msgs', msgs'[i] = About(kind, p) PROVE FALSE
    BY DEF In
  <2>1. i + 1 \in DOMAIN msgs /\ msgs[i + 1] = About(kind, p) /\ i + 1 # 1
        /\ 1 \in DOMAIN msgs /\ msgs[1] = About(kind, p)
    BY <1>1, <1>7
  <2>2. QED
    BY <1>7, <2>1 DEF QueueInv, Once
<1>8. ASSUME NEW p \in Prompts, Head(msgs) = About("Row", p)
      PROVE  ToCome(p)' /\ (asks[p] = 1 => ~Rowed(p)')
  <2>1. In(msgs, About("Row", p)) /\ 1 \in DOMAIN msgs /\ msgs[1] = About("Row", p)
    BY <1>1, <1>8 DEF In
  <2>2. ToCome(p)
    BY <2>1 DEF QueueInv, RowsLead, ToCome, In
  <2>3. ToCome(p)'
    BY <1>6, <1>8, <2>2, Messages
  <2>4. asks[p] = 1 => ~Rowed(p)'
    BY <1>7, <1>8, <2>1 DEF Rowed, QueueInv, Once
  <2>5. QED
    BY <2>3, <2>4
<1>9. ASSUME NEW p \in Prompts, Head(msgs) = About("Prompt", p), asks[p] = 1
      PROVE  ~Rowed(p) /\ ~ToCome(p)'
  <2>1. Once(p) /\ In(msgs, About("Prompt", p))
    BY <1>2, <1>9 DEF QueueInv
  <2>2. ~In(msgs, About("Row", p))
    <3> SUFFICES ASSUME NEW i \in DOMAIN msgs, msgs[i] = About("Row", p) PROVE FALSE
      BY DEF In
    <3>1. PICK j \in DOMAIN msgs : j > i /\ msgs[j] = About("Prompt", p)
      BY <2>1 DEF QueueInv, RowsLead, Once
    <3>2. 1 \in DOMAIN msgs /\ msgs[1] = About("Prompt", p) /\ j # 1
      BY <1>1, <1>9, <3>1
    <3>3. QED
      BY <2>1, <3>1, <3>2 DEF Once
  <2>3. QED
    BY <1>7, <1>9, <2>1, <2>2 DEF Rowed, ToCome, Once
<1>10. QED
  BY <1>5, <1>6, <1>8, <1>9

(* A message about no prompt's row or coming joins the queue.              *)
LEMMA JoinOther ==
  ASSUME TypeOK, QueueInv, NEW x \in Message, msgs' = Append(msgs, x), UNCHANGED <<feed, asks>>,
         \A p \in Prompts : x \notin {About("Row", p), About("Prompt", p)}
  PROVE  QueueInv' /\ \A p \in Prompts : (Rowed(p)' <=> Rowed(p)) /\ (ToCome(p)' <=> ToCome(p))
<1>1. /\ msgs \in Seq(Message) /\ Len(msgs) \in Nat /\ DOMAIN msgs = 1..Len(msgs)
      /\ DOMAIN msgs' = 1..(Len(msgs) + 1)
      /\ \A i \in 1..Len(msgs) : msgs'[i] = msgs[i]
      /\ msgs'[Len(msgs) + 1] = x
  BY DEF TypeOK
<1>2. \A m : In(msgs', m) <=> In(msgs, m) \/ x = m
  BY <1>1, InAppend
<1>3. RowsLead'
  BY <1>1 DEF QueueInv, RowsLead
<1>4. ASSUME NEW p \in Prompts, asks[p] = 1 PROVE Once(p)'
  <2>1. Once(p)
    BY <1>4 DEF QueueInv
  <2>2. \A kind \in {"Row", "Prompt"} : \A i \in DOMAIN msgs' :
          msgs'[i] = About(kind, p) => i \in DOMAIN msgs /\ msgs[i] = About(kind, p)
    BY <1>1
  <2>3. QED
    BY <1>2, <2>1, <2>2 DEF Once
<1>5. QED
  BY <1>2, <1>3, <1>4 DEF QueueInv, FeedShape, Rowed, ToCome

(* The reader passes a message of its line on.                             *)
LEMMA ReaderKeepsQueue ==
  ASSUME TypeOK, QueueInv, ReaderSends
  PROVE  QueueInv' /\ \A p \in Prompts : (Rowed(p)' <=> Rowed(p)) /\ (ToCome(p)' <=> ToCome(p))
<1> DEFINE x == Head(feed)
<1>1. /\ feed # <<>> /\ x \in Message /\ msgs' = Append(msgs, x) /\ feed' = Tail(feed)
      /\ asks' = asks
  BY Heads DEF ReaderSends, promptHistory
<1>2. /\ msgs \in Seq(Message) /\ Len(msgs) \in Nat /\ DOMAIN msgs = 1..Len(msgs)
      /\ DOMAIN msgs' = 1..(Len(msgs) + 1)
      /\ \A i \in 1..Len(msgs) : msgs'[i] = msgs[i]
      /\ msgs'[Len(msgs) + 1] = x
  BY <1>1 DEF TypeOK
<1>3. \A m : In(msgs', m) <=> In(msgs, m) \/ x = m
  BY <1>1, <1>2, InAppend
<1> HIDE DEF x
<1>4. CASE \E m : feed = <<m>> /\ \A p \in Prompts : m \notin {About("Row", p), About("Prompt", p)}
  <2>1. PICK m : feed = <<m>> /\ \A p \in Prompts : m \notin {About("Row", p), About("Prompt", p)}
    BY <1>4
  <2>2. x = m /\ feed' = <<>>
    BY <1>1, <2>1 DEF x
  <2>3. \A p \in Prompts : /\ feed # AskLine(p) /\ feed # Tail(AskLine(p))
                           /\ feed' # AskLine(p) /\ feed' # Tail(AskLine(p))
    BY <2>1, <2>2, LinesDiffer
  <2>4. RowsLead'
    BY <1>2, <2>1, <2>2, <2>3 DEF QueueInv, RowsLead
  <2>5. ASSUME NEW p \in Prompts, asks[p] = 1 PROVE Once(p)'
    <3>1. Once(p)
      BY <1>1, <2>5 DEF QueueInv
    <3>2. \A kind \in {"Row", "Prompt"} : \A i \in DOMAIN msgs' :
            msgs'[i] = About(kind, p) => i \in DOMAIN msgs /\ msgs[i] = About(kind, p)
      BY <1>2, <2>1, <2>2
    <3>3. QED
      BY <2>3, <3>1, <3>2 DEF Once
  <2>6. QED
    BY <1>1, <1>3, <2>1, <2>2, <2>3, <2>4, <2>5 DEF QueueInv, FeedShape, Rowed, ToCome
<1>5. ASSUME NEW p \in Prompts, feed = AskLine(p)
      PROVE  QueueInv' /\ \A q \in Prompts : (Rowed(q)' <=> Rowed(q)) /\ (ToCome(q)' <=> ToCome(q))
  <2>1. x = About("Row", p) /\ feed' = Tail(AskLine(p))
    BY <1>1, <1>5, Lines DEF x
  <2>2. RowsLead'
    <3> SUFFICES ASSUME NEW q \in Prompts, NEW i \in DOMAIN msgs', msgs'[i] = About("Row", q),
                        feed' # Tail(AskLine(q))
                 PROVE  \E j \in DOMAIN msgs' : j > i /\ msgs'[j] = About("Prompt", q)
      BY DEF RowsLead
    <3>1. q # p
      BY <2>1
    <3>2. i \in DOMAIN msgs /\ msgs[i] = About("Row", q)
      BY <1>2, <2>1, <3>1, Messages
    <3>3. feed # Tail(AskLine(q))
      BY <1>5, LinesDiffer
    <3>4. PICK j \in DOMAIN msgs : j > i /\ msgs[j] = About("Prompt", q)
      BY <3>2, <3>3 DEF QueueInv, RowsLead
    <3>5. QED
      BY <1>2, <3>4
  <2>3. ASSUME NEW q \in Prompts, asks[q] = 1 PROVE Once(q)'
    <3>1. Once(q)
      BY <1>1, <2>3 DEF QueueInv
    <3>2. \A kind \in {"Row", "Prompt"} : \A i \in DOMAIN msgs' :
            msgs'[i] = About(kind, q) =>
              \/ i \in DOMAIN msgs /\ msgs[i] = About(kind, q)
              \/ i = Len(msgs) + 1 /\ About(kind, q) = About("Row", p)
      BY <1>2, <2>1
    <3>3. CASE q # p
      <4>1. \A kind \in {"Row", "Prompt"} : About(kind, q) # About("Row", p)
        BY <3>3, Messages DEF About
      <4>2. feed' # AskLine(q) /\ feed' # Tail(AskLine(q))
        BY <2>1, <3>3, LinesDiffer
      <4>3. QED
        BY <3>1, <3>2, <4>1, <4>2 DEF Once
    <3>4. CASE q = p
      <4>1. ~In(msgs, About("Row", p)) /\ ~In(msgs, About("Prompt", p))
        BY <1>5, <3>1, <3>4 DEF Once
      <4>2. ~In(msgs', About("Prompt", p))
        BY <1>3, <2>1, <4>1, Messages
      <4>3. feed' # AskLine(p)
        BY <2>1, LinesDiffer
      <4>4. \A i \in DOMAIN msgs' : msgs'[i] = About("Row", p) => i = Len(msgs) + 1
        BY <1>2, <4>1 DEF In
      <4>5. \A i \in DOMAIN msgs' : msgs'[i] # About("Prompt", p)
        BY <4>2 DEF In
      <4>6. QED
        BY <3>4, <4>2, <4>3, <4>4, <4>5 DEF Once
    <3>5. QED
      BY <3>3, <3>4
  <2>4. ASSUME NEW q \in Prompts
        PROVE  (Rowed(q)' <=> Rowed(q)) /\ (ToCome(q)' <=> ToCome(q))
    <3>1. /\ feed' # AskLine(q) /\ (feed' = Tail(AskLine(q)) <=> q = p)
          /\ (feed = AskLine(q) <=> q = p) /\ feed # Tail(AskLine(q))
      BY <1>5, <2>1, LinesDiffer
    <3>2. About("Row", p) = About("Row", q) <=> p = q
      BY Messages
    <3>3. About("Row", p) # About("Prompt", q)
      BY DEF About
    <3>4. Rowed(q)' <=> Rowed(q)
      BY <1>3, <2>1, <3>1, <3>2 DEF Rowed
    <3>5. ToCome(q)' <=> ToCome(q)
      BY <1>3, <2>1, <3>1, <3>3 DEF ToCome
    <3>6. QED
      BY <3>4, <3>5
  <2>5. FeedShape'
    BY <2>1 DEF FeedShape
  <2>6. QED
    BY <1>1, <2>2, <2>3, <2>4, <2>5 DEF QueueInv
<1>6. ASSUME NEW p \in Prompts, feed = Tail(AskLine(p))
      PROVE  QueueInv' /\ \A q \in Prompts : (Rowed(q)' <=> Rowed(q)) /\ (ToCome(q)' <=> ToCome(q))
  <2>1. x = About("Prompt", p) /\ feed' = <<Msg("PermissionRequested")>>
    BY <1>1, <1>6, Lines DEF x
  <2>f. \A q \in Prompts : feed' # AskLine(q) /\ feed' # Tail(AskLine(q))
    BY <2>1, LinesDiffer
  <2>2. RowsLead'
    <3> SUFFICES ASSUME NEW q \in Prompts, NEW i \in DOMAIN msgs', msgs'[i] = About("Row", q)
                 PROVE  \E j \in DOMAIN msgs' : j > i /\ msgs'[j] = About("Prompt", q)
      BY DEF RowsLead
    <3>1. i \in DOMAIN msgs /\ msgs[i] = About("Row", q)
      BY <1>2, <2>1 DEF About
    <3>2. CASE q = p
      BY <1>2, <2>1, <3>1, <3>2
    <3>3. CASE q # p
      <4>1. feed # Tail(AskLine(q))
        BY <1>6, <3>3, LinesDiffer
      <4>2. PICK j \in DOMAIN msgs : j > i /\ msgs[j] = About("Prompt", q)
        BY <3>1, <4>1 DEF QueueInv, RowsLead
      <4>3. QED
        BY <1>2, <4>2
    <3>4. QED
      BY <3>2, <3>3
  <2>3. ASSUME NEW q \in Prompts, asks[q] = 1 PROVE Once(q)'
    <3>1. Once(q)
      BY <1>1, <2>3 DEF QueueInv
    <3>2. \A kind \in {"Row", "Prompt"} : \A i \in DOMAIN msgs' :
            msgs'[i] = About(kind, q) =>
              \/ i \in DOMAIN msgs /\ msgs[i] = About(kind, q)
              \/ i = Len(msgs) + 1 /\ About(kind, q) = About("Prompt", p)
      BY <1>2, <2>1
    <3>3. CASE q # p
      <4>1. \A kind \in {"Row", "Prompt"} : About(kind, q) # About("Prompt", p)
        BY <3>3, Messages DEF About
      <4>2. QED
        BY <2>f, <3>1, <3>2, <4>1 DEF Once
    <3>4. CASE q = p
      <4>1. ~In(msgs, About("Prompt", p))
        BY <1>6, <3>1, <3>4 DEF Once
      <4>2. \A i \in DOMAIN msgs' : msgs'[i] = About("Prompt", p) => i = Len(msgs) + 1
        BY <1>2, <4>1 DEF In
      <4>3. \A i \in DOMAIN msgs' : msgs'[i] = About("Row", p) =>
              i \in DOMAIN msgs /\ msgs[i] = About("Row", p)
        BY <1>2, <2>1, Messages
      <4>4. \A i, j \in DOMAIN msgs' :
              msgs'[i] = About("Row", p) /\ msgs'[j] = About("Row", p) => i = j
        BY <3>1, <3>4, <4>3 DEF Once
      <4>5. QED
        BY <2>f, <3>4, <4>2, <4>4 DEF Once
    <3>5. QED
      BY <3>3, <3>4
  <2>4. ASSUME NEW q \in Prompts
        PROVE  (Rowed(q)' <=> Rowed(q)) /\ (ToCome(q)' <=> ToCome(q))
    <3>1. (feed = Tail(AskLine(q)) <=> q = p) /\ feed # AskLine(q)
      BY <1>6, LinesDiffer
    <3>2. About("Prompt", p) = About("Prompt", q) <=> p = q
      BY Messages
    <3>3. About("Prompt", p) # About("Row", q)
      BY DEF About
    <3>4. Rowed(q)' <=> Rowed(q)
      BY <1>3, <2>1, <2>f, <3>1, <3>3 DEF Rowed
    <3>5. ToCome(q)' <=> ToCome(q)
      BY <1>3, <2>1, <2>f, <3>1, <3>2 DEF ToCome
    <3>6. QED
      BY <3>4, <3>5
  <2>5. "PermissionRequested" \in RaisedByLine \union {"Handshake", "Answered"}
    BY DEF RaisedByLine
  <2>6. FeedShape'
    BY <2>1, <2>5 DEF FeedShape
  <2>7. QED
    BY <1>1, <2>2, <2>3, <2>4, <2>6 DEF QueueInv
<1>7. ASSUME NEW m, feed = <<m>>,
             \/ \E k \in RaisedByLine \union {"Handshake", "Answered"} : m = Msg(k)
             \/ \E p \in Prompts : m = About("Cancel", p)
      PROVE  \A p \in Prompts : m \notin {About("Row", p), About("Prompt", p)}
  BY <1>7, Messages
<1>8. QED
  BY <1>1, <1>4, <1>5, <1>6, <1>7 DEF QueueInv, FeedShape

(* A line of one message, about no prompt's row or coming, is printed.     *)
LEMMA PrintsOther ==
  ASSUME QueueInv, feed = <<>>, UNCHANGED <<msgs, asks>>, NEW m, feed' = <<m>>, FeedShape'
  PROVE  QueueInv' /\ \A p \in Prompts : (Rowed(p)' <=> Rowed(p)) /\ (ToCome(p)' <=> ToCome(p))
<1>1. \A p \in Prompts : /\ feed' # AskLine(p) /\ feed' # Tail(AskLine(p))
                         /\ feed # AskLine(p) /\ feed # Tail(AskLine(p))
  BY LinesDiffer
<1>2. RowsLead'
  BY <1>1 DEF QueueInv, RowsLead
<1>3. \A p \in Prompts : asks[p] = 1 => Once(p)'
  BY <1>1 DEF QueueInv, Once
<1>4. QED
  BY <1>1, <1>2, <1>3 DEF QueueInv, Rowed, ToCome

(* A prompt is asked: its row and it are on their way, and no other's.     *)
LEMMA PrintsAsk ==
  ASSUME QueueInv, feed = <<>>, msgs' = msgs, NEW p \in Prompts, feed' = AskLine(p),
         asks' = [asks EXCEPT ![p] = @ + 1], asks \in [Prompts -> Nat],
         asks[p] = 1 \/ (asks[p] = 0 /\ ~Rowed(p) /\ ~ToCome(p))
  PROVE  /\ QueueInv' /\ Rowed(p)' /\ ToCome(p)'
         /\ \A q \in Prompts \ {p} : (Rowed(q)' <=> Rowed(q)) /\ (ToCome(q)' <=> ToCome(q))
<1>1. \A q \in Prompts : /\ feed # AskLine(q) /\ feed # Tail(AskLine(q))
                         /\ feed' # Tail(AskLine(q)) /\ (feed' = AskLine(q) <=> q = p)
  BY LinesDiffer
<1>2. RowsLead'
  BY <1>1 DEF QueueInv, RowsLead
<1>3. ASSUME NEW q \in Prompts, asks'[q] = 1 PROVE Once(q)'
  <2>1. CASE q = p
    <3>1. ~In(msgs, About("Row", p)) /\ ~In(msgs, About("Prompt", p))
      BY <1>3, <2>1 DEF Rowed, ToCome
    <3>2. QED
      BY <2>1, <3>1 DEF Once, In
  <2>2. CASE q # p
    BY <1>1, <1>3, <2>2 DEF QueueInv, Once
  <2>3. QED
    BY <2>1, <2>2
<1>4. FeedShape'
  BY DEF FeedShape
<1>5. QED
  BY <1>1, <1>2, <1>3, <1>4 DEF QueueInv, Rowed, ToCome

(* Both stations are emptied, with the runner or for a new one.            *)
LEMMA Emptied ==
  ASSUME msgs' = <<>>, feed' = <<>>
  PROVE  QueueInv' /\ \A p \in Prompts : ~Rowed(p)' /\ ~ToCome(p)'
<1>1. \A p \in Prompts : feed' # AskLine(p) /\ feed' # Tail(AskLine(p))
  BY LinesDiffer
<1>2. DOMAIN msgs' = {}
  OBVIOUS
<1>3. QED
  BY <1>1, <1>2 DEF QueueInv, FeedShape, RowsLead, Once, Rowed, ToCome, In

(* Coming, which looks at all that waits, is ToCome.                       *)
LEMMA ComingIsToCome ==
  ASSUME TypeOK, FeedShape, NEW p \in Prompts
  PROVE  ToCome(p) => Coming(p)
<1>1. In(msgs, About("Prompt", p)) => Coming(p)
  BY DEF In, Coming
<1>2. feed = AskLine(p) => 2 \in DOMAIN feed /\ feed[2] = About("Prompt", p)
  BY DEF AskLine
<1>3. feed = Tail(AskLine(p)) => 1 \in DOMAIN feed /\ feed[1] = About("Prompt", p)
  BY Lines
<1>4. QED
  BY <1>1, <1>2, <1>3 DEF Coming, ToCome

--------------------------------------------------------------------------------
(* The invariant.                                                          *)

LEMMA PromptInvInit == Init => PromptInv
<1> SUFFICES ASSUME Init PROVE PromptInv
  OBVIOUS
<1>1. TypeOK
  BY InitType
<1>2. msgs = <<>> /\ feed = <<>>
  BY DEF Init
<1>3. \A p \in Prompts : feed # AskLine(p) /\ feed # Tail(AskLine(p))
  BY <1>2, LinesDiffer
<1>4. DOMAIN msgs = {}
  BY <1>2
<1>5. QueueInv /\ \A p \in Prompts : ~Rowed(p) /\ ~ToCome(p)
  BY <1>2, <1>3, <1>4 DEF QueueInv, FeedShape, RowsLead, Once, Rowed, ToCome, In
<1>6. \A p \in Prompts : asks[p] = 0 /\ Unasked(p)
  BY <1>5 DEF Init, Unasked
<1>7. QED
  BY <1>1, <1>2, <1>5, <1>6 DEF Init, PromptInv, Own, Gone

(* A step that opens, holds and closes no prompt.                          *)
LEMMA NothingMoves ==
  ASSUME PromptInv, TypeOK', QueueInv', UNCHANGED <<openInLog, mine, outcomes, asks>>,
         waiting' \subseteq waiting, answers' \subseteq answers,
         \/ runner' = runner /\ pending' = pending
         \/ runner' # "running" /\ pending' = {},
         runner' = "absent" => Gone',
         \A p \in Prompts : (Rowed(p)' => Rowed(p)) /\ (ToCome(p)' => ToCome(p)),
         runner' = "running" => \A p \in Prompts : ToCome(p) => ToCome(p)',
         \A p \in Prompts : asks[p] = 1 /\ ToCome(p)' => (Rowed(p) => Rowed(p)')
  PROVE  PromptInv'
<1>1. Own'
  BY DEF PromptInv, Own
<1>2. \A p \in Prompts : asks'[p] = 0 => Unasked(p)'
  BY DEF PromptInv, Unasked
<1>3. \A p \in Prompts : asks'[p] = 1 => AskedOnce(p)'
  BY DEF PromptInv, AskedOnce
<1>4. QED
  BY <1>1, <1>2, <1>3 DEF PromptInv, TypeOK

(* Prompts that were held are closed, in the log and in the map.           *)
LEMMA HeldAreClosed ==
  ASSUME PromptInv, TypeOK', QueueInv', NEW S \in SUBSET pending, CloseInLog(S),
         pending' = pending \ S, UNCHANGED <<mine, asks, waiting>>,
         answers' \subseteq answers \union S,
         runner' = runner \/ (runner' = "tearing_down" /\ S = pending), runner # "absent",
         \A p \in Prompts : (Rowed(p)' <=> Rowed(p)) /\ (ToCome(p)' <=> ToCome(p))
  PROVE  PromptInv'
<1>1. Own'
  BY DEF PromptInv, Own
<1>2. /\ openInLog' = openInLog \ S
      /\ \A p \in Prompts : outcomes'[p] = IF p \in S THEN outcomes[p] + 1 ELSE outcomes[p]
  BY DEF CloseInLog, PromptInv, TypeOK
<1>3. \A p \in Prompts : asks'[p] = 0 => Unasked(p)'
  BY <1>2 DEF PromptInv, Unasked
<1>4. ASSUME NEW p \in Prompts, asks'[p] = 1 PROVE AskedOnce(p)'
  <2>1. AskedOnce(p)
    BY <1>4 DEF PromptInv
  <2>2. CASE p \in S
    <3>1. ~Rowed(p) /\ ~ToCome(p) /\ outcomes[p] = 0
      BY <2>1, <2>2 DEF AskedOnce
    <3>2. QED
      BY <1>2, <2>2, <3>1 DEF AskedOnce
  <2>3. CASE p \notin S
    BY <1>2, <2>1, <2>3 DEF AskedOnce
  <2>4. QED
    BY <2>2, <2>3
<1>5. runner' = "running" => \A p \in openInLog' : p \in pending' \/ ToCome(p)'
  BY <1>2 DEF PromptInv, TypeOK
<1>6. QED
  BY <1>1, <1>3, <1>4, <1>5 DEF PromptInv

(* What the log leaves open is closed when no runner holds anything.       *)
LEMMA OpenAreExpired ==
  ASSUME PromptInv, TypeOK', runner = "absent", CloseInLog(openInLog),
         pending' = {}, answers' \subseteq mine', msgs' = <<>>, feed' = <<>>,
         waiting' \subseteq waiting, asks' = asks, runner' = "absent" => child' = "none"
  PROVE  PromptInv'
<1>1. QueueInv' /\ \A p \in Prompts : ~Rowed(p)' /\ ~ToCome(p)'
  BY Emptied
<1>2. pending = {} /\ openInLog \subseteq Prompts
  BY DEF PromptInv, TypeOK
<1>3. /\ openInLog' = {}
      /\ \A p \in Prompts :
           outcomes'[p] = IF p \in openInLog THEN outcomes[p] + 1 ELSE outcomes[p]
  BY <1>2 DEF CloseInLog, PromptInv, TypeOK
<1>4. \A p \in Prompts : asks'[p] = 0 => Unasked(p)'
  BY <1>1, <1>3 DEF PromptInv, Unasked
<1>5. \A p \in Prompts : asks'[p] = 1 => AskedOnce(p)'
  BY <1>1, <1>3 DEF PromptInv, AskedOnce, TypeOK
<1>6. Own'
  BY <1>1 DEF Own
<1>7. QED
  BY <1>1, <1>3, <1>4, <1>5, <1>6 DEF PromptInv, Gone

LEMMA PromptInvNext == PromptInv /\ [Next]_vars => PromptInv'
<1> SUFFICES ASSUME PromptInv, [Next]_vars PROVE PromptInv'
  OBVIOUS
<1> USE DEF dbVars, runnerVars, controlVars, childVars, promptHistory, statusVars
<1>t. TypeOK /\ TypeOK' /\ QueueInv
  BY NextType DEF PromptInv
<1>q. msgs \in Seq(Message) /\ (runner # "absent" \/ Gone)
  BY <1>t DEF PromptInv, TypeOK
(* What leaves both stations, and what the prompts are, as it is.          *)
<1>f. ASSUME UNCHANGED <<openInLog, pending, runner, msgs, feed, promptHistory>>,
             waiting' \subseteq waiting, answers' \subseteq answers,
             runner # "absent" \/ child' = child
      PROVE  PromptInv'
  <2>1. QueueInv' /\ \A p \in Prompts : (Rowed(p)' <=> Rowed(p)) /\ (ToCome(p)' <=> ToCome(p))
    BY <1>t, <1>f DEF QueueInv, FeedShape, RowsLead, Once, Rowed, ToCome
  <2>2. runner' = "absent" => Gone'
    BY <1>f, <1>q DEF Gone
  <2>3. QED
    BY <1>t, <1>f, <2>1, <2>2, NothingMoves
(* What takes a message that is neither a prompt nor its row.              *)
<1>h. ASSUME msgs # <<>>, msgs' = Tail(msgs), feed' = feed,
             \A p \in Prompts : Head(msgs) \notin {About("Row", p), About("Prompt", p)},
             asks' = asks
      PROVE  QueueInv' /\ \A p \in Prompts : (Rowed(p)' <=> Rowed(p)) /\ (ToCome(p)' <=> ToCome(p))
  BY <1>t, <1>h, TakeHead
<1>o. ASSUME NEW kinds, kinds \subseteq RaisedByLine \union {"Handshake", "Answered", "Exited", "Cancel"},
             Takes(kinds)
      PROVE  /\ msgs # <<>> /\ msgs' = Tail(msgs) /\ runner = "running"
             /\ \A p \in Prompts : Head(msgs) \notin {About("Row", p), About("Prompt", p)}
  <2>1. \A p : About("Row", p).kind = "Row" /\ About("Prompt", p).kind = "Prompt"
    BY DEF About
  <2>2. "Row" \notin kinds /\ "Prompt" \notin kinds
    BY <1>o DEF RaisedByLine
  <2>3. QED
    BY <1>o, <2>1, <2>2 DEF Takes
<1>n. ASSUME NEW kinds, kinds \subseteq RaisedByLine \union {"Handshake", "Answered"}, Takes(kinds),
             UNCHANGED <<openInLog, runner, pending, childVars, promptHistory>>
      PROVE  PromptInv'
  <2>1. QueueInv' /\ \A p \in Prompts : (Rowed(p)' <=> Rowed(p)) /\ (ToCome(p)' <=> ToCome(p))
    BY <1>h, <1>n, <1>o
  <2>2. runner = "running"
    BY <1>n DEF Takes
  <2>3. QED
    BY <1>t, <1>n, <2>1, <2>2, NothingMoves
<1>1. ASSUME NEW first \in BOOLEAN, Launch(first) PROVE PromptInv'
  <2>1. QueueInv' /\ \A p \in Prompts : ~Rowed(p)' /\ ~ToCome(p)'
    BY <1>1, Emptied DEF Launch
  <2>2. QED
    BY <1>t, <1>1, OpenAreExpired DEF Launch
<1>2. CASE LaunchFails
  <2>1. pending = {} /\ answers \subseteq mine
    BY <1>2 DEF LaunchFails, PromptInv, Own
  <2>2. QED
    BY <1>t, <1>q, <1>2, <2>1, OpenAreExpired DEF LaunchFails, Gone
<1>p. ASSUME NEW m, Prints(<<m>>), FeedShape', asks' = asks
      PROVE  /\ runner' # "absent" /\ runner # "absent"
             /\ QueueInv' /\ \A p \in Prompts : (Rowed(p)' <=> Rowed(p)) /\ (ToCome(p)' <=> ToCome(p))
  <2>1. QueueInv' /\ \A p \in Prompts : (Rowed(p)' <=> Rowed(p)) /\ (ToCome(p)' <=> ToCome(p))
    BY <1>t, <1>p, PrintsOther DEF Prints
  <2>2. runner # "absent"
    BY <1>p, <1>q DEF Prints, Gone
  <2>3. QED
    BY <1>p, <2>1, <2>2 DEF Prints
<1>3. CASE ChildPrints
  <2>1. PICK k \in RaisedByLine \union {"Handshake", "Answered"} : Prints(<<Msg(k)>>)
    BY <1>3 DEF ChildPrints, RaisedByLine
  <2>2. FeedShape'
    BY <2>1 DEF Prints, FeedShape
  <2>3. QED
    BY <1>t, <1>3, <1>p, <2>1, <2>2, NothingMoves DEF ChildPrints, Prints
<1>4. ASSUME NEW p \in Prompts, ChildAsks(p) PROVE PromptInv'
  <2>1. /\ feed = <<>> /\ msgs' = msgs /\ feed' = AskLine(p) /\ runner' = runner /\ runner # "absent"
        /\ UNCHANGED <<openInLog, pending, answers, outcomes>>
        /\ asks' = [asks EXCEPT ![p] = @ + 1] /\ mine' = mine \union {p}
        /\ waiting' = waiting \union {p} /\ asks[p] \in {0, 1} /\ asks \in [Prompts -> Nat]
    BY <1>t, <1>q, <1>4 DEF ChildAsks, Prints, TypeOK, Gone
  <2>2. asks[p] = 1 \/ (asks[p] = 0 /\ ~Rowed(p) /\ ~ToCome(p))
    BY <2>1 DEF PromptInv, Unasked
  <2>3. /\ QueueInv' /\ Rowed(p)' /\ ToCome(p)'
        /\ \A q \in Prompts \ {p} : (Rowed(q)' <=> Rowed(q)) /\ (ToCome(q)' <=> ToCome(q))
    BY <1>t, <2>1, <2>2, PrintsAsk
  <2>4. ASSUME NEW q \in Prompts \ {p}
        PROVE  (asks'[q] = 0 => Unasked(q)') /\ (asks'[q] = 1 => AskedOnce(q)')
    BY <2>1, <2>3 DEF PromptInv, Unasked, AskedOnce
  <2>5. asks'[p] = asks[p] + 1
    BY <2>1
  <2>6. asks'[p] = 1 => AskedOnce(p)'
    BY <2>1, <2>3, <2>5 DEF PromptInv, Unasked, AskedOnce
  <2>7. Own'
    BY <2>1, <2>3 DEF PromptInv, Own
  <2>8. runner' = "running" => \A q \in openInLog' : q \in pending' \/ ToCome(q)'
    BY <1>t, <2>1, <2>3 DEF PromptInv, TypeOK
  <2>9. QED
    BY <1>t, <2>1, <2>3, <2>4, <2>5, <2>6, <2>7, <2>8 DEF PromptInv
<1>5. ASSUME NEW p \in Prompts, ChildWithdraws(p) PROVE PromptInv'
  <2>1. Prints(<<About("Cancel", p)>>) /\ asks' = asks
    BY <1>5 DEF ChildWithdraws
  <2>2. FeedShape'
    BY <2>1 DEF Prints, FeedShape
  <2>3. QED
    BY <1>t, <1>5, <1>p, <2>1, <2>2, NothingMoves DEF ChildWithdraws, Prints
<1>6. ASSUME NEW p \in Prompts, ChildReadsAnswer(p) PROVE PromptInv'
  BY <1>6, <1>f DEF ChildReadsAnswer
<1>7. CASE ChildDies
  BY <1>7, <1>f, <1>q DEF ChildDies, Gone
<1>8. CASE ReaderSends
  <2>1. QueueInv' /\ \A p \in Prompts : (Rowed(p)' <=> Rowed(p)) /\ (ToCome(p)' <=> ToCome(p))
    BY <1>t, <1>8, ReaderKeepsQueue
  <2>2. QED
    BY <1>t, <1>8, <2>1, NothingMoves DEF ReaderSends
<1>9. CASE ExitReported
  <2>1. /\ Msg("Exited") \in Message
        /\ \A p \in Prompts : Msg("Exited") \notin {About("Row", p), About("Prompt", p)}
    BY DEF Msg, About, Message
  <2>2. QueueInv' /\ \A p \in Prompts : (Rowed(p)' <=> Rowed(p)) /\ (ToCome(p)' <=> ToCome(p))
    BY <1>t, <1>9, <2>1, JoinOther DEF ExitReported
  <2>3. QED
    BY <1>t, <1>9, <2>2, NothingMoves DEF ExitReported
<1>10. CASE OnTransition
  BY <1>10, <1>n DEF OnTransition
<1>11. CASE OnRow
  <2>1. PICK p \in Prompts :
        /\ Head(msgs) = About("Row", p) /\ msgs # <<>> /\ msgs' = Tail(msgs)
        /\ runner = "running" /\ openInLog' = openInLog \union {p}
        /\ UNCHANGED <<runner, pending, childVars, promptHistory>>
    <3>1. Head(msgs) \in Message /\ Head(msgs).kind = "Row"
      BY <1>t, <1>11, TakenType DEF OnRow
    <3>2. PICK p \in Prompts : Head(msgs) = About("Row", p) /\ Head(msgs).p = p
      BY <3>1 DEF Message, RaisedByLine, About
    <3>3. QED
      BY <1>11, <3>2 DEF OnRow, Takes
  <2>2. /\ QueueInv' /\ ToCome(p)' /\ (asks[p] = 1 => ~Rowed(p)') /\ Rowed(p)
        /\ \A q \in Prompts : (ToCome(q)' <=> ToCome(q)) /\ (Rowed(q)' => Rowed(q))
        /\ \A q \in Prompts \ {p} : Rowed(q)' <=> Rowed(q)
    <3>0. \A q \in Prompts : About("Row", p) # About("Prompt", q)
      BY DEF About
    <3>1. \A q \in Prompts : /\ Head(msgs) # About("Prompt", q)
                             /\ q # p => Head(msgs) # About("Row", q)
      BY <2>1, <3>0, Messages
    <3>2. In(msgs, About("Row", p))
      BY <1>q, <2>1, InTail
    <3>3. QED
      <4>1. feed' = feed /\ asks' = asks
        BY <2>1
      <4>2. /\ QueueInv' /\ \A q \in Prompts : (Rowed(q)' => Rowed(q)) /\ (ToCome(q)' => ToCome(q))
        BY <1>t, <2>1, <4>1, TakeHead
      <4>3. QED
        BY <1>t, <2>1, <3>1, <3>2, <4>1, <4>2, TakeHead DEF Rowed
  <2>3. asks[p] # 0
    BY <2>1, <2>2 DEF PromptInv, Unasked
  <2>4. ASSUME NEW q \in Prompts
        PROVE  (asks'[q] = 0 => Unasked(q)') /\ (asks'[q] = 1 => AskedOnce(q)')
    <3>1. CASE q = p
      <4>1. asks[p] = 1 => p \notin pending /\ outcomes[p] = 0
        BY <2>1, <2>2 DEF PromptInv, AskedOnce
      <4>2. /\ p \in openInLog' /\ pending' = pending /\ outcomes' = outcomes /\ asks' = asks
        BY <2>1
      <4>3. asks[p] = 1 => AskedOnce(p)'
        BY <2>2, <4>1, <4>2 DEF AskedOnce
      <4>4. QED
        BY <2>3, <3>1, <4>2, <4>3
    <3>2. CASE q # p
      BY <2>1, <2>2, <3>2 DEF PromptInv, Unasked, AskedOnce
    <3>3. QED
      BY <3>1, <3>2
  <2>5. Own'
    BY <2>1, <2>2 DEF PromptInv, Own
  <2>6. \A q \in openInLog' : q \in pending' \/ ToCome(q)'
    BY <1>t, <2>1, <2>2 DEF PromptInv, TypeOK
  <2>7. QED
    BY <1>t, <2>1, <2>2, <2>4, <2>5, <2>6 DEF PromptInv
<1>12. CASE OnPrompt
  <2>1. PICK p \in Prompts :
        /\ Head(msgs) = About("Prompt", p) /\ msgs # <<>> /\ msgs' = Tail(msgs)
        /\ runner = "running" /\ pending' = pending \union {p}
        /\ UNCHANGED <<openInLog, runner, childVars, promptHistory>>
    <3>1. Head(msgs) \in Message /\ Head(msgs).kind = "Prompt"
      BY <1>t, <1>12, TakenType DEF OnPrompt
    <3>2. PICK p \in Prompts : Head(msgs) = About("Prompt", p) /\ Head(msgs).p = p
      BY <3>1 DEF Message, RaisedByLine, About
    <3>3. QED
      BY <1>12, <3>2 DEF OnPrompt, Takes
  <2>2. /\ QueueInv' /\ ToCome(p) /\ (asks[p] = 1 => ~Rowed(p) /\ ~ToCome(p)')
        /\ \A q \in Prompts : (ToCome(q)' => ToCome(q)) /\ (Rowed(q)' <=> Rowed(q))
        /\ \A q \in Prompts \ {p} : ToCome(q)' <=> ToCome(q)
    <3>0. \A q \in Prompts : About("Prompt", p) # About("Row", q)
      BY DEF About
    <3>1. \A q \in Prompts : /\ Head(msgs) # About("Row", q)
                             /\ q # p => Head(msgs) # About("Prompt", q)
      BY <2>1, <3>0, Messages
    <3>2. In(msgs, About("Prompt", p))
      BY <1>q, <2>1, InTail
    <3>3. QED
      <4>1. feed' = feed /\ asks' = asks
        BY <2>1
      <4>2. /\ QueueInv' /\ \A q \in Prompts : (Rowed(q)' => Rowed(q)) /\ (ToCome(q)' => ToCome(q))
        BY <1>t, <2>1, <4>1, TakeHead
      <4>3. QED
        BY <1>t, <2>1, <3>1, <3>2, <4>1, <4>2, TakeHead DEF ToCome
  <2>3. asks[p] # 0
    BY <2>1, <2>2 DEF PromptInv, Unasked
  <2>4. ASSUME NEW q \in Prompts
        PROVE  (asks'[q] = 0 => Unasked(q)') /\ (asks'[q] = 1 => AskedOnce(q)')
    <3>1. CASE q = p
      <4>1. asks[p] = 1 => p \in openInLog /\ outcomes[p] = 0
        BY <2>1, <2>2 DEF PromptInv, AskedOnce
      <4>2. /\ p \in pending' /\ openInLog' = openInLog /\ outcomes' = outcomes /\ asks' = asks
        BY <2>1
      <4>3. asks[p] = 1 => AskedOnce(p)'
        BY <2>2, <4>1, <4>2 DEF AskedOnce
      <4>4. QED
        BY <2>3, <3>1, <4>2, <4>3
    <3>2. CASE q # p
      BY <2>1, <2>2, <3>2 DEF PromptInv, Unasked, AskedOnce
    <3>3. QED
      BY <3>1, <3>2
  <2>5. Own'
    BY <2>1, <2>2 DEF PromptInv, Own
  <2>6. \A q \in openInLog' : q \in pending' \/ ToCome(q)'
    BY <1>t, <2>1, <2>2 DEF PromptInv, TypeOK
  <2>7. QED
    BY <1>t, <2>1, <2>2, <2>4, <2>5, <2>6 DEF PromptInv
<1>13. CASE OnCancel
  <2>1. /\ runner = "running" /\ QueueInv'
        /\ \A p \in Prompts : (Rowed(p)' <=> Rowed(p)) /\ (ToCome(p)' <=> ToCome(p))
    BY <1>h, <1>o, <1>13 DEF OnCancel
  <2>2. CASE Head(msgs).p \in pending
    BY <1>t, <1>13, <2>1, <2>2, HeldAreClosed DEF OnCancel
  <2>3. CASE Head(msgs).p \notin pending
    BY <1>t, <1>13, <2>1, <2>3, NothingMoves DEF OnCancel
  <2>4. QED
    BY <2>2, <2>3
<1>14. CASE OnHandshake
  BY <1>14, <1>n DEF OnHandshake
<1>15. CASE OnAnswered
  BY <1>15, <1>n DEF OnAnswered
<1>16. CASE OnExit
  <2>1. /\ runner = "running" /\ QueueInv'
        /\ \A p \in Prompts : (Rowed(p)' <=> Rowed(p)) /\ (ToCome(p)' <=> ToCome(p))
    BY <1>h, <1>o, <1>16 DEF OnExit
  <2>2. pending' = pending \ pending
    BY <1>16 DEF OnExit
  <2>3. QED
    BY <1>t, <1>16, <2>1, <2>2, HeldAreClosed DEF OnExit
<1>17. CASE OnSend
  BY <1>17, <1>f DEF OnSend
<1>18. CASE OnDecide
  <2> DEFINE p == Head(cmds).p
  <2>1. CASE p \in pending
    <3>1. /\ runner = "running" /\ runner' = runner /\ pending' = pending \ {p} /\ CloseInLog({p})
          /\ answers' = answers \union {p} /\ UNCHANGED <<msgs, feed, waiting, asks, mine>>
      BY <1>18, <2>1 DEF OnDecide, TakesCommand, Answer
    <3>2. QueueInv' /\ \A q \in Prompts : (Rowed(q)' <=> Rowed(q)) /\ (ToCome(q)' <=> ToCome(q))
      BY <1>t, <3>1 DEF QueueInv, FeedShape, RowsLead, Once, Rowed, ToCome
    <3>3. QED
      BY <1>t, <2>1, <3>1, <3>2, HeldAreClosed
  <2>2. CASE p \notin pending
    BY <1>18, <2>2, <1>f DEF OnDecide
  <2>3. QED
    BY <2>1, <2>2
<1>19. CASE OnControl
  BY <1>19, <1>f DEF OnControl
<1>20. CASE OnStop
  BY <1>20, <1>f DEF OnStop
<1>21. CASE FinishTeardown
  <2>1. QueueInv' /\ \A p \in Prompts : ~Rowed(p)' /\ ~ToCome(p)'
    BY <1>21, Emptied DEF FinishTeardown, RunnerGone
  <2>2. pending = {}
    BY <1>21 DEF FinishTeardown, PromptInv
  <2>3. QED
    BY <1>t, <1>21, <2>1, <2>2, NothingMoves DEF FinishTeardown, RunnerGone, Gone
<1>22. CASE OperatorSends \/ OperatorInterrupts \/ OperatorStops
  BY <1>22, <1>f DEF OperatorSends, OperatorInterrupts, OperatorStops, Operator
<1>23. ASSUME NEW p \in Prompts, OperatorDecides(p) PROVE PromptInv'
  BY <1>23, <1>f DEF OperatorDecides, Operator
<1>24. CASE ServerRestarts
  <2>1. QueueInv' /\ \A p \in Prompts : ~Rowed(p)' /\ ~ToCome(p)'
    BY <1>24, Emptied DEF ServerRestarts, RunnerGone
  <2>2. QED
    BY <1>t, <1>24, <2>1, NothingMoves DEF ServerRestarts, RunnerGone, Gone
<1>25. CASE UNCHANGED vars
  BY <1>25, <1>f DEF vars
<1>26. QED
  BY <1>1, <1>2, <1>3, <1>4, <1>5, <1>6, <1>7, <1>8, <1>9, <1>10, <1>11, <1>12, <1>13,
     <1>14, <1>15, <1>16, <1>17, <1>18, <1>19, <1>20, <1>21, <1>22, <1>23, <1>24, <1>25
     DEF Next, RunnerTakesMessage, RunnerTakesCommand

(* Reader, queue, runner and log agree on where each prompt stands, for    *)
(* any order of lines, answers, exits and restarts.                        *)
THEOREM PromptInvHolds == Spec => []PromptInv
BY PromptInvInit, PromptInvNext, PTL DEF Spec

(* The prompts a page is shown are those it can answer: every held prompt  *)
(* is open in the log, and every one the log of a running agent leaves     *)
(* open is held or about to be, for any order of lines, answers, exits,    *)
(* restarts and relaunches.                                                *)
THEOREM ShownIffHeldHolds == Spec => []ShownIffHeld
<1>1. PromptInv => ShownIffHeld
  <2> SUFFICES ASSUME PromptInv PROVE ShownIffHeld
    OBVIOUS
  <2>1. ASSUME NEW p \in pending, asks[p] = 1 PROVE p \in PendingPermissions
    <3>1. runner = "running" /\ p \in Prompts
      BY DEF PromptInv, TypeOK
    <3>2. p \in openInLog
      BY <2>1, <3>1 DEF PromptInv, AskedOnce
    <3>3. QED
      BY <3>1, <3>2 DEF PendingPermissions
  <2>2. ASSUME runner = "running", NEW p \in PendingPermissions
        PROVE  p \in pending \/ Coming(p)
    <3>1. p \in openInLog /\ p \in Prompts
      BY <2>2 DEF PendingPermissions, PromptInv, TypeOK
    <3>2. p \in pending \/ ToCome(p)
      BY <2>2, <3>1 DEF PromptInv
    <3>3. QED
      BY <3>1, <3>2, ComingIsToCome DEF PromptInv, QueueInv
  <2>3. QED
    BY <2>1, <2>2 DEF ShownIffHeld, HeldPromptsShown, ShownPromptsAnswerable
<1>2. QED
  BY <1>1, PromptInvHolds, PTL

(* A prompt has one outcome at most, whoever is at it: two tabs, the       *)
(* child's withdrawal, its exit and the expiry at the next launch; and no  *)
(* answer reaches a child that did not ask.                                *)
THEOREM AnsweredOnceHolds == Spec => []AnsweredOnce
<1>1. PromptInv => AnsweredOnce
  BY DEF PromptInv, AskedOnce, Own, AnsweredOnce, OneOutcome, AnswersOnlyTheAsker
<1>2. QED
  BY <1>1, PromptInvHolds, PTL
================================================================================
