------------------------------ MODULE AgentStatus ------------------------------
(***************************************************************************)
(* The status machine of one agent (src/src/agent/state.rs): the statuses, *)
(* the transitions that drive them, the correction of a status by whether  *)
(* a permission prompt is held, and the four permission modes with their   *)
(* order of strictness.  Pure operators, shared by every module that keeps *)
(* a status or a mode.                                                     *)
(***************************************************************************)
EXTENDS Integers

Terminal == {"stopped", "failed"}
Live == {"starting", "idle", "working", "awaiting_approval", "rate_limited"}
Status == Live \union Terminal

Transition ==
  { "Spawned", "Initialized", "TurnStarted", "PermissionRequested",
    "PermissionResolved", "TurnEnded", "LimitReached", "Exited", "Errored" }

(* What `apply` answers for a transition it refuses (`None` in the code).  *)
Ignored == "ignored"

(* Status::apply for a live agent: where each transition takes status s.   *)
LandsOn(s) ==
  [ Initialized         |-> IF s = "starting" THEN "idle" ELSE s,
    TurnStarted         |-> IF s = "awaiting_approval" THEN s ELSE "working",
    PermissionRequested |-> "awaiting_approval",
    PermissionResolved  |-> IF s = "awaiting_approval" THEN "working" ELSE s,
    LimitReached        |-> "rate_limited",
    TurnEnded           |-> "idle",
    Exited              |-> "stopped",
    Errored             |-> "failed" ]

(* Status::apply: spawning resets the machine, and nothing else moves a    *)
(* terminal agent.                                                         *)
Apply(s, t) ==
  IF t = "Spawned" THEN "starting"
  ELSE IF s \in Terminal THEN Ignored
  ELSE LandsOn(s)[t]

(* Status::with_approvals: a status corrected by whether any permission    *)
(* prompt is held.  A terminal status has no process to answer and stays.  *)
WithApprovals(s, anyHeld) ==
  IF s \in Terminal THEN s
  ELSE IF anyHeld THEN "awaiting_approval"
  ELSE IF s = "awaiting_approval" THEN "working" ELSE s

--------------------------------------------------------------------------------
(* Permission modes.                                                       *)

Mode == {"ask", "acceptEdits", "bypass", "dangerous"}

(* PermissionMode::strictness: higher constrains the agent more.           *)
Strictness == [ask |-> 3, acceptEdits |-> 2, bypass |-> 1, dangerous |-> 0]

(* PermissionMode::relaxes: moving from `current` to m gives more freedom. *)
Relaxes(m, current) == Strictness[m] < Strictness[current]

(* PermissionMode::control_value is Some: the mode can be set on a running *)
(* child.  `dangerous` is a launch flag with no runtime equivalent.        *)
HasControlValue(m) == m # "dangerous"
================================================================================
