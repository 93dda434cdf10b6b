------------------------------ MODULE AutoResume ------------------------------
(***************************************************************************)
(* The auto-resume watcher (src/src/agent/resume.rs, and auto_resume_pass, *)
(* stall_census and nudge in src/src/agent/supervisor.rs), as it looks     *)
(* after one agent.                                                        *)
(*                                                                         *)
(* A pass is not atomic: the agents' rows are read, then their runners,    *)
(* then the account's last usage snapshot; a marker is logged; and only    *)
(* then is the prompt queued, which the runner reads later still.  The     *)
(* agent, its prompts, the snapshots of every agent's CLI, the operator    *)
(* and the clock move between any two of those.                            *)
(***************************************************************************)
EXTENDS AgentStatus

CONSTANTS
  TICK, RESET_GRACE, PATIENCE, FIRST_BACKOFF, MAX_BACKOFF, DENSE_TRIES, PROBE,
  REARM_FLOOR, MAX_NUDGES, PROGRESS,   \* the constants of resume.rs
  Ahead,                               \* how far ahead a window may reset
  MaxTime                              \* bound: the last instant of the model

ASSUME AutoResumeAssumption ==
  /\ {TICK, RESET_GRACE, PATIENCE, FIRST_BACKOFF, MAX_BACKOFF, DENSE_TRIES, PROBE,
      REARM_FLOOR, MAX_NUDGES, PROGRESS, MaxTime} \subseteq Nat
  /\ 0 < DENSE_TRIES /\ DENSE_TRIES < MAX_NUDGES
  /\ FIRST_BACKOFF <= MAX_BACKOFF /\ MAX_BACKOFF <= REARM_FLOOR /\ REARM_FLOOR <= PROBE
  /\ Ahead \subseteq Nat

VARIABLES
  now,
  \* the agent: whether a runner holds it, its base status, whether a prompt
  \* is held, and the watcher's messages its runner has not read
  running, base, prompt, queued,
  \* the account's last usage snapshot
  snapshot,
  \* the watcher: where it is, the time it took for this pass or may wake at,
  \* the row it read, and what it remembers of the agent
  pc, pass, seen, known, stall,
  \* history: what the agent's log has said of the stall remembered
  said

agentVars == <<running, base, prompt, queued>>
watcherVars == <<pc, pass, seen, known, stall>>
resumeVars == <<now, agentVars, snapshot, watcherVars, said>>

None == -1
Time == Nat

(* A snapshot: when it was taken, which nobody asks of a refusal; whether  *)
(* it is one; and then when the window resets, if it says (resets_at_ms).  *)
Snapshot == [captured : Time \union {None}, rejected : BOOLEAN,
             resets : Time \union {None}]
NoSnapshot == [captured |-> None, rejected |-> FALSE, resets |-> None]

Stall == [since : Time, nudges : Nat, last : Time, working_since : Time \union {None},
          saw_tokens : BOOLEAN, rearmed : BOOLEAN]

--------------------------------------------------------------------------------
(* resume.rs.                                                              *)

Verdict(snap, since, at) ==
  IF snap = NoSnapshot THEN "NoEvidence"
  ELSE IF snap.rejected
       THEN IF snap.resets = None \/ snap.resets <= since THEN "NoEvidence"
            ELSE IF at >= snap.resets + RESET_GRACE THEN "Tokens" ELSE "Held"
       ELSE IF snap.captured >= since THEN "Tokens" ELSE "NoEvidence"

(* Stall::new.                                                             *)
NewStall(at) ==
  [since |-> at, nudges |-> 0, last |-> 0, working_since |-> None,
   saw_tokens |-> FALSE, rearmed |-> FALSE]

(* Stall::stalled and Stall::saw.                                          *)
Saw(s, verdict) ==
  [s EXCEPT !.working_since = None,
            !.rearmed = @ \/ (verdict = "Tokens" /\ ~s.saw_tokens),
            !.saw_tokens = (verdict = "Tokens")]

(* Mutant: one nudge too many.                                             *)
StoppedLate(s) == s.nudges > MAX_NUDGES

Probing(s) == s.nudges >= DENSE_TRIES
Stopped(s) == s.nudges >= MAX_NUDGES

Sooner(a, b) == IF a <= b THEN a ELSE b

(* backoff_ms: doubling, to a ceiling.                                     *)
Backoff(tries) ==
  IF tries = 0 THEN 0 ELSE Sooner(FIRST_BACKOFF * 2^Sooner(tries - 1, 20), MAX_BACKOFF)

(* Stall::due, as the moment from which it answers yes.  Evidence is the   *)
(* verdict "Tokens".                                                       *)
Scheduled(s, verdict) ==
  IF s.nudges = 0 THEN s.since + (IF verdict = "Tokens" THEN 0 ELSE PATIENCE)
  ELSE IF Probing(s) THEN s.last + PROBE
  ELSE s.last + Backoff(s.nudges)

(* Mutant: there is no floor.                                              *)
EarliestAtOnce(s, verdict) ==
  IF s.rearmed /\ s.nudges > 0 THEN s.last ELSE Scheduled(s, verdict)

Earliest(s, verdict) ==
  IF s.rearmed /\ s.nudges > 0
  THEN Sooner(Scheduled(s, verdict), s.last + REARM_FLOOR)
  ELSE Scheduled(s, verdict)

(* Mutant: nothing is sent once the dense tries are spent.                 *)
DueWhileDense(s, at, verdict) == ~Probing(s) /\ at >= Earliest(s, verdict)

Due(s, at, verdict) == ~Stopped(s) /\ at >= Earliest(s, verdict)

(* Stall::nudged.                                                          *)
Nudged(s, at) ==
  [s EXCEPT !.nudges = @ + 1, !.last = at, !.working_since = None, !.rearmed = FALSE]

(* Stall::working: since when, and whether that is long enough.            *)
WorkingSince(s, at) == IF s.working_since = None THEN at ELSE s.working_since
Recovered(s, at) == at - WorkingSince(s, at) >= PROGRESS

--------------------------------------------------------------------------------
WatcherTypeOK ==
  /\ now \in Time /\ running \in BOOLEAN /\ prompt \in BOOLEAN /\ queued \in Nat
  /\ base \in {"idle", "working", "rate_limited"}
  /\ snapshot \in Snapshot
  /\ pc \in {"asleep", "listed", "nudging", "stopped"} /\ pass \in Time
  /\ seen \in Status \union {"none"} /\ known \in BOOLEAN /\ stall \in Stall
  /\ said \subseteq {"slowed", "stopped"}

WatcherInit ==
  /\ now = 0 /\ running = TRUE /\ base = "working" /\ prompt = FALSE /\ queued = 0
  /\ snapshot = NoSnapshot
  /\ pc = "asleep" /\ pass = TICK /\ seen = "none" /\ known = FALSE /\ stall = NewStall(0)
  /\ said = {}

(* The status in the agent's row.                                          *)
Row == IF running THEN WithApprovals(base, prompt) ELSE "none"

--------------------------------------------------------------------------------
(* The agent, the account, the operator and the clock.                     *)

TimePasses ==
  /\ now < MaxTime /\ now' = now + 1
  /\ UNCHANGED <<agentVars, snapshot, watcherVars, said>>

(* The CLI begins a turn, by itself or for the operator; it ends, or dies  *)
(* on the limit.                                                           *)
BaseMoves ==
  /\ running
  /\ \/ base # "working" /\ base' = "working"
     \/ base = "working" /\ base' \in {"idle", "rate_limited"}
  /\ UNCHANGED <<now, running, prompt, queued, snapshot, watcherVars, said>>

(* A permission prompt is raised, or cleared.                              *)
PromptMoves ==
  /\ running /\ prompt' = ~prompt
  /\ UNCHANGED <<now, running, base, queued, snapshot, watcherVars, said>>

(* Any agent's CLI reports the account's usage.                            *)
SnapshotArrives ==
  /\ \E rejected \in BOOLEAN, resets \in {None} \union {now + d : d \in Ahead} :
       snapshot' = IF rejected
                   THEN [captured |-> None, rejected |-> TRUE, resets |-> resets]
                   ELSE [captured |-> now, rejected |-> FALSE, resets |-> None]
  /\ UNCHANGED <<now, agentVars, watcherVars, said>>

(* The runner reads a prompt of the watcher: the message is logged and the *)
(* turn started (Runner::send_user_message).                               *)
PromptTyped ==
  /\ running /\ queued > 0
  /\ queued' = queued - 1
  /\ base' = Apply(base, "TurnStarted")
  /\ UNCHANGED <<now, running, prompt, snapshot, watcherVars, said>>

(* The runner exits.  What it had not read is dropped, with a notice on    *)
(* the bus but nothing in the log (Runner::drop_unsent).                   *)
Exits ==
  /\ running
  /\ running' = FALSE /\ base' = "idle" /\ queued' = 0 /\ prompt' = FALSE
  /\ UNCHANGED <<now, snapshot, watcherVars, said>>

Relaunched ==
  /\ ~running /\ running' = TRUE
  /\ UNCHANGED <<now, base, prompt, queued, snapshot, watcherVars, said>>

--------------------------------------------------------------------------------
(* The watcher.                                                            *)

(* The agent is forgotten: its next stall is a new one.                    *)
Forget == known' = FALSE /\ stall' = NewStall(0) /\ said' = {}

(* The pass is over: the next is a TICK away.                              *)
Sleep == pc' = "asleep" /\ pass' = now + TICK /\ seen' = "none"

(* A pass begins, with its time, the configuration and the rows.  The      *)
(* operator may have turned auto-resume off since the last one, or on; and *)
(* when the rows cannot be read the census is empty.                       *)
PassBegins ==
  /\ pc = "asleep" /\ now >= pass
  /\ \/ /\ pc' = "listed" /\ pass' = now /\ seen' \in {Row, "none"}
        /\ UNCHANGED <<known, stall, said>>
     \/ Sleep /\ Forget
  /\ UNCHANGED <<now, agentVars, snapshot>>

(* stall_census, from the row read and the runner as it is now.            *)
Class ==
  IF ~running \/ seen = "none" THEN "gone"
  ELSE IF seen = "rate_limited" THEN "stalled"
  ELSE IF base = "rate_limited" THEN "held" ELSE "working"

(* The stall as this pass judges it, and whether a nudge is due.           *)
Judged == LET s == IF known THEN stall ELSE NewStall(pass)
          IN Saw(s, Verdict(snapshot, s.since, pass))
NudgeDue ==
  LET verdict == Verdict(snapshot, Judged.since, pass)
  IN verdict # "Held" /\ Due(Judged, pass, verdict)

(* Not running any more, or in no list because none could be read.         *)
PassOverGone ==
  /\ pc = "listed" /\ Class = "gone"
  /\ Sleep /\ Forget
  /\ UNCHANGED <<now, agentVars, snapshot>>

(* Held under a prompt: left exactly as it was.                            *)
PassOverHeld ==
  /\ pc = "listed" /\ Class = "held"
  /\ Sleep
  /\ UNCHANGED <<now, agentVars, snapshot, known, stall, said>>

PassOverWorking ==
  /\ pc = "listed" /\ Class = "working"
  /\ Sleep
  /\ IF known /\ Recovered(stall, pass) THEN Forget
     ELSE /\ stall' = IF known
                      THEN [stall EXCEPT !.working_since = WorkingSince(stall, pass)]
                      ELSE stall
          /\ UNCHANGED <<known, said>>
  /\ UNCHANGED <<now, agentVars, snapshot>>

(* Out of tokens, and not due.                                             *)
PassWaits ==
  /\ pc = "listed" /\ Class = "stalled" /\ ~NudgeDue
  /\ Sleep
  /\ known' = TRUE /\ stall' = Judged
  /\ UNCHANGED <<now, agentVars, snapshot, said>>

(* Due: counted, and the marker logged before anything is sent.            *)
PassNudges ==
  /\ pc = "listed" /\ Class = "stalled" /\ NudgeDue
  /\ pc' = "nudging" /\ seen' = "none"
  /\ known' = TRUE /\ stall' = Nudged(Judged, pass)
  /\ UNCHANGED <<now, agentVars, snapshot, pass, said>>

(* Mutant: the phase is read once the nudge is counted, which is what ends *)
(* it.                                                                     *)
AnnouncesCounted(s) == IF Stopped(s) THEN {"stopped"} ELSE {}

(* What is announced with a nudge that has just been counted: that it was  *)
(* the last, or that the dense phase was not over before it and now is.    *)
Announces(s) ==
  IF Stopped(s) THEN {"stopped"}
  ELSE IF Probing(s) /\ ~Probing([s EXCEPT !.nudges = @ - 1]) THEN {"slowed"} ELSE {}

(* The rest of nudge and of the pass: the prompt is queued, or its failure *)
(* logged; and a change of phase is announced.                             *)
NudgeSent ==
  /\ pc = "nudging"
  /\ queued' = IF running THEN queued + 1 ELSE queued
  /\ said' = said \union Announces(stall)
  /\ Sleep
  /\ UNCHANGED <<now, running, base, prompt, snapshot, known, stall>>

(* stop_auto_resume: shutdown aborts the task wherever it waits, as does   *)
(* the server's death.                                                     *)
WatcherStopped ==
  /\ pc # "stopped" /\ pc' = "stopped"
  /\ UNCHANGED <<now, agentVars, snapshot, pass, seen, known, stall, said>>

(* The snapshot a server starts with (restore_rate_limit): each one is     *)
(* stored as it comes, and one that cannot be read or was not written is   *)
(* none.                                                                   *)
Stored == {snapshot, NoSnapshot}

(* The next server: its agents are stopped, and its watcher remembers      *)
(* nothing.                                                                *)
WatcherRestarts ==
  /\ pc = "stopped"
  /\ running' = FALSE /\ base' = "idle" /\ queued' = 0 /\ prompt' = FALSE
  /\ snapshot' \in Stored
  /\ Sleep /\ Forget
  /\ UNCHANGED now

PassEnds == PassOverGone \/ PassOverHeld \/ PassOverWorking \/ PassWaits

WatcherNext ==
  \/ TimePasses \/ BaseMoves \/ PromptMoves \/ SnapshotArrives \/ PromptTyped
  \/ Exits \/ Relaunched
  \/ PassBegins \/ PassEnds \/ PassNudges \/ NudgeSent \/ WatcherStopped
  \/ WatcherRestarts

WatcherSpec == WatcherInit /\ [][WatcherNext]_resumeVars

--------------------------------------------------------------------------------
(* Properties.                                                             *)

(* No verdict, however it flaps, and no failed delivery makes a stall that *)
(* is remembered cost more than MAX_NUDGES messages.                       *)
Ceiling == stall.nudges <= MAX_NUDGES

(* Between passes the agent's log has said, of the stall remembered, how   *)
(* things stand: that the watcher slowed once the dense phase was spent,   *)
(* and that it stopped once it will send nothing more, with the nudge that *)
(* made it so.  It is the count, made before anything is sent, that ends   *)
(* the phase the announcement is about.                                    *)
SaysWhereItStands ==
  pc = "asleep" =>
    /\ "slowed" \in said <=> Probing(stall)
    /\ "stopped" \in said <=> Stopped(stall)

(* Evidence never makes two nudges of a stall come closer together than    *)
(* REARM_FLOOR, or than the dense backoff where that is shorter still.     *)
Spacing(s) == Sooner(REARM_FLOOR, IF Probing(s) THEN PROBE ELSE Backoff(s.nudges))
PacedWhateverTheEvidence ==
  [][stall'.nudges > stall.nudges /\ stall.nudges > 0
       => stall'.last - stall.last >= Spacing(stall)]_resumeVars

(* The nudges are the only probe there is: a pass that finds the agent out *)
(* of tokens, in no window known to be closed and with nudges left, never  *)
(* leaves it longer than PATIENCE at first and PROBE after that.           *)
NeverSleepsThrough ==
  [][pc = "listed" /\ pc' = "asleep" /\ Class = "stalled"
     /\ stall'.nudges < MAX_NUDGES /\ Verdict(snapshot, stall'.since, pass) # "Held"
       => pass < IF stall'.nudges = 0 THEN stall'.since + PATIENCE
                 ELSE stall'.last + PROBE]_resumeVars

(* Evidence may bring a nudge forward, never put one off: whenever a stall *)
(* would be due had nothing been learned, it is due.                       *)
Unlearned(s) == [s EXCEPT !.rearmed = FALSE]
EvidenceNeverDelays ==
  \A at \in now..MaxTime + PROBE :
    Due(Unlearned(stall), at, "NoEvidence") => Due(stall, at, "Tokens")
================================================================================
