# WebAgentPortal in TLA+

WebAgentPortal is a Rust server that runs Claude Code CLI processes ("agents") as
children and shows them to browser pages. This directory holds TLA+ models of the
concurrent and stateful parts of `src/src`, the TLC runs that check them and TLAPS
proofs about them. The code is the reference: `PROJECT.json` ("map") says for every
definition which lines it stands for. Path names below are relative to `src/src`.

## 1. The system

| Component | State | Operations | Talks to |
|---|---|---|---|
| Status machine, `agent/state.rs` | none | `apply`, `with_approvals`, `PermissionMode::relaxes`, `control_value` | used by runner and supervisor |
| Child and its tasks, `agent/process.rs` `spawn` | the CLI process, its pipes | stdout reader, stderr reader, exit monitor, stop with SIGKILL behind SIGTERM | sends `Action`s to the runner over an unbounded channel |
| Output dispatcher, `agent/process.rs` `Dispatcher` | open turn, held turn end, live background tasks, the subagent list | one handler per CLI line | raises `Action`s, lives in the stdout reader |
| Runner, `agent/supervisor.rs` `Runner` | base and published status, pending prompts, outstanding control ids, stop flag | a handler per `Action` and per `AgentCommand`; `on_exit`; `drop_unsent` | `select!` over the child's channel and the command channel; writes the row and the event log; broadcasts |
| Registry, `Supervisor::runners` | id → handle with a generation | claim in `launch`, `deregister` | every request looks the agent up here |
| Requests, `Supervisor` | none of their own between awaits | spawn, resume, send, decide, stop, delete, set mode, shutdown | row, registry, runner channel |
| Auto-resume watcher, `agent/resume.rs` + `auto_resume_pass` | one `Stall` per agent | a pass every tick or when poked | reads rows, runners and the last usage snapshot; sends messages; logs markers |
| Process-group sweep, `agent/process.rs` | groups recorded, each with when it was proved the agent's | refresh, confirm, targets of a stop, rounds of a teardown | the process table, the kernel's signals |
| Database, `db.rs` | rows, event log, uploads, cancels, usage, notes | one transaction per call | everything above |
| Uploads, `uploads.rs`, upload routes | rows, private and shared copies, names reserved on disk | record, cancel, withdraw, claim, check, release, wipe, download | send, delete, the agent's own folder |
| WebSocket replay, `web/ws.rs`, `assets/transcript.js` | subscription, broadcast receiver, the page's cursor | subscribe, replay in pages, lag, reconnect | bus, event log, open prompts |
| Workspace, `repo/git.rs`, `repo/clone.rs` | worktrees, branches, slugs, clones under way | prepare, safety check, remove, clone and clean up | spawn, delete, an operator in the same repository |
| Access, `remote.rs`, `config.rs`, `web/routes.rs` guard, `main.rs` | key file and its cached hash, config file and the settings in force | pair, unpair, authenticate, load, save, validate, bind | devices, the page's settings form, the next boot |
| Stream-json protocol, HTTP routes, pages | - | parsing, thin handlers, rendering | the components above, which model what they start |
| Repository scan, `repo/scan.rs` | - | a walk of the roots, per request | - |

What is hard here, and what each component must keep:

* **The child speaks over a pipe that outlives it and dies without notice.** The exit
  monitor waits only half a second for the reader, so `Exited` may overtake a prompt.
  The status, the row, the event log's open prompts and the runner's map of prompts are
  four records of one fact, written at different moments.
* **A turn end does not mean the agent is waiting.** Backgrounded subagents outlive the
  turn, are reported by four kinds of line, not all of which are printed, and wake the CLI
  into turns of its own. The held turn end must land, once, and not too early.
* **Requests interleave at every await**: two resumes, a resume and a delete, a mode change
  and a launch, two sends of one upload, two spawns of one task, a shutdown with all of them.
  A client that hangs up drops its handler, at whatever await it stands, while the query or
  the git command it had begun comes to its end: a row that nobody is told of, a worktree
  without a row, a slot that nobody serves.
* **The watcher acts on four stale reads** (rows, runners, snapshot, clock), and the thing
  it does, a message, may be lost after it was counted and logged.
* **A row is written, then broadcast, over a channel that drops.** A page that replays while
  rows are written gets a row twice, out of order, or not at all, and has to notice.
* **Three copies of a file, and no transaction over them.** An upload is a private copy, a
  copy the agent can rewrite, and a row.
* **Ids of processes are reused.** A process group is signalled minutes after it was seen to be
  the agent's, when nothing says any more whose it is.
* **Git is shared** with an operator and with the agents, and each of its commands is a step.
* **A failed read looks like an empty one.** Rows, branches or processes that cannot be listed are
  none, to a census, a spawn or a teardown.
* **The server may die anywhere**; children die with it, rows, log and files stay.

`PROJECT.json` ("hazards") lists these one by one at their lines, with the properties that
cover them or the reason none does.

## 2. Modules

| Module | Models | Abstracted |
|---|---|---|
| `AgentStatus` | `Status::apply`, `with_approvals`, the permission modes' order | the payloads of statuses |
| `AgentRunner` | one agent: child, reader, exit monitor, runner, its two queues, the row, the open prompts, control requests, launch, restart | text, costs, sub-labels; child lines are chosen freely |
| `Dispatcher` | `on_stdout` as it concerns turns and subagents; the CLI is the environment and the truth | labels, retries, errors |
| `AutoResume` | `resume.rs` in full, a pass, the census, `nudge` and its markers, the server's restart | time in units; one agent |
| `AgentRegistry` | handlers split at each await, against one agent's row, slot and runners | what the child does in between, worktrees |
| `Uploads` | one agent's uploads and messages, split at each await, file and query | contents, sizes; a name is a spelling and a suffix |
| `WsReplay` | one agent's log, its writers, the bus, a socket, a page | contents of rows; the page is its cursor and what it holds |
| `LogFollower` | what replay and live stream promise together: the abstract specification | everything else |
| `ProcessSweep` | one agent's groups against a kernel that reuses ids | command lines; time in units |
| `Workspace` | spawns, deletes and clones against git, folder by folder, and an operator | contents of commits and files |
| `Access` | the key file and devices; the config file and its saves | keys are numbers, settings a model value |
| `MC*` | the symmetry and the constant functions of the instances | |
| `*Proofs` | theorems and their proofs | |

Correspondence of state, where the names differ:

* `AgentRunner`: `dbStatus` is the row's `status`; `openInLog` is what
  `Db::pending_permissions` answers; `feed` is what the reader has yet to send of the line
  it is on; `msgs` and `cmds` are the two channels of `Runner::run`; `handshake` says the
  `initialize` id is outstanding, `outstanding` how many other ids are; which of them an
  answer clears is left open. A handler of the runner is one action, because the runner
  is one task and runs a handler to its end before the next. `asks`, `outcomes`, `mine` and
  `flooded` are history.
* `Dispatcher`: `turn`, `spoke`, `inbox`, `kind`, `phase`, `owed` are the CLI. `owed` is the
  set of lines still to be printed about a subagent. A backgrounded one is announced by any choice of
  its two lines, and its end by any choice of its three, at least one of each, in any order; its
  end is printed after its start. One that is waited for has its start line and its tool result.
  `raised` is the way to the runner.
* `AutoResume`: `pc` names where the pass stands between two awaits; `known` says the map
  has an entry for the agent, `stall` is the entry. `seen` is the status a census read, "none" also if it could read no rows. `said` is history. After a restart the stored
  snapshot is the last one or, unreadable or never written, none.
* `AgentRegistry`: `at[c]` is where handler `c` stands; a launch is named by its generation;
  `stage` and `child` are its runner's and its process's. Stage `lost` is a launch whose
  handler was dropped between the claim and the spawn of the runner's task.
* `Uploads`: `private` and `shared` are the two folders, by name; `at[u]`, `name[u]`, `try[u]`,
  `whole[u]` are an upload's handler and then its finaliser, which outlives it; `withdrawal[u]` is
  how far the removal of a recorded one is; `sat[s]`, `parts[s]` are a send and the rows it
  claimed; `queue` is the runner's, `undelivered` what `drop_unsent` has still to hand back.
* `WsReplay`: `todo` is what each writer has begun (a row written is not yet broadcast), `bus` and
  `lagged` are the socket's receiver, `reading` is the replay between its reads, `out` the frames
  on their way, `seeded` and `contiguous` the page's transcript, `cards` the prompts it shows.
  `floor` is where a replay of the tail alone began, `missed` the rows the channel dropped,
  `silent` the rows nobody broadcasts (the expiries a launch writes, and what a dropped request had
  written). A launch is a request until `Serve`, when the runner gets a task of its own; one dropped before
  leaves the slot `untended`. `stopped` is a page that was refused.
* `ProcessSweep`: `proc` is the kernel's table, each entry with parent, group and start; `sweep`
  is `Sweep`'s map of groups; `teardown` is the round `tear_down_groups` is in, by the copy of the
  record it took; "blind" if it ended on a table it could not read. `mine` is the truth a record is judged by.
* `Workspace`: `spawn`, `del`, `clone` are handlers with what they have read; `made`, `tips`,
  `head`, `trees` are a repository's branches, commits, checkout and worktrees. `stranded`,
  `halfway`, `dropped`, `robbed`, `excused` are history; `dropped` are the agents whose delete a hang-up cut short
  on a server that goes on.
* `Access`: `keyfile` is the hash on disk, `server` what is in memory (the cached hash, when it
  was last reread, the settings), `disk` the config file, `puts` the saves under way.

How they fit. `AgentRunner` takes from the registry only that launches do not overlap, which
`AgentRegistry` establishes (`OneChild`). `AgentRegistry` takes from the runner only that
its child may die at any time and that the exit writes a terminal status, which
`AgentRunner` models in full. `Dispatcher` feeds the runner; there its lines are arbitrary,
so no property of `AgentRunner` depends on the CLI's good order. `AutoResume` sees an agent as
any sequence of statuses. `ProcessSweep` starts where `AgentRunner`'s `tearing_down` does.
`Uploads` and `WsReplay` have the runner's queue and the runner's writes as their environment,
and `Workspace` has a spawn up to the launch that `AgentRegistry` takes over.

## 3. Runs

| Run | Instance | Shows |
|---|---|---|
| `AgentRunnerSafety` | 2 prompts, queues of 1 | status is `awaiting_approval` iff a prompt is held; the row agrees with the runner, or is terminal; what a page shows is what can be answered; one outcome per prompt; no answer reaches another launch's child |
| `AgentRunnerLiveness` | no prompts, queues of 1 and 2, 2 control requests | an accepted stop, and a dead child, end with the agent resumable; a child that is ready is seen to be |
| `Dispatcher` | 3 tasks, list of 2, 2 turns | a quiet agent is not left working or with subagents shown running; ends are not held, nor shown, without reason |
| `AutoResume` | 7 instants, 3 nudges | ceiling, pacing, patience, and a log that says in which phase a remembered stall is |
| `AgentRegistry` | 4 requests, 3 launches, clients that go away | one child, always held; the slot and a live row always have an owner |
| `RegistryDelete` | 2 requests, 1 launch | *finding*: a launch outlives the delete |
| `Uploads` | 2 uploads that want one name, 2 sends, one rewrite by the agent | a row has its files, names are distinct, an upload goes out in one message, a cancel holds, a download is the upload |
| `WsReplay` | 1 prompt, window 1, channel of 2, a log of 4 rows and 3 more, 2 losses | every row that no dropped request left untold is shown, on its way or admitted missed; the prompts shown are those that wait; the cursor never passes a row that is to come |
| `WsFollow` | the same without prompts, 2 more rows | *refinement*: the page implements `LogFollower`, its liveness included |
| `ProcessSweep` | 2 ids that are reused, 6 instants | a group signalled is the agent's, a record that passes the test is a proof, a teardown that can read the process table leaves none it could prove |
| `Workspace` | 2 spawns, 2 deletes, 2 clones, 1 commit, 3 moves from outside, hang-ups of deletes among them | an unforced delete loses no work, nothing of another's is removed, rows and worktrees agree |
| `Access` | 2 devices, 2 keys, 2 saves, 3 boots or edits | a paired device gets in and stays in; the server listens where it was told; settings in force are those on disk |

**Where code and docs disagree.** One disagreement is a run of its own, `RegistryDelete`, which is
expected to end in a violation; `PROJECT.json` ("findings") quotes what the docs say: delete looks for a runner
once, and a launch in between leaves a child without a row. No HTTP stop, resume or delete finds it, as these look up
the row first; an open page's WebSocket still reaches the runner, which is looked up by id. Others met
while modelling are left out of the properties, which state what does hold:

* When `ps` fails the process table is empty, and a teardown takes that for nothing left: it returns with groups
  alive that it could prove (`process_table`, against DESIGN.md:519). `TeardownUnread` is this step, and `NoneLeft`
  is about the teardowns that could read the table.
* A census that cannot read the rows is empty, so the watcher forgets every stall and its count, and an agent that
  never recovered may be sent more than `MAX_NUDGES` messages (`stall_census`, against `resume.rs`:116, "the ceiling
  nothing can reset"). `Ceiling` is what is left of the bound: it holds of a stall as long as it is remembered.
* A launch closes a former process's prompts in the log and tells pages of it afterwards. Dropped in between it
  tells nobody, and a page that read the prompts before shows cards that cannot be answered until it reconnects
  (against `supervisor.rs`:1002). `PromptsAgree` excuses a slot whose launch was given up (`LaunchDropped`).
* An agent can read *your turn* in the middle of a turn: a subagent's end may settle the end of an
  earlier turn while a later one is open (`process.rs`, `settle_turn_end`, against DESIGN.md:211). The
  property is `FirstTurnIdleIsYourTurn`.
* The log may hold a resume marker whose message was lost with its queue, as the marker is written
  first (`nudge`). `SaysWhereItStands` is about announcements only.
* Time under a permission prompt counts as progress of a resumed agent, as the census looks at the
  base status (against the comment at `resume.rs`:122).
* The row may say `failed` over a live child: a launch that lost the claim writes its failure late
  (against `state.rs`:45). `LiveRowIsOwned` is the direction that holds.
* The mode a page shows may not be the one in force: the row is written apart from the control
  request, and either may be lost (against DESIGN.md:627).
* A client that goes away between the claim and the runner's start leaves a slot that nobody gives
  back; `SlotHeldForAReason` names this as one of the reasons, so it does not catch it.
* A spawn whose client hangs up leaves a worktree without a row, and a delete whose client hangs up a row
  without its worktree, on a server that goes on. `RowsAndTreesAgree` says that there is no other way to
  either but a refused slug, a forced removal that failed and the server's end.
* A page whose transcript is empty reconnects as a fresh load and is sent the tail only
  (`agent.js` sends `replayFrom || null`, against DESIGN.md:1010); `WsFollow` excuses what is below.
* A sent message that is dropped, or a server that dies, may leave uploads marked as sent in no message,
  and files without a row; the properties of `Uploads` say which of the two directions holds.
* The first request of a freshly paired device may be refused within the second for which
  the hash is not reread; and a server started without a key must be restarted before a first
  pairing takes (against DESIGN.md:1803).

**Bounds.** Two prompts suffice for a turn of one to interfere with the other and for an id
to be reused; a queue of one still lets everything overtake everything, since the reader's
`feed`, the message queue and the command queue are three stations. `MaxControls` is 0 in the safety
run, whose properties no control request touches (the theorems below cover any number), and 2
over a `MaxOutstanding` of 2 (the code's 256) in the liveness run, so that the ids overflow; there
prompts are left out because no handler of theirs touches the stop flag or the queues' order.
Three tasks over a list of two overflow the list while one of each kind lives; two
turns let one end be held across the start of the next. In `AutoResume` the constants keep the
order the code's have (`FIRST_BACKOFF <= MAX_BACKOFF <= REARM_FLOOR <= PROBE`,
`DENSE_TRIES < MAX_NUDGES`), small enough for a stall to reach its ceiling within `MaxTime`.
Four requests are enough for a launch, its rival, a delete and a mode change or
shutdown at once, and three launches for a rival to be replaced by a third.
Two uploads and two sends are a race for a name, a race for an upload, and a send beside a
withdrawal; `MaxSuffix` 2 lets the loser take the next name and fail to find a third; the second
spelling folds to the first's key in the table but not on disk (`FoldingFS` FALSE; a filesystem that folds
was not run). A window of one row and four rows written make a replay of several pages with a
tail that does not reach the bottom; a channel of two is overrun by a third row; two losses
are a reconnect and a reconnect of that. Two ids that come round after `PidWrap` 2 with a slack of 2
over a lag of 1 let every id be another's in between, and `MaxGroups` 1 makes the record overflow.
Two spawns of one task are a race for slug and branch; the two deletes and two clones are one
against the other; one commit is enough to be lost.
`MaxInbox`, `MaxQueue`, `MaxCmds`, `MaxRaised`, `MaxTurns`, `MaxLaunches`, `MaxTime`, `MaxSuffix`,
`MaxTouches`, `MaxNew`, `MaxDrops`, `MaxChanges`, `MaxSpawns`, `MaxDeletes`, `MaxClones`, `MaxCommits`,
`MaxKeys` and `MaxMoves` bound what the code leaves unbounded. `MaxSubagents`, `MaxOutstanding`,
`MaxGroups`, `MaxAttachments`, `Window`, `BusCap`, the slacks and the constants of `resume.rs` are the code's.

**Deadlock** is checked for the runner, which can always be asked something. The other models
stop where the environment has used up its turns, its instants or its requests.

**Fairness.** `AgentRunner!FairSpec`: weak fairness on
*taking a message* and on *taking a command* separately: `select!` in `Runner::run` polls
its branches in random order, and neither queue's branch is ever disabled while it has
something. Weak fairness on the exit monitor, which waits for the child and at most
`DRAIN_AFTER_EXIT` for the reader; on the teardown, which is bounded by its own deadline; and on
the child's death once a stop was taken, because SIGKILL follows after the grace period. Nothing is
assumed of the child otherwise: it need never exit, answer, or stop printing, and nothing is
assumed of the reader.

`WsReplay!Fairness`: weak fairness on the steps that the socket, the page and the writers take by
themselves, and strong fairness on taking a broadcast, as the socket's `select!` is random
between the bus and the page's messages and is in a replay now and then. No fairness makes a
connection fail or a row be written; failures are bounded by `MaxDrops`, which is to say that
a page is promised the log only once its connection holds.

Only a page that is not refused is assumed to come back: one that is answered 401 (a new token after a restart, an
unpaired device) stops for good and says so (`common.js`, `reconnect`). What it had not seen by then it will
not see, which `FollowsTheLog` excuses.

`Access!Fairness`: a device keeps asking, and seconds pass. That is a premise. The dashboard's poll asks
every half minute whatever it was answered; a page's socket stops for good after one 401, so a device refused in the quiet
second may have to reload the page to ask again. Nothing pairs, saves or restarts because it must.

## 4. Proofs

TLAPS checks these for every value of the constants, from the named assumptions on them.

* `AgentRunnerProofs`. `TypeCorrect`. Then `StatusInv`, inductive: the types,
  `AwaitingIffHeld` and `RowTellsTheTruth` together, and that a runner in its teardown has a terminal
  status. It gives `AwaitingIffHeldHolds` and `RowTellsTheTruthHolds`. None of the parts is inductive
  alone: a handler that changes nothing in memory writes nothing, so the row is right afterwards only
  if it was right before, and the status is right after a transition only because the base, which
  `AwaitingIffHeld` keeps live and out of `awaiting_approval`, is.
* `AgentRunnerProofs`, of prompts. A prompt is told of by two messages, its row and itself; the log opens it at
  the first and the runner holds it at the second. `PromptInv` follows both through the reader and the queue:
  each is there once and the row leads (`QueueInv`); a prompt asked once is with its row, then open in the log,
  then held as well, and has no outcome until it is closed (`AskedOnce`); whatever the runner holds
  or answers is the present child's (`Own`); and nothing of a child outlives its runner (`Gone`). It
  gives `ShownIffHeldHolds` and `AnsweredOnceHolds`.
* `DispatcherProofs`. `Inv`: what a task may still print, by its kind and phase (`CliInv`), and that
  whatever is in `background_tasks` runs or still owes a line that takes it out, while a held end
  implies that set is not empty (`HeldInv`). It gives `HeldForAReasonHolds`. `CliInv` is needed because a
  task that ended must have its last word still to come if the dispatcher counts it as alive. `ListInv`, on top,
  follows the list of subagents: an entry shown running may still be told to have ended, one shown ended has
  ended. It gives `ShownEndsAreRealHolds` and `NoGhostSubagentsHolds`, through marking, updating and the drop of the
  oldest entry. `SettleInv` looks at the status the runner will have come to once it took what was
  raised: it is *working* only for an open turn, an unread message or a held end, and in the first turn it
  follows the CLI step by step. It gives `ComesToRestHolds` and `FirstTurnIdleIsYourTurnHolds`.
* `SupervisorProofs`, of the watcher. First the algebra of `Stall::due`: evidence only hastens it
  (`EvidenceOnlyHastens`), and never below the floor. Then `WatcherInv`: types, the ceiling, a stall that
  is not remembered has no nudges, and what the log has announced, which lags one nudge behind while
  one is on its way. The announcement is read off a count that was raised before the message was sent, so
  `SaysWhereItStands` rests on comparing the phase before with the phase after. It gives the ceiling, the announcements, the pacing and that no pass sleeps
  through its deadline.
* `SupervisorProofs`, of the registry. `RegistryInv`: a launch is at a stage that holds the slot exactly if
  the slot is its own, children live only in those stages, and a handler in the middle of a launch is
  alone in it. It gives `OneChildHolds` and `LiveChildIsHeldHolds` for any number of handlers.
  `HandlerInv`, on top, says that a launch without a runner has its handler; it gives
  `SlotHeldForAReasonHolds`. `RowInv`, also on top, adds that a runner that is done has a row that is not
  live; it gives `LiveRowIsOwnedHolds`.
* `ProcessSweepProofs`. The one assumption that matters, `ProcessSweepAssumption`, is about the
  world: a table is stamped less than the proof's slack after it was true (`Lag < ProofSlack`), and ids
  do not come round within the slacks (`ClockSlack + Lag + Coarse < PidWrap`). `Inv` says, besides
  types: nothing was started in the future and ids are given out apart (`Births`); a process under the child
  descends from it (`Kin`); a group that is the agent's was led by a process of its, and whoever is in it
  since before its proof came by inheritance (`Leads`, `ChildIsThere`); and every record is dated
  no later than its proof and, if its members are that old, the agent's (`RecordsHold`). It gives
  `TypeCorrect`, `RecordsAreProofs` and, from it, `SignalsOnlyOurs`: no reuse of ids makes the server
  signal a group that was not the agent's. `NoneIsLeft` (`NoneLeft`): what a finished teardown found it had
  no claim to, it has none to later, as whatever a record owns once the kernel has moved on (a fork, an exit, an
  orphan's new parent), it owned before, but for groups that were entered. It is about a teardown that ended on a
  table it could read; the other kind, "blind", ends at any look and is left out of what it says.
* `AccessProofs`. `AccessInv` is four parts: the types (`Shapes`); the file holds the last key or none, and a
  server that once had that key's hash has it still (`KeyInv`); every bind on disk, in memory, in force or about
  to be saved was written by the operator (`BindInv`); a save that is alone has the file to itself and until one
  has opened it file and memory agree (`SaveInv`). It gives `KeepsThePairedHolds`, `ListensAsToldHolds` and
  `SettingsAgreeHolds` for any number of devices, keys and saves at once.
* `WsReplayProofs`. `FollowInv`: nobody speaks of a row that is not written (`LogInv`), the cursor stands
  on rows the page has (`PageInv`), and until the page has a transcript no replay on its way begins above its
  cursor but at a tail (`SocketInv`), without which the first replay would lift the cursor over rows it skipped.
  It gives `CursorIsSafeHolds`, and `FollowsSafely`: the initial states and the steps of `WsReplay` are
  `LogFollower`'s, or stutter. Why rows come to be followed is liveness and stays with the run `WsFollow`. That the
  greatest element of a bounded set of numbers exists is not in the library; it is proved from the
  well-foundedness of `<` (`MaxOf`). `AccountInv` gives `AccountedHolds`: while a socket is up, every row is
  with its writer, on the bus, in a message or a replay on its way or still to be asked for, shown, admitted
  missed, or left untold by a dropped request; and a socket that has not subscribed is about to, from the page's cursor on, which is why a row that
  passes it by is not lost. `PromptInv` gives `PromptsAgreeHolds`: as long as no launch was given up (`TendedInv`), what the runner's
  task, or the launch before it, has still to do about a prompt (`TaskInv`), that the log tells which prompts are held once it has nothing to do (`LogTells`), and
  that the last message on its way about a prompt tells the same, on the bus and on the wire, the page's cards
  where there is none (`NewsInv`).
* `UploadsProofs`. `UploadInv`: how far an upload is when it has a row or is being withdrawn (`StageInv`); that
  a cancel waits for its upload or is past its recording (`CancelInv`); that rows do not share a name
  (`NamesAreDistinct`); that a row is marked sent exactly while one send has it (`SendInv`); that an upload's own
  files are its own under every name it holds (`HoldInv`), and that somebody answers for every file
  (`FileInv`). The last two hold each other up: a name is taken only when the disk has no file of it, so a file
  that nobody answered for would be nobody's to remove, and one removed by another would be missing from its row.
  It gives all five properties, for any number of uploads, sends and names, on a filesystem that folds case and
  on one that does not. `FileHasItsRow` reads as it does because of the proof: an earlier form excused a file
  while the upload that wrote it was at work on whatever name, which was no argument for that file; now somebody
  has to be at work on that very name.
* `WorkspaceProofs`. `WorkspaceInv` makes up for the locks the code does not take. Nothing
  unforced loses work (`NothingLost`). A clone that is alone goes from an absent folder to its own (`CloneInv`,
  `DiskInv`). A delete that is alone has its agent's row (`DelInv`), and nobody is about to take the name of an
  agent whose delete a crash or a hang-up ended half-way (`HalfInv`). Whatever worktree or branch an agent made is the one its
  record names (`MakerInv`); each worktree is a placed agent's or known to be stranded, and a delete that is past
  its worktree has removed it or stranded it (`TreeInv`); and an agent has what it made until its own delete
  is past it (`HoldInv`). It gives `NothingLostHolds`, `KeepsOthersHolds`, `RowsAndTreesAgreeHolds` and
  `CloneIsKeptHolds` for any number of folders, tasks, spawns, deletes, clones and commits. On a server that goes on, a delete that was cut short has lost its
  agent's worktree and perhaps its branch while spawns that had read the taken names before are still at work,
  so that the agent's second delete may meet what is another's; `DeleteBegins` therefore marks an agent in `dropped` as
  excused, like one that two deletes are at. The attempt showed `KeepsOthers` to be false of more than two clones: one clone's clean-up wipes another in which an agent
  was prepared, a third lands, the operator makes a branch of that agent's name in it, and its forced delete drops
  that. The property excuses what follows a wipe, which the model calls `wiped` and `CloneIsKept` is about.

Only model-checked: the liveness properties, because fairness and ENABLED are out of the prover's reach:
`StopIsObeyed`, `ExitIsReported` and `ReadyIsNoticed` of the runner, `NewKeyIsTaken` of `Access`, and `LogFollower`'s
`Keeps`, which is what `FollowsTheLog` asks beyond `FollowsSafely`. Every invariant and action property of a
passing run is proved. `TypeOK` is proved of every module that has
one (`TypeCorrect`, and `RegistryTypeCorrect` and `WatcherTypeCorrect` of the supervisor) but `WsReplay`: that its
log stays within its bound needs a count of the rows begun and not yet written, so this was only checked with TLC,
and its proofs use the part of the types they need.

## 5. What is not modelled

* Failing database writes: the code mostly drops their errors; the models take them to succeed, except
  the stored usage.
* `AgentRunner`: costs, sub-labels, tool labels. `Dispatcher`: task lines without `is_backgrounded`,
  retries, stderr, api errors. `AgentRegistry`: rename.
* The races of the watcher that no statement of the code rules out: a nudge typed just as a
  prompt is raised is possible in `AutoResume` and is not stated as a property. Likewise a
  relaxing mode change confirmed against a mode another request has since replaced. A stored
  snapshot older than the last one is left out, and the ceiling is one server's.
* `Dispatcher`: a subagent that is nested in another and waited for always gets its tool result.
* `Uploads`: an agent is deleted only once its runner is down, though delete goes on when `teardown_deadline`
  passes with it still up; sends by the runner after that are left out. The model without the guard passes the same
  checks and proofs, and is too large for a regular run. Left out as well are failures to make the folders, and the
  `.restore-*` files by which a copy is put back. The hourly prune of cancels is taken not to meet an upload that is still being recorded.
* `WsReplay`: the page's HTTP refetches, and the reload it makes when told that it lagged. The page takes a
  prompt's card away as soon as the operator decides (`agent.js`:804), before it is told: a decision lost with its
  socket hides a prompt that waits until the next replay. `expire_pending_permissions` is one step, so it does not
  fail midway. Within the run's bounds a runner never exits with a prompt held; the theorem covers it.
* `ProcessSweep`: zombies count as gone. The cache that shares one table among agents
  is left out: using a table twice records nothing new, the cell only moves forward, refreshes
  take turns under the sweep's write lock, and a stop and the teardown read a fresh one. Which groups
  `MAX_GROUPS` drops is left open. Clock steps, a process whose start is unknown (skipped by the code)
  and the moment between reading the table and the signal are not modelled. A group that a process
  enters after its start is excused by `joined`: the code's comment that a group has been
  non-empty ever since its oldest member does not hold for it.
* `Workspace`: detached heads, ignored files, the fallback of `unique_name` to a uuid, an operator who
  deletes and recreates the branch of a row. That paths are confined and do not overlap is in the choice
  of `Folders`; a configuration git is not run under is one case with one that declares commands; a
  `list_branches` that fails reads as empty; a leftover folder blocks its slug. Left
  out as well is a folder that an operator makes between a clone's check and git's own, and a removal that takes
  part of a folder before it fails counts as one that leaves it as it was. A hang-up of a spawn before its
  workspace is prepared leaves nothing and is a spawn that fails.
* `Access`: the session token and the Host and Origin checks are guards without state; the log of refusals
  (cleared at 64 entries, with the counts in it) is left out, as are the port on the command line and edits
  made by hand in the midst of a save. A second server started beside a running one marks live rows as
  stopped before its listener is bound (`main.rs`); two servers at once are not modelled.
* Repository scan, notes, recent inputs, parsing, rendering: data or I/O that keep no state other parts share.

## 6. What is left

1. An abstract specification of one agent's life (absent, live, ending; one child; a stop obeyed),
   refined by `AgentRegistry` composed with `AgentRunner`.
2. The permission mode across the row, the control request and the launch, with the confirmation of a
   relaxing change.
3. Two servers over one database.
4. A proof of `WsReplay`'s `TypeOK`, and of the invariants that items 1 and 2 will add.
