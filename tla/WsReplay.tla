------------------------------- MODULE WsReplay --------------------------------
(***************************************************************************)
(* One agent's event log as an agent page follows it over the WebSocket:   *)
(* the socket's loop and its replay (src/src/web/ws.rs), the log's queries *)
(* (src/src/db.rs), what writes to the log and broadcasts                  *)
(* (src/src/agent/supervisor.rs), and the page's bookkeeping               *)
(* (src/src/assets/transcript.js and agent.js).                            *)
(*                                                                         *)
(* A row is written and then broadcast, so it may reach the page twice,    *)
(* out of order, or not at all.  A replay page is read in up to five       *)
(* steps, while rows and prompts come and go, and the socket passes no     *)
(* broadcast on meanwhile.                                                 *)
(***************************************************************************)
EXTENDS Naturals, Sequences, FiniteSets, FiniteSetsExt, SequencesExt

CONSTANTS
  Prompts,    \* permission prompts, each asked once
  Window,     \* REPLAY_WINDOW
  BusCap,     \* the broadcast channel's capacity
  Written,    \* the rows the log may begin with, if not with none
  MaxNew,     \* bound: rows written after that
  MaxDrops    \* bound: connections lost and servers restarted

ASSUME WsReplayAssumption ==
  /\ IsFiniteSet(Prompts) /\ Window \in Nat \ {0} /\ BusCap \in Nat \ {0}
  /\ Written \in Nat /\ MaxNew \in Nat /\ MaxDrops \in Nat

MaxRows == Written + MaxNew

VARIABLES
  log,                   \* the agent's rows, each at its seq
  running, held, todo,   \* the registry's slot, the prompts the runner holds,
                         \* and what each writer has still to do
  untended,              \* the slot's launch was given up: there is no runner
  bus, lagged,           \* what the socket has not received; it fell behind
  link, subscribed,      \* the connection, and the socket's subscription
  inbox, reading, out,   \* subscribe messages, the replay being read, and
                         \* what is on its way to the page
  seeded, contiguous, seen, cards,  \* the page: its transcript, and the
                                    \* prompts it shows
  stopped,               \* the page was refused, and connects no more
  floor, missed, silent, blind,  \* history: the tail the last replay of one
                         \* began at, rows the bus dropped, rows never
                         \* broadcast, and whether news of a prompt was
                         \* dropped since the last replay read the prompts
  writes, drops          \* rows begun and connections lost so far

agentVars == <<log, running, held, todo, untended>>
busVars == <<bus, lagged, missed, blind>>
socketVars == <<link, subscribed, inbox, reading, out>>
pageVars == <<seeded, contiguous, seen, cards, stopped>>
aside == <<silent, writes, drops>>
vars == <<agentVars, busVars, socketVars, pageVars, floor, aside>>

(* Rows: a line of the transcript, a prompt asked, a prompt closed.        *)
NoPrompt == "none"
Line == [kind |-> "line", prompt |-> NoPrompt]
Asked(p) == [kind |-> "asked", prompt |-> p]
Closed(p) == [kind |-> "closed", prompt |-> p]

(* Messages on the bus; those of kind event go to subscribers only.        *)
Event(n) == [msg |-> "event", seq |-> n]
Ask(p) == [msg |-> "ask", prompt |-> p]
Resolve(p) == [msg |-> "resolve", prompt |-> p]

(* What a writer does, a step at a time.                                   *)
Write(row) == [do |-> "write", row |-> row]
WriteOnly(row) == [do |-> "write_only", row |-> row]
Close(p) == [do |-> "close", prompt |-> p]
Emit(msg) == [do |-> "emit", msg |-> msg]
Hold(p) == [do |-> "hold", prompt |-> p]
Serve == [do |-> "serve"]
Leave == [do |-> "leave"]

(* The agent's runner, which a request launches and a task of its own then *)
(* is, and other requests that write to its log.                           *)
Writers == {"runner", "request"}

(* No cursor: the subscriber wants the tail.                               *)
Tail0 == MaxRows + 1
NoReading == [at |-> "no"]

Owed(n) == \E w \in Writers : Contains(todo[w], Emit(Event(n)))

TypeOK ==
  /\ log \in Seq([kind : {"line", "asked", "closed"}, prompt : Prompts \union {NoPrompt}])
  /\ Len(log) <= MaxRows
  /\ running \in BOOLEAN /\ untended \in BOOLEAN /\ held \subseteq Prompts
  /\ todo \in [Writers -> Seq({Write(Line), WriteOnly(Line), Serve, Leave}
       \union {Emit(Event(n)) : n \in 1..MaxRows}
       \union UNION {{Write(Asked(p)), WriteOnly(Closed(p)), Close(p), Hold(p),
                      Emit(Resolve(p))} : p \in Prompts})]
  /\ bus \in Seq({Event(n) : n \in 1..MaxRows}
                 \union UNION {{Ask(p), Resolve(p)} : p \in Prompts}) /\ Len(bus) <= BusCap
  /\ lagged \in BOOLEAN /\ link \in {"down", "up"} /\ subscribed \in BOOLEAN
  /\ inbox \in Seq(0..Tail0)
  /\ reading.at \in {"no", "tail", "events", "running", "pending", "head"}
  /\ out \in Seq({Event(n) : n \in 1..MaxRows}
       \union UNION {{Ask(p), Resolve(p)} : p \in Prompts}
       \union [msg : {"replay"}, after : 0..MaxRows, cursor : 0..MaxRows,
               more : BOOLEAN, pending : SUBSET Prompts])
  /\ seeded \in BOOLEAN /\ stopped \in BOOLEAN /\ contiguous \in 0..MaxRows
  /\ seen \subseteq 1..Len(log) /\ cards \subseteq Prompts
  /\ floor \in 0..MaxRows /\ missed \subseteq 1..Len(log) /\ silent \subseteq 1..Len(log)
  /\ blind \in BOOLEAN /\ writes \in 0..MaxNew /\ drops \in 0..MaxDrops

(* A page of an agent that has no rows yet, or one that was away for some. *)
Init ==
  /\ \/ log = <<>> /\ seeded = FALSE /\ seen = {} /\ contiguous = 0
     \/ /\ log = [i \in 1..Written |-> Line] /\ seeded = TRUE
        /\ \E n \in 1..Written : seen = 1..n /\ contiguous = n
  /\ running = FALSE /\ untended = FALSE /\ held = {} /\ todo = [w \in Writers |-> <<>>]
  /\ bus = <<>> /\ lagged = FALSE /\ missed = {} /\ blind = FALSE
  /\ link = "down" /\ subscribed = FALSE
  /\ inbox = <<>> /\ reading = NoReading /\ out = <<>>
  /\ cards = {} /\ stopped = FALSE
  /\ floor = 0 /\ silent = {} /\ writes = 0 /\ drops = 0

--------------------------------------------------------------------------------
(* The log's queries.                                                      *)

(* pending_permissions: asked in the log and not closed since.             *)
Pending ==
  {p \in Prompts : \E i \in DOMAIN log :
     log[i] = Asked(p) /\ \A j \in i + 1..Len(log) : log[j] # Closed(p)}

(* tail_cursor.                                                            *)
TailCursor == Max({0, Len(log) - Window})

(* The last seq of events_after, or the cursor it was given.               *)
LastOfPage(after) == Max({after, Min({after + Window, Len(log)})})

--------------------------------------------------------------------------------
(* Writers.  The runner takes one input at a time and finishes with it.    *)

(* The channel keeps the newest BusCap messages of this receiver.          *)
Broadcast(m) ==
  IF link = "down" THEN UNCHANGED busVars
  ELSE /\ bus' = Append(IF Len(bus) = BusCap THEN Tail(bus) ELSE bus, m)
       /\ LET lost == IF Len(bus) = BusCap THEN {Head(bus)} ELSE {} IN
          /\ lagged' = (lagged \/ lost # {})
          /\ missed' = missed \union {x.seq : x \in {y \in lost : y.msg = "event"}}
          /\ blind' = (blind \/ \E x \in lost : x.msg # "event")

Begins(w, steps) == todo[w] = <<>> /\ todo' = [todo EXCEPT ![w] = steps]
Writes(n) == writes + n <= MaxNew /\ writes' = writes + n

(* There is a runner.                                                      *)
Served == running /\ ~untended

(* The child printed a line; persist writes the row, then emits it.        *)
RunnerLine ==
  /\ Served /\ Writes(1) /\ Begins("runner", <<Write(Line)>>)
  /\ UNCHANGED <<log, running, held, untended, busVars, socketVars, pageVars, floor, silent, drops>>

(* The child asks for permission: the row, its event, and then the prompt  *)
(* is held and announced.                                                  *)
RunnerAsks(p) ==
  /\ Served /\ Writes(2) /\ \A i \in DOMAIN log : log[i] # Asked(p)
  /\ Begins("runner", <<Write(Asked(p)), Hold(p)>>)
  /\ UNCHANGED <<log, running, held, untended, busVars, socketVars, pageVars, floor, silent, drops>>

(* decide and withdraw: no longer held, then logged, then announced.       *)
PromptCloses(p) ==
  /\ Served /\ p \in held /\ Writes(1) /\ held' = held \ {p}
  /\ Begins("runner", <<Close(p)>>)
  /\ UNCHANGED <<log, running, untended, busVars, socketVars, pageVars, floor, silent, drops>>

(* on_exit: what is still held is closed, a prompt at a time, then the     *)
(* exit is logged and the runner leaves the registry.                      *)
RunnerExits ==
  /\ Served /\ Writes(Cardinality(held) + 1) /\ held' = {}
  /\ LET open == SetToSeq(held) IN
     Begins("runner", [i \in DOMAIN open |-> Close(open[i])] \o <<Write(Line), Leave>>)
  /\ UNCHANGED <<log, running, untended, busVars, socketVars, pageVars, floor, silent, drops>>

(* launch: the slot is taken, then the prompts an earlier process left are *)
(* closed in the log.  Their rows are not broadcast, only the outcome is.  *)
(* A first message is logged, and then the runner gets a task of its own.  *)
Launch ==
  /\ ~running /\ running' = TRUE
  /\ LET left == SetToSeq(Pending) IN
     \E first \in {<<>>} \union {<<Write(Line)>> : x \in {log} \intersect {<<>>}} :
       /\ Writes(Cardinality(Pending) + Len(first))
       /\ Begins("runner", [i \in DOMAIN left |-> WriteOnly(Closed(left[i]))]
                             \o [i \in DOMAIN left |-> Emit(Resolve(left[i]))]
                             \o first \o <<Serve>>)
  /\ UNCHANGED <<log, held, untended, busVars, socketVars, pageVars, floor, silent, drops>>

(* Until then it is a request, and its client may hang up.  A query that   *)
(* was begun is finished, but what it wrote is not told of; the slot stays *)
(* taken, by nobody.                                                       *)
Untold(w) == {n \in 1..Len(log) : Contains(todo[w], Emit(Event(n)))}
Undone(steps) ==
  IF Head(steps).do = "write" THEN {<<>>, <<WriteOnly(Head(steps).row)>>}
  ELSE {SubSeq(steps, 1, k) : k \in {k \in 0..Len(steps) :
          \A i \in DOMAIN steps : i <= k <=> steps[i].do = "write_only"}}
LaunchDropped ==
  /\ Contains(todo["runner"], Serve) /\ untended' = TRUE
  /\ \E steps \in Undone(todo["runner"]) : todo' = [todo EXCEPT !["runner"] = steps]
  /\ silent' = silent \union Untold("runner")
  /\ UNCHANGED <<log, running, held, busVars, socketVars, pageVars, floor, writes, drops>>

(* log_system of the auto-resume pass, or set_permission_mode's event.     *)
RequestLogs ==
  /\ Writes(1) /\ Begins("request", <<Write(Line)>>)
  /\ UNCHANGED <<log, running, held, untended, busVars, socketVars, pageVars, floor, silent, drops>>

(* A mode change is a request too: its event may be logged and never told  *)
(* of.  Before it is logged, a hang-up changes nothing of what follows.    *)
RequestDropped ==
  /\ Untold("request") # {} /\ silent' = silent \union Untold("request")
  /\ todo' = [todo EXCEPT !["request"] = <<>>]
  /\ UNCHANGED <<log, running, held, untended, busVars, socketVars, pageVars, floor, writes, drops>>

(* A writer's next step.                                                   *)
WriterSteps(w) ==
  /\ todo[w] # <<>>
  /\ LET step == Head(todo[w])
         rest == Tail(todo[w])
         Then(steps) == todo' = [todo EXCEPT ![w] = steps]
     IN
     \/ /\ step.do = "write" /\ log' = Append(log, step.row)
        /\ Then(<<Emit(Event(Len(log) + 1))>> \o rest)
        /\ UNCHANGED <<running, held, untended, busVars, silent>>
     \/ /\ step.do = "close" /\ log' = Append(log, Closed(step.prompt))
        /\ Then(<<Emit(Event(Len(log) + 1)), Emit(Resolve(step.prompt))>> \o rest)
        /\ UNCHANGED <<running, held, untended, busVars, silent>>
     \/ /\ step.do = "write_only" /\ log' = Append(log, step.row) /\ Then(rest)
        /\ silent' = silent \union {Len(log) + 1}
        /\ UNCHANGED <<running, held, untended, busVars>>
     \/ /\ step.do = "emit" /\ Broadcast(step.msg) /\ Then(rest)
        /\ UNCHANGED <<log, running, held, untended, silent>>
     \/ /\ step.do = "hold" /\ held' = held \union {step.prompt}
        /\ Broadcast(Ask(step.prompt)) /\ Then(rest)
        /\ UNCHANGED <<log, running, untended, silent>>
     \/ /\ step.do = "leave" /\ running' = FALSE /\ Then(rest)
        /\ UNCHANGED <<log, held, untended, busVars, silent>>
     \/ /\ step.do = "serve" /\ Then(rest)
        /\ UNCHANGED <<log, running, held, untended, busVars, silent>>
  /\ UNCHANGED <<socketVars, pageVars, floor, writes, drops>>

--------------------------------------------------------------------------------
(* The socket's loop.  While it handles a subscription it receives nothing *)
(* else: neither a message of the page nor a broadcast.                    *)

Sends(m) == out' = Append(out, m)

TakesSubscribe ==
  /\ link = "up" /\ reading = NoReading /\ inbox # <<>>
  /\ subscribed' = TRUE /\ inbox' = Tail(inbox)
  /\ reading' = IF Head(inbox) = Tail0 THEN [at |-> "tail"]
                ELSE [at |-> "events", after |-> Head(inbox)]
  /\ UNCHANGED <<agentVars, busVars, link, out, pageVars, floor, aside>>

ReadsTail ==
  /\ reading.at = "tail" /\ reading' = [at |-> "events", after |-> TailCursor]
  /\ floor' = Max({floor, TailCursor})
  /\ UNCHANGED <<agentVars, busVars, link, subscribed, inbox, out, pageVars, aside>>

ReadsEvents ==
  /\ reading.at = "events"
  /\ reading' = [at |-> "running", after |-> reading.after, cursor |-> LastOfPage(reading.after)]
  /\ UNCHANGED <<agentVars, busVars, link, subscribed, inbox, out, pageVars, floor, aside>>

(* Mutant: the prompts are read whether or not anyone could answer them.   *)
ReadsRunningNot ==
  /\ reading.at = "running" /\ reading' = [reading EXCEPT !.at = "pending"]
  /\ UNCHANGED <<agentVars, busVars, link, subscribed, inbox, out, pageVars, floor, aside>>

(* is_running.  If it is not, it has no prompts.                           *)
ReadsRunning ==
  /\ reading.at = "running"
  /\ IF running
     THEN reading' = [reading EXCEPT !.at = "pending"] /\ UNCHANGED blind
     ELSE /\ reading' = [at |-> "head", after |-> reading.after, cursor |-> reading.cursor,
                         pending |-> {}]
          /\ blind' = FALSE
  /\ UNCHANGED <<agentVars, bus, lagged, missed, link, subscribed, inbox, out, pageVars,
                 floor, aside>>

ReadsPending ==
  /\ reading.at = "pending" /\ blind' = FALSE
  /\ reading' = [at |-> "head", after |-> reading.after, cursor |-> reading.cursor,
                 pending |-> Pending]
  /\ UNCHANGED <<agentVars, bus, lagged, missed, link, subscribed, inbox, out, pageVars,
                 floor, aside>>

(* has_more: max_seq is past the page.                                     *)
HasMore(cursor) == cursor < Len(log)

Replies ==
  /\ reading.at = "head" /\ reading' = NoReading
  /\ Sends([msg |-> "replay", after |-> reading.after, cursor |-> reading.cursor,
            pending |-> reading.pending, more |-> HasMore(reading.cursor)])
  /\ UNCHANGED <<agentVars, busVars, link, subscribed, inbox, pageVars, floor, aside>>

(* should_forward: an event goes to a subscriber, the rest to every page.  *)
TakesBroadcast ==
  /\ link = "up" /\ reading = NoReading /\ ~lagged /\ bus # <<>> /\ bus' = Tail(bus)
  /\ IF Head(bus).msg # "event" \/ subscribed THEN Sends(Head(bus)) ELSE UNCHANGED out
  /\ UNCHANGED <<agentVars, lagged, missed, blind, link, subscribed, inbox, reading, pageVars,
                 floor, aside>>

(* The receiver fell behind: the page is only told so.                     *)
TakesLagged ==
  /\ link = "up" /\ reading = NoReading /\ lagged /\ lagged' = FALSE
  /\ UNCHANGED <<agentVars, bus, missed, blind, socketVars, pageVars, floor, aside>>

--------------------------------------------------------------------------------
(* The page.                                                               *)

(* replayFrom || null.                                                     *)
ReconnectCursor == IF contiguous = 0 THEN Tail0 ELSE contiguous

(* The socket opens, and subscribes to the bus.  The page subscribes from  *)
(* where it is; when it first loads it may do so twice.                    *)
Connect ==
  /\ link = "down" /\ ~stopped /\ link' = "up"
  /\ \E n \in {1} \union {2 : x \in {seeded} \ {TRUE}} :
       inbox' = [i \in 1..n |-> ReconnectCursor]
  /\ UNCHANGED <<agentVars, busVars, subscribed, reading, out, pageVars, floor, aside>>

(* credentialRefused: a restart mints a new token, and a device may be     *)
(* unpaired.  A 401 is a verdict: the page stops for good and says so.     *)
Refused ==
  /\ link = "down" /\ ~stopped /\ stopped' = TRUE
  /\ UNCHANGED <<agentVars, busVars, socketVars, seeded, contiguous, seen, cards, floor, aside>>

(* Mutant: the cursor is the newest row that was seen.                     *)
Newest(c, rows) == Max({c} \union rows)

(* accept moves on over every row that was seen, and no further.           *)
Contiguous(c, rows) ==
  Max({c} \union {n \in c..MaxRows : \A m \in c + 1..n : m \in rows})

(* Mutant: a page the live stream has overtaken is taken for the last.     *)
WalkedPast(m) ==
  IF m.more /\ m.cursor > m.after /\ m.cursor >= Max({0} \union seen)
  THEN <<m.cursor>> ELSE <<>>

(* nextWalkCursor: the page's own cursor, if there is more.                *)
NextWalk(m) == IF m.more /\ m.cursor > m.after THEN <<m.cursor>> ELSE <<>>

PageTakesReplay ==
  /\ out # <<>> /\ Head(out).msg = "replay" /\ out' = Tail(out)
  /\ LET m == Head(out)
         start == IF seeded THEN contiguous ELSE Max({contiguous, m.after})
     IN /\ seeded' = TRUE /\ seen' = seen \union (m.after + 1..m.cursor)
        /\ contiguous' = Contiguous(start, seen')
        /\ cards' = m.pending
        /\ inbox' = inbox \o NextWalk(m)
  /\ UNCHANGED <<agentVars, busVars, link, subscribed, reading, stopped, floor, aside>>

PageTakesEvent ==
  /\ out # <<>> /\ Head(out).msg = "event" /\ out' = Tail(out)
  /\ seen' = seen \union {Head(out).seq} /\ contiguous' = Contiguous(contiguous, seen')
  /\ UNCHANGED <<agentVars, busVars, link, subscribed, inbox, reading, seeded, cards, stopped,
                 floor, aside>>

PageTakesPrompt ==
  /\ out # <<>> /\ out' = Tail(out)
  /\ \/ Head(out).msg = "ask" /\ cards' = cards \union {Head(out).prompt}
     \/ Head(out).msg = "resolve" /\ cards' = cards \ {Head(out).prompt}
  /\ UNCHANGED <<agentVars, busVars, link, subscribed, inbox, reading, seeded, contiguous, seen,
                 stopped, floor, aside>>

--------------------------------------------------------------------------------
(* Failures.                                                               *)

Cut ==
  /\ drops < MaxDrops /\ drops' = drops + 1
  /\ link' = "down" /\ subscribed' = FALSE /\ bus' = <<>> /\ lagged' = FALSE
  /\ inbox' = <<>> /\ reading' = NoReading /\ out' = <<>>
  /\ UNCHANGED <<missed, blind, pageVars, floor, silent, writes>>

(* A laptop sleeps, a network changes.                                     *)
ConnectionLost == link = "up" /\ Cut /\ UNCHANGED agentVars

(* The server is killed and started again: the log is what is left.        *)
ServerRestarts ==
  /\ Cut /\ running' = FALSE /\ untended' = FALSE /\ held' = {} /\ todo' = [w \in Writers |-> <<>>]
  /\ UNCHANGED log

RunnerActs ==
  RunnerLine \/ RunnerExits \/ (\E p \in Prompts : RunnerAsks(p) \/ PromptCloses(p))
SocketReads == ReadsTail \/ ReadsEvents \/ ReadsRunning \/ ReadsPending \/ Replies
PageActs == PageTakesReplay \/ PageTakesEvent \/ PageTakesPrompt

Next ==
  \/ RunnerActs \/ Launch \/ RequestLogs \/ (\E w \in Writers : WriterSteps(w))
  \/ LaunchDropped \/ RequestDropped
  \/ Connect \/ Refused \/ TakesSubscribe \/ SocketReads \/ TakesBroadcast \/ TakesLagged
  \/ PageActs \/ ConnectionLost \/ ServerRestarts

(* A task that can run is polled again; select! picks a ready branch at    *)
(* random, so neither of its branches is put off for ever; a page that is  *)
(* not refused comes back, at most MaxDrops times over.                    *)
Fairness ==
  /\ \A w \in Writers : WF_vars(WriterSteps(w))
  /\ WF_vars(Connect) /\ WF_vars(TakesSubscribe) /\ WF_vars(SocketReads)
  /\ SF_vars(TakesBroadcast \/ TakesLagged) /\ WF_vars(PageActs)

Spec == Init /\ [][Next]_vars /\ Fairness

--------------------------------------------------------------------------------
(* Properties.                                                             *)

(* A replay page on its way covers the rows it holds, and if it says there *)
(* is more, all that follow; a subscription covers all after its cursor.   *)
ReplyCovers(m, n) == m.msg = "replay" /\ n > m.after /\ (n <= m.cursor \/ m.more)
ReadingCovers(n) ==
  \/ reading.at = "events" /\ n > reading.after
  \/ reading.at \in {"running", "pending", "head"} /\ n > reading.after
Covered(n) ==
  \/ \E i \in DOMAIN inbox : inbox[i] = Tail0 \/ n > inbox[i]
  \/ reading.at = "tail" \/ ReadingCovers(n)
  \/ \E i \in DOMAIN out : ReplyCovers(out[i], n)

(* Once a page has connected, no row is lost track of, whatever is written *)
(* between the steps of a replay and however replays and broadcasts cross: *)
(* it has been seen, or will be told of by a broadcast that is owed or in  *)
(* flight, or by the replay under way or the next page of it.  Excused are *)
(* rows above which the page began anew, rows this receiver was told it    *)
(* had missed, and rows nobody broadcasts: those that close the prompts of *)
(* an earlier process, and those whose writer's client hung up.            *)
Accounted ==
  link = "up" =>
    \A n \in floor + 1..Len(log) :
      \/ n \in seen \union missed \union silent
      \/ Owed(n) \/ Contains(bus, Event(n)) \/ Contains(out, Event(n))
      \/ Covered(n)

(* When all is quiet, the page shows the prompts the runner holds, and no  *)
(* other: not one a dead process asked, nor one another page answered      *)
(* while this one was away.  Excused is a slot whose launch was given up:  *)
(* it closes a dead process's prompts too, but may never say so, and a     *)
(* page that read them just before keeps their cards until it reconnects.  *)
Quiet ==
  /\ link = "up" /\ inbox = <<>> /\ reading = NoReading /\ out = <<>> /\ bus = <<>> /\ ~lagged
  /\ \A w \in Writers : todo[w] = <<>>
PromptsAgree == Quiet /\ ~blind /\ ~untended => cards = held

(* The page's cursor is never past a row it was not given and should have  *)
(* been: everything at or below it is accounted for (transcript.js 15).    *)
CursorIsSafe == \A n \in floor + 1..contiguous : n \in seen

(* Replay and live stream, overlapping freely and cut off at any step,     *)
(* together follow the log: every row comes to be seen, or was excused.  A *)
(* page that was refused is excused from all: it says it follows no more.  *)
Followed == INSTANCE LogFollower WITH
  head <- Len(log), got <- seen,
  excused <- missed \union silent \union 1..(IF stopped THEN Len(log) ELSE floor)
FollowsTheLog == Followed!Spec
================================================================================
