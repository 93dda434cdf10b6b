--------------------------- MODULE DispatcherProofs ---------------------------
(***************************************************************************)
(* Proofs about Dispatcher, for any set of tasks and any bounds.           *)
(***************************************************************************)
EXTENDS Dispatcher, WellFoundedInduction, TLAPS

StartLines == {"task_started", "background_tasks_changed"}
EndLines == {"background_tasks_changed", "task_updated", "task_notification"}

(* What of the CLI's bookkeeping the argument uses: a task that has not    *)
(* begun owes no line, a backgrounded one owes lines of its start while it *)
(* runs and of its end once it ended.                                      *)
CliInv ==
  /\ turn \in BOOLEAN /\ turn_open \in BOOLEAN /\ deferred_turn_end \in BOOLEAN
  /\ kind \in [Tasks -> Kind]
  /\ phase \in [Tasks -> {"unborn", "running", "ended"}]
  /\ owed \in [Tasks -> SUBSET Line]
  /\ \A t \in Tasks :
       /\ phase[t] = "unborn" => owed[t] = {}
       /\ kind[t] = "background" /\ phase[t] = "running" => owed[t] \subseteq StartLines
       /\ kind[t] = "background" /\ phase[t] = "ended" => owed[t] \subseteq EndLines
       /\ kind[t] # "background" => owed[t] \subseteq {"task_started", "tool_result"}

(* The live set holds a task only until the first line of its end, and a   *)
(* turn end is held back only while the live set holds one.                *)
HeldInv ==
  /\ background_tasks \subseteq Tasks
  /\ \A t \in background_tasks :
       kind[t] = "background" /\ (phase[t] = "running" \/ (phase[t] = "ended" /\ owed[t] # {}))
  /\ deferred_turn_end => background_tasks # {}

Inv == CliInv /\ HeldInv

--------------------------------------------------------------------------------
(* Steps, by what they do to the CLI and to the dispatcher's turn state.   *)

(* A step that leaves both alone.                                          *)
LEMMA InvFrame ==
  ASSUME Inv, UNCHANGED <<turn, kind, phase, owed>>, UNCHANGED turnVars
  PROVE  Inv'
BY DEF Inv, CliInv, HeldInv, turnVars

(* What printing a line, and the end of a task line, come to.              *)
LEMMA OwesCli ==
  ASSUME CliInv, NEW t \in Tasks, NEW l \in Line, Owes(t, l),
         turn_open' \in BOOLEAN, deferred_turn_end' \in BOOLEAN
  PROVE  CliInv'
BY DEF Owes, CliInv

LEMMA AfterTaskLineHeld ==
  ASSUME CliInv, NEW left, AfterTaskLine(left)
  PROVE  /\ background_tasks' = left
         /\ deferred_turn_end' => left # {}
         /\ turn_open' \in BOOLEAN /\ deferred_turn_end' \in BOOLEAN
BY DEF AfterTaskLine, CliInv

(* A task still in the live set after any line of task t stays accounted   *)
(* for when t leaves the set with the first line of its end.               *)
LEMMA EndLineKeepsInv ==
  ASSUME Inv, NEW t \in Tasks, NEW l \in Line, Owes(t, l),
         AfterTaskLine(background_tasks \ {t})
  PROVE  Inv'
<1>1. /\ background_tasks' = background_tasks \ {t}
      /\ deferred_turn_end' => background_tasks' # {}
      /\ turn_open' \in BOOLEAN /\ deferred_turn_end' \in BOOLEAN
  BY AfterTaskLineHeld DEF Inv
<1>2. CliInv'
  BY <1>1, OwesCli DEF Inv
<1>3. \A u \in background_tasks' : u # t /\ owed'[u] = owed[u]
  BY <1>1 DEF Owes, Inv, CliInv, HeldInv
<1>4. HeldInv'
  BY <1>1, <1>3 DEF Owes, Inv, HeldInv
<1>5. QED
  BY <1>2, <1>4 DEF Inv

(* Without a task line the turn state moves only at an assistant line,     *)
(* which leaves the held turn end alone, and at a result.                  *)
LEMMA AssistantKeepsInv ==
  ASSUME Inv, NEW d \in BOOLEAN, OnAssistant(d), UNCHANGED <<turn, kind, phase, owed>>
  PROVE  Inv'
BY DEF Inv, CliInv, HeldInv, OnAssistant

(* The dispatcher's record of the tasks agrees with what the CLI has       *)
(* still to print, for any number of tasks and turns.                      *)
THEOREM InvHolds == Spec => []Inv
<1>1. Init => Inv
  BY DEF Init, Inv, CliInv, HeldInv
<1>2. Inv /\ [Next]_vars => Inv'
  <2> SUFFICES ASSUME Inv, [Next]_vars PROVE Inv'
    OBVIOUS
  <2>1. CASE TurnBegins
    BY <2>1 DEF TurnBegins, Inv, CliInv, HeldInv, turnVars
  <2>2. CASE MessageJoinsTurn
    BY <2>2, InvFrame DEF MessageJoinsTurn
  <2>3. CASE Speaks
    BY <2>3, AssistantKeepsInv DEF Speaks
  <2>4. ASSUME NEW t \in Tasks, SubagentStarts(t) PROVE Inv'
    <3>1. /\ phase[t] = "unborn" /\ phase' = [phase EXCEPT ![t] = "running"]
          /\ \E lines \in SUBSET StartLines :
               /\ owed' = [owed EXCEPT ![t] = lines]
               /\ kind[t] # "background" => lines = {"task_started"}
          /\ UNCHANGED <<turn, kind>> /\ UNCHANGED turnVars
      BY <2>4 DEF SubagentStarts, StartLines
    <3>2. StartLines \subseteq Line
      BY DEF StartLines, Line
    <3>3. CliInv'
      BY <3>1, <3>2 DEF Inv, CliInv, turnVars
    <3>4. HeldInv'
      BY <3>1 DEF Inv, CliInv, HeldInv, turnVars
    <3>5. QED
      BY <3>3, <3>4 DEF Inv
  <2>5. ASSUME NEW t \in Tasks, SubagentEnds(t) PROVE Inv'
    <3>1. /\ phase[t] = "running" /\ phase' = [phase EXCEPT ![t] = "ended"]
          /\ UNCHANGED <<turn, kind>> /\ UNCHANGED turnVars
      BY <2>5 DEF SubagentEnds, Announced
    <3>2. PICK lines \in SUBSET Line :
            /\ owed' = [owed EXCEPT ![t] = lines] /\ lines # {}
            /\ kind[t] = "background" => lines \subseteq EndLines
            /\ kind[t] # "background" => lines = {"tool_result"}
      <4>1. CASE kind[t] = "background"
        <5>1. PICK lines \in (SUBSET EndLines) \ {{}} : owed' = [owed EXCEPT ![t] = lines]
          BY <2>5, <4>1 DEF SubagentEnds, EndLines
        <5>2. lines \subseteq Line
          BY DEF EndLines, Line
        <5>3. QED
          BY <4>1, <5>1, <5>2
      <4>2. CASE kind[t] # "background"
        <5>1. owed' = [owed EXCEPT ![t] = {"tool_result"}] /\ {"tool_result"} \subseteq Line
          BY <2>5, <4>2 DEF SubagentEnds, Line
        <5>2. QED
          BY <4>2, <5>1
      <4>3. QED
        BY <4>1, <4>2
    <3>3. CliInv'
      BY <3>1, <3>2 DEF Inv, CliInv, turnVars
    <3>4. HeldInv'
      BY <3>1, <3>2 DEF Inv, CliInv, HeldInv, turnVars
    <3>5. QED
      BY <3>3, <3>4 DEF Inv
  <2>6. ASSUME NEW t \in Tasks, TaskStarted(t) PROVE Inv'
    <3>1. Owes(t, "task_started") /\ "task_started" \in Line
      BY <2>6 DEF TaskStarted, Line
    <3>2. CASE kind[t] # "background"
      <4>1. UNCHANGED turnVars
        BY <2>6, <3>2 DEF TaskStarted
      <4>2. CliInv'
        BY <3>1, <4>1, OwesCli DEF Inv, CliInv, turnVars
      <4>3. HeldInv'
        BY <3>1, <3>2, <4>1 DEF Owes, Inv, CliInv, HeldInv, turnVars
      <4>4. QED
        BY <4>2, <4>3 DEF Inv
    <3>3. CASE kind[t] = "background"
      <4>1. /\ background_tasks' = background_tasks \union {t}
            /\ turn_open' \in BOOLEAN /\ deferred_turn_end' \in BOOLEAN
        BY <2>6, <3>3, AfterTaskLineHeld DEF TaskStarted, Inv
      <4>2. CliInv'
        BY <3>1, <4>1, OwesCli DEF Inv
      <4>3. phase[t] = "running"
        BY <3>1, <3>3 DEF Owes, Inv, CliInv, StartLines, EndLines
      <4>4. HeldInv'
        BY <3>1, <3>3, <4>1, <4>3 DEF Owes, Inv, CliInv, HeldInv
      <4>5. QED
        BY <4>2, <4>4 DEF Inv
    <3>4. QED
      BY <3>2, <3>3
  <2>7. ASSUME NEW t \in Tasks, BackgroundTasksChanged(t) PROVE Inv'
    <3> DEFINE live == {u \in Tasks : kind[u] = "background" /\ phase[u] = "running"}
    <3>1. Owes(t, "background_tasks_changed") /\ "background_tasks_changed" \in Line
      BY <2>7 DEF BackgroundTasksChanged, Line
    <3>2. /\ background_tasks' = live
          /\ deferred_turn_end' => live # {}
          /\ turn_open' \in BOOLEAN /\ deferred_turn_end' \in BOOLEAN
      BY <2>7, AfterTaskLineHeld DEF BackgroundTasksChanged, Inv
    <3>3. CliInv'
      BY <3>1, <3>2, OwesCli DEF Inv
    <3>4. HeldInv'
      BY <3>1, <3>2 DEF Owes, HeldInv
    <3>5. QED
      BY <3>3, <3>4 DEF Inv
  <2>8. ASSUME NEW t \in Tasks, TaskUpdated(t) PROVE Inv'
    BY <2>8, EndLineKeepsInv DEF TaskUpdated, Line
  <2>9. ASSUME NEW t \in Tasks, TaskNotification(t) PROVE Inv'
    BY <2>9, EndLineKeepsInv DEF TaskNotification, Line
  <2>10. ASSUME NEW t \in Tasks, ToolResult(t) PROVE Inv'
    <3>1. Owes(t, "tool_result") /\ "tool_result" \in Line /\ UNCHANGED turnVars
      BY <2>10 DEF ToolResult, Line
    <3>2. CliInv'
      BY <3>1, OwesCli DEF Inv, CliInv, turnVars
    <3>3. kind[t] # "background"
      BY <3>1 DEF Owes, Inv, CliInv, StartLines, EndLines
    <3>4. HeldInv'
      BY <3>1, <3>3 DEF Owes, Inv, CliInv, HeldInv, turnVars
    <3>5. QED
      BY <3>2, <3>4 DEF Inv
  <2>11. ASSUME NEW t \in Tasks, Launched(t) PROVE Inv'
    BY <2>11, InvFrame DEF Launched, cliVars
  <2>12. ASSUME NEW t \in Tasks, SubagentWorks(t) PROVE Inv'
    BY <2>12, AssistantKeepsInv DEF SubagentWorks, cliVars
  <2>13. ASSUME NEW out \in BOOLEAN, TurnEnds(out) PROVE Inv'
    <3>1. PICK dropped \in SUBSET {t \in Tasks : kind[t] = "synchronous" /\ Announced(t)} :
            phase' = [t \in Tasks |-> IF t \in dropped THEN "ended" ELSE phase[t]]
      BY <2>13 DEF TurnEnds
    <3>2. /\ turn' = FALSE /\ turn_open' = FALSE
          /\ deferred_turn_end' = IF out THEN FALSE
                                  ELSE deferred_turn_end \/ background_tasks # {}
          /\ UNCHANGED <<kind, owed, background_tasks>>
      BY <2>13 DEF TurnEnds, OnResult
    <3>3. \A t \in Tasks : kind[t] = "background" => phase'[t] = phase[t]
      BY <3>1 DEF Announced
    <3>4. CliInv'
      BY <3>1, <3>2 DEF Inv, CliInv, Announced
    <3>5. HeldInv'
      BY <3>2, <3>3 DEF Inv, HeldInv
    <3>6. QED
      BY <3>4, <3>5 DEF Inv
  <2>14. CASE OperatorSends
    BY <2>14, InvFrame DEF OperatorSends
  <2>15. CASE RunnerApplies
    BY <2>15, InvFrame DEF RunnerApplies, cliVars
  <2>16. CASE UNCHANGED vars
    BY <2>16, InvFrame DEF vars, cliVars
  <2>17. QED
    BY <2>1, <2>2, <2>3, <2>4, <2>5, <2>6, <2>7, <2>8, <2>9, <2>10, <2>11, <2>12,
       <2>13, <2>14, <2>15, <2>16 DEF Next, TaskLine
<1>3. QED
  BY <1>1, <1>2, PTL DEF Spec

(* A turn end the dispatcher holds back is held back for a backgrounded    *)
(* subagent that runs or still owes a line of its end; so, as the CLI      *)
(* tells of every end, it lands.                                           *)
THEOREM HeldForAReasonHolds == Spec => []HeldForAReason
<1>1. Inv => HeldForAReason
  BY DEF Inv, HeldInv, HeldForAReason
<1>2. QED
  BY <1>1, InvHolds, PTL

--------------------------------------------------------------------------------
(* The subagent list.                                                      *)

Entry == [task_id : Tasks, state : Shown]

(* Inductive on top of Inv.  A task is listed once; what is shown ended    *)
(* ended, or was closed as a guess; and what is shown running is live: a   *)
(* backgrounded one in the live set, one that is waited for yet to return, *)
(* known to be synchronous and, if the agent's own, to be top-level.       *)
Over == {t \in Tasks : phase[t] = "ended" \/ t \in closed_by_backstop}
Waited(t) ==
  /\ t \in synchronous \ backgrounded
  /\ kind[t] = "synchronous" => t \in top_level_synchronous
Alive ==
  {t \in Tasks :
     \/ kind[t] = "background" /\ t \in background_tasks
     \/ /\ kind[t] # "background" /\ Waited(t)
        /\ phase[t] = "running" \/ "tool_result" \in owed[t]}

(* What the dispatcher remembers of a subagent's kind is so, and a guess   *)
(* is made only of the agent's own synchronous subagents.                  *)
Kinds ==
  /\ closed_by_backstop \subseteq top_level_synchronous
  /\ top_level_synchronous \subseteq synchronous
  /\ \A t \in top_level_synchronous : t \in Tasks /\ kind[t] = "synchronous"
  /\ \A t \in synchronous : kind[t] # "background"
  /\ \A t \in backgrounded : kind[t] = "background"
  /\ \A t \in Tasks : "tool_result" \in owed[t] => phase[t] = "ended"
  /\ \A t \in Tasks : "task_started" \in owed[t] => phase[t] = "running"

Each(list, over, alive) ==
  /\ list \in Seq(Entry)
  /\ \A i, j \in DOMAIN list : list[i].task_id = list[j].task_id => i = j
  /\ \A i \in DOMAIN list : list[i].state # "running" => list[i].task_id \in over
  /\ \A i \in DOMAIN list : list[i].state = "running" => list[i].task_id \in alive
ListInv == Each(subagents, Over, Alive) /\ Kinds

(* A list some of whose entries are marked is in order if what is marked   *)
(* is as it is marked, and what is not marked is still as it is shown.     *)
LEMMA MarkedEach ==
  ASSUME NEW over, NEW over2, NEW alive, NEW alive2, Each(subagents, over, alive),
         NEW S, NEW s \in Shown,
         \A t \in Tasks : t \in S /\ s # "running" => t \in over2,
         \A t \in Tasks : t \in S /\ s = "running" => t \in alive2,
         \A t \in Tasks : t \notin S /\ t \in over => t \in over2,
         \A t \in Tasks : t \in (alive \intersect ShownAs("running")) \ S => t \in alive2
  PROVE  /\ Each(Marked(S, s), over2, alive2)
         /\ DOMAIN Marked(S, s) = DOMAIN subagents
         /\ \A i \in DOMAIN subagents : Marked(S, s)[i].task_id = subagents[i].task_id
<1> DEFINE list == Marked(S, s)
<1>1. \A i \in DOMAIN subagents : subagents[i] \in Entry
  BY DEF Each
<1>2. \A i \in DOMAIN subagents :
        /\ list[i] \in Entry
        /\ list[i].task_id = subagents[i].task_id
        /\ list[i].state = IF subagents[i].task_id \in S THEN s ELSE subagents[i].state
  BY <1>1 DEF Marked, Entry
<1>3. DOMAIN list = DOMAIN subagents
  BY DEF Marked
<1>4. list \in Seq(Entry)
  <2>1. DOMAIN subagents = 1..Len(subagents) /\ Len(subagents) \in Nat
    BY DEF Each
  <2>2. list \in [1..Len(subagents) -> Entry]
    BY <1>2, <2>1 DEF Marked
  <2>3. QED
    BY <2>1, <2>2
<1> HIDE DEF list
<1>5. ASSUME NEW i \in DOMAIN list, NEW j \in DOMAIN list, list[i].task_id = list[j].task_id
      PROVE  i = j
  <2>1. subagents[i].task_id = subagents[j].task_id
    BY <1>2, <1>3, <1>5
  <2>2. QED
    BY <1>3, <2>1 DEF Each
<1>6. \A i \in DOMAIN list : subagents[i].task_id \in Tasks /\ list[i].task_id = subagents[i].task_id
  BY <1>1, <1>2, <1>3 DEF Entry
<1>7. ASSUME NEW i \in DOMAIN list, list[i].state # "running" PROVE list[i].task_id \in over2
  <2>1. CASE subagents[i].task_id \in S
    BY <1>2, <1>3, <1>6, <1>7, <2>1
  <2>2. CASE subagents[i].task_id \notin S
    <3>1. subagents[i].state # "running"
      BY <1>2, <1>3, <1>7, <2>2
    <3>2. subagents[i].task_id \in over
      BY <1>3, <3>1 DEF Each
    <3>3. QED
      BY <1>6, <2>2, <3>2
  <2>3. QED
    BY <2>1, <2>2
<1>8. ASSUME NEW i \in DOMAIN list, list[i].state = "running" PROVE list[i].task_id \in alive2
  <2>1. CASE subagents[i].task_id \in S
    BY <1>2, <1>3, <1>6, <1>8, <2>1
  <2>2. CASE subagents[i].task_id \notin S
    <3>1. subagents[i].state = "running"
      BY <1>2, <1>3, <1>8, <2>2
    <3>2. subagents[i].task_id \in alive /\ subagents[i].task_id \in ShownAs("running")
      BY <1>3, <3>1 DEF Each, ShownAs
    <3>3. QED
      BY <1>6, <2>2, <3>2
  <2>3. QED
    BY <2>1, <2>2
<1>9. Each(list, over2, alive2)
  BY <1>4, <1>5, <1>7, <1>8 DEF Each
<1>10. QED
  BY <1>2, <1>3, <1>9 DEF list

LEMMA ConcatAt ==
  ASSUME NEW S, NEW s \in Seq(S), NEW t \in Seq(S), NEW i \in Len(s) + 1..Len(s) + Len(t)
  PROVE  (s \o t)[i] = t[i - Len(s)]
OBVIOUS

(* One entry goes from the list.                                           *)
LEMMA RemoveAtFacts ==
  ASSUME NEW list \in Seq(Entry), NEW at \in DOMAIN list
  PROVE  /\ RemoveAt(list, at) \in Seq(Entry) /\ Len(RemoveAt(list, at)) = Len(list) - 1
         /\ \A i \in DOMAIN RemoveAt(list, at) :
              /\ i < at => i \in DOMAIN list /\ RemoveAt(list, at)[i] = list[i]
              /\ i >= at => i + 1 \in DOMAIN list /\ RemoveAt(list, at)[i] = list[i + 1]
<1> DEFINE a == SubSeq(list, 1, at - 1)
           b == SubSeq(list, at + 1, Len(list))
<1>1. at \in 1..Len(list) /\ Len(list) \in Nat
  OBVIOUS
<1>2. a \in Seq(Entry) /\ Len(a) = at - 1 /\ \A i \in 1..at - 1 : a[i] = list[i]
  BY <1>1
<1>3. /\ b \in Seq(Entry) /\ Len(b) = Len(list) - at
      /\ \A i \in 1..Len(list) - at : b[i] = list[at + i]
  BY <1>1
<1>4. RemoveAt(list, at) = a \o b
  BY DEF RemoveAt
<1> HIDE DEF a, b
<1>5. a \o b \in Seq(Entry) /\ Len(a \o b) = Len(list) - 1
  BY <1>1, <1>2, <1>3
<1>6. ASSUME NEW i \in 1..Len(list) - 1, i < at PROVE (a \o b)[i] = list[i]
  BY <1>1, <1>2, <1>3, <1>6
<1>7. ASSUME NEW i \in 1..Len(list) - 1, i >= at PROVE (a \o b)[i] = list[i + 1]
  <2>1. i \in Len(a) + 1..Len(a) + Len(b)
    <3>1. /\ Len(a) = at - 1 /\ Len(b) = Len(list) - at /\ at \in Int /\ Len(list) \in Int
          /\ i \in Int /\ i <= Len(list) - 1 /\ i >= at
      BY <1>1, <1>2, <1>3, <1>7
    <3>2. QED
      BY <3>1
  <2>4. (a \o b)[i] = b[i - Len(a)]
    BY <1>2, <1>3, <2>1, ConcatAt
  <2>2. i - Len(a) \in 1..Len(list) - at /\ at + (i - Len(a)) = i + 1
    BY <1>1, <1>2, <1>7
  <2>3. QED
    BY <1>3, <2>2, <2>4
<1>8. DOMAIN (a \o b) = 1..Len(list) - 1 /\ DOMAIN list = 1..Len(list)
  BY <1>1, <1>5
<1>9. \A i \in DOMAIN (a \o b) :
        /\ i < at => i \in DOMAIN list /\ (a \o b)[i] = list[i]
        /\ i >= at => i + 1 \in DOMAIN list /\ (a \o b)[i] = list[i + 1]
  <2> SUFFICES ASSUME NEW i \in DOMAIN (a \o b)
               PROVE  /\ i < at => i \in DOMAIN list /\ (a \o b)[i] = list[i]
                      /\ i >= at => i + 1 \in DOMAIN list /\ (a \o b)[i] = list[i + 1]
    OBVIOUS
  <2>1. i \in 1..Len(list) - 1
    BY <1>8
  <2>2. i \in 1..Len(list) /\ i + 1 \in 1..Len(list)
    BY <1>1, <2>1
  <2>3. QED
    BY <1>6, <1>7, <1>8, <2>1, <2>2
<1>10. QED
  BY <1>4, <1>5, <1>9

LEMMA LeastOf ==
  ASSUME NEW S \in SUBSET Nat, S # {}
  PROVE  \E x \in S : \A y \in S : x <= y
<1> DEFINE Less == OpToRel(<, Nat)
<1>1. \A x, y \in Nat : x < y <=> <<x, y>> \in Less
  BY DEF OpToRel
<1>2. IsWellFoundedOn(Less, Nat)
  BY NatLessThanWellFounded
<1> HIDE DEF Less
<1>3. PICK x \in S : \A y \in S : ~(<<y, x>> \in Less)
  BY <1>2, WFMin
<1>4. \A y \in S : ~(y < x)
  BY <1>1, <1>3
<1>5. QED
  BY <1>4

(* What suits a list's entries no worse leaves it in order.                *)
LEMMA EachKeeps ==
  ASSUME NEW list, NEW over, NEW over2, NEW alive, NEW alive2, Each(list, over, alive),
         \A t \in Tasks : t \in over => t \in over2,
         \A t \in Tasks : t \in alive => t \in alive2
  PROVE  Each(list, over2, alive2)
<1>1. \A i \in DOMAIN list : list[i] \in Entry
  BY DEF Each
<1>2. \A i \in DOMAIN list : list[i].task_id \in Tasks
  BY <1>1 DEF Entry
<1>3. QED
  BY <1>2 DEF Each

(* A new entry at the end.                                                 *)
LEMMA AppendEach ==
  ASSUME NEW over, NEW alive, Each(subagents, over, alive),
         NEW t \in Tasks, t \notin Listed, t \in alive
  PROVE  Each(Append(subagents, [task_id |-> t, state |-> "running"]), over, alive)
<1> DEFINE e == [task_id |-> t, state |-> "running"]
           list == Append(subagents, e)
           n == Len(subagents)
<1>1. subagents \in Seq(Entry) /\ n \in Nat /\ DOMAIN subagents = 1..n
  BY DEF Each
<1>2. e \in Entry /\ e.task_id = t /\ e.state = "running"
  BY DEF Entry, Shown
<1> HIDE DEF e
<1>3. /\ list \in Seq(Entry) /\ DOMAIN list = 1..n + 1
      /\ list[n + 1] = e /\ \A i \in 1..n : list[i] = subagents[i]
  BY <1>1, <1>2
<1> HIDE DEF list, n
<1>4. \A i \in 1..n : subagents[i].task_id # t
  BY <1>1 DEF Listed
<1>5. \A i \in 1..n + 1 : i \in 1..n \/ i = n + 1
  BY <1>1
<1>6. ASSUME NEW i \in DOMAIN list, NEW j \in DOMAIN list, list[i].task_id = list[j].task_id
      PROVE  i = j
  <2>1. CASE i \in 1..n /\ j \in 1..n
    BY <1>1, <1>3, <1>6, <2>1 DEF Each
  <2>2. CASE i \in 1..n /\ j = n + 1
    BY <1>2, <1>3, <1>4, <1>6, <2>2
  <2>3. CASE i = n + 1 /\ j \in 1..n
    BY <1>2, <1>3, <1>4, <1>6, <2>3
  <2>4. QED
    BY <1>3, <1>5, <2>1, <2>2, <2>3
<1>7. ASSUME NEW i \in DOMAIN list, list[i].state # "running" PROVE list[i].task_id \in over
  BY <1>1, <1>2, <1>3, <1>5, <1>7 DEF Each
<1>8. ASSUME NEW i \in DOMAIN list, list[i].state = "running" PROVE list[i].task_id \in alive
  BY <1>1, <1>2, <1>3, <1>5, <1>8 DEF Each
<1>9. Each(list, over, alive)
  BY <1>3, <1>6, <1>7, <1>8 DEF Each
<1>10. QED
  BY <1>9 DEF list, e

(* An entry less: what its task is matters no more, for it is not listed.  *)
LEMMA RemovedEach ==
  ASSUME NEW over, NEW alive, NEW list, Each(list, over, alive), NEW at \in DOMAIN list
  PROVE  Each(RemoveAt(list, at), over \ {list[at].task_id}, alive \ {list[at].task_id})
<1> DEFINE r == RemoveAt(list, at)
           n == Len(list)
           src == [i \in DOMAIN r |-> IF i < at THEN i ELSE i + 1]
<1>1. list \in Seq(Entry) /\ n \in Nat /\ DOMAIN list = 1..n /\ at \in 1..n
  BY DEF Each
<1>2. /\ r \in Seq(Entry) /\ Len(r) = n - 1
      /\ \A i \in DOMAIN r :
           /\ i < at => i \in DOMAIN list /\ r[i] = list[i]
           /\ i >= at => i + 1 \in DOMAIN list /\ r[i] = list[i + 1]
  BY <1>1, RemoveAtFacts
<1> HIDE DEF r
<1>3. DOMAIN r = 1..n - 1
  BY <1>1, <1>2
<1>4. \A i \in DOMAIN r : src[i] \in DOMAIN list /\ r[i] = list[src[i]] /\ src[i] # at
  BY <1>1, <1>2, <1>3
<1>5. \A i, j \in DOMAIN r : src[i] = src[j] => i = j
  BY <1>1, <1>3
<1> HIDE DEF src, n
<1>6. ASSUME NEW i \in DOMAIN r, NEW j \in DOMAIN r, r[i].task_id = r[j].task_id
      PROVE  i = j
  <2>1. src[i] = src[j]
    BY <1>4, <1>6 DEF Each
  <2>2. QED
    BY <1>5, <2>1
<1>7. \A i \in DOMAIN r : r[i].task_id # list[at].task_id
  <2> SUFFICES ASSUME NEW i \in DOMAIN r PROVE list[src[i]].task_id # list[at].task_id
    BY <1>4
  <2>1. QED
    BY <1>4 DEF Each
<1>8. ASSUME NEW i \in DOMAIN r, r[i].state # "running"
      PROVE  r[i].task_id \in over \ {list[at].task_id}
  <2>1. list[src[i]].task_id \in over
    BY <1>4, <1>8 DEF Each
  <2>2. QED
    BY <1>4, <1>7, <2>1
<1>9. ASSUME NEW i \in DOMAIN r, r[i].state = "running"
      PROVE  r[i].task_id \in alive \ {list[at].task_id}
  <2>1. list[src[i]].task_id \in alive
    BY <1>4, <1>9 DEF Each
  <2>2. QED
    BY <1>4, <1>7, <2>1
<1>10. Each(r, over \ {list[at].task_id}, alive \ {list[at].task_id})
  BY <1>2, <1>6, <1>8, <1>9 DEF Each
<1>11. QED
  BY <1>10 DEF r

(* A start: what goes from the list need be neither over nor alive, and    *)
(* what starts is alive.                                                   *)
LEMMA StartedEach ==
  ASSUME ListInv, NEW t \in Tasks, ListStarted(t), UNCHANGED <<kind, phase>>,
         phase[t] = "running",
         background_tasks' = IF kind[t] = "background" THEN background_tasks \union {t}
                             ELSE background_tasks,
         \A u \in Tasks : "tool_result" \in owed[u] => "tool_result" \in owed'[u]
  PROVE  Each(subagents', Over', Alive')
<1> DEFINE grown == IF t \in Listed THEN Marked({t}, "running")
                    ELSE Append(subagents, [task_id |-> t, state |-> "running"])
           finished == {i \in DOMAIN grown : grown[i].state # "running"}
           at == IF finished = {} THEN 1 ELSE CHOOSE i \in finished : \A j \in finished : i <= j
           gone == IF Len(grown) > MaxSubagents THEN {grown[at].task_id} ELSE {}
           rest == Over \ {t}
           more == Alive \union {t}
<1>1. /\ subagents' = IF gone = {} THEN grown ELSE RemoveAt(grown, at)
      /\ closed_by_backstop' = closed_by_backstop \ ({t} \union gone)
      /\ backgrounded' =
           (backgrounded \union (IF kind[t] = "background" THEN {t} ELSE {})) \ gone
      /\ synchronous' =
           (synchronous \union (IF kind[t] # "background" THEN {t} ELSE {})) \ gone
      /\ top_level_synchronous' =
           (top_level_synchronous \union (IF kind[t] = "synchronous" THEN {t} ELSE {})) \ gone
  BY DEF ListStarted
<1>2. Each(subagents, Over, Alive)
  BY DEF ListInv
<1>3. Each(grown, rest, more)
  <2>1. CASE t \in Listed
    <3>1. Each(Marked({t}, "running"), rest, more)
      <4>1. "running" \in Shown
        BY DEF Shown
      <4>2. \A u \in Tasks : u \notin {t} /\ u \in Over => u \in rest
        OBVIOUS
      <4>3. /\ \A u \in Tasks : u \in {t} => u \in more
            /\ \A u \in Tasks : u \in (Alive \intersect ShownAs("running")) \ {t} => u \in more
        OBVIOUS
      <4> HIDE DEF rest, more
      <4>4. QED
        BY <1>2, <4>1, <4>2, <4>3, MarkedEach
    <3>2. QED
      BY <2>1, <3>1
  <2>2. CASE t \notin Listed
    <3>1. Each(subagents, rest, more) /\ t \in more
      BY <1>2, <2>2 DEF Each, Listed
    <3> HIDE DEF rest, more
    <3>2. QED
      BY <2>2, <3>1, AppendEach
  <2>3. QED
    BY <2>1, <2>2
<1>4. \A u \in Tasks : u \in rest \ gone => u \in Over'
  BY <1>1 DEF Over
<1>5. \A u \in Tasks : u \in more \ gone => u \in Alive'
  <2> SUFFICES ASSUME NEW u \in Tasks, u \in more, u \notin gone PROVE u \in Alive'
    OBVIOUS
  <2> HIDE DEF gone
  <2>1. CASE kind[u] = "background"
    <3>1. u \in background_tasks'
      BY <2>1 DEF Alive
    <3>2. QED
      BY <2>1, <3>1 DEF Alive
  <2>2. CASE kind[u] # "background"
    <3>1. Waited(u)'
      <4>1. CASE u = t
        BY <1>1, <2>2, <4>1 DEF Waited, ListInv, Kinds
      <4>2. CASE u # t
        BY <1>1, <2>2, <4>2 DEF Waited, Alive
      <4>3. QED
        BY <4>1, <4>2
    <3>2. phase[u] = "running" \/ "tool_result" \in owed'[u]
      BY <2>2 DEF Alive
    <3>3. QED
      BY <2>2, <3>1, <3>2 DEF Alive
  <2>3. QED
    BY <2>1, <2>2
<1> HIDE DEF grown, rest, more
<1>6. CASE gone = {}
  <2>1. /\ \A u \in Tasks : u \in rest => u \in Over'
        /\ \A u \in Tasks : u \in more => u \in Alive'
    BY <1>4, <1>5, <1>6
  <2> HIDE DEF gone
  <2>2. QED
    BY <1>1, <1>3, <1>6, <2>1, EachKeeps
<1>7. CASE gone # {}
  <2>1. Len(grown) > MaxSubagents /\ gone = {grown[at].task_id}
    BY <1>7
  <2>2. at \in DOMAIN grown
    <3>1. DOMAIN grown = 1..Len(grown) /\ Len(grown) \in Nat
      BY <1>3 DEF Each
    <3>2. CASE finished = {}
      BY <2>1, <3>1, <3>2, DispatcherAssumption
    <3>3. CASE finished # {}
      <4>1. finished \subseteq Nat
        BY <3>1
      <4>2. \E i \in finished : \A j \in finished : i <= j
        <5> HIDE DEF finished
        <5>1. QED
          BY <3>3, <4>1, LeastOf
      <4>3. at \in finished
        BY <3>3, <4>2
      <4>4. QED
        BY <4>3
    <3>4. QED
      BY <3>2, <3>3
  <2>3. subagents' = RemoveAt(grown, at)
    BY <1>1, <1>7
  <2> HIDE DEF gone, at
  <2>4. Each(RemoveAt(grown, at), rest \ gone, more \ gone)
    BY <1>3, <2>1, <2>2, RemovedEach
  <2>5. QED
    BY <1>4, <1>5, <2>3, <2>4, EachKeeps
<1>8. QED
  BY <1>6, <1>7

LEMMA StartedKinds ==
  ASSUME Kinds, NEW t \in Tasks, ListStarted(t), UNCHANGED <<kind, phase>>,
         \A u \in Tasks : owed'[u] \subseteq owed[u]
  PROVE  Kinds'
<1> DEFINE grown == IF t \in Listed THEN Marked({t}, "running")
                    ELSE Append(subagents, [task_id |-> t, state |-> "running"])
           finished == {i \in DOMAIN grown : grown[i].state # "running"}
           at == IF finished = {} THEN 1 ELSE CHOOSE i \in finished : \A j \in finished : i <= j
           gone == IF Len(grown) > MaxSubagents THEN {grown[at].task_id} ELSE {}
<1>1. /\ closed_by_backstop' = closed_by_backstop \ ({t} \union gone)
      /\ backgrounded' =
           (backgrounded \union (IF kind[t] = "background" THEN {t} ELSE {})) \ gone
      /\ synchronous' =
           (synchronous \union (IF kind[t] # "background" THEN {t} ELSE {})) \ gone
      /\ top_level_synchronous' =
           (top_level_synchronous \union (IF kind[t] = "synchronous" THEN {t} ELSE {})) \ gone
  BY DEF ListStarted
<1> HIDE DEF gone
<1>2. QED
  BY <1>1 DEF Kinds

(* What keeps Kinds when nothing starts: no more is guessed about than     *)
(* top-level synchronous subagents, and the CLI keeps to its phases.       *)
LEMMA KindsKeeps ==
  ASSUME Kinds, UNCHANGED <<kind, backgrounded, synchronous, top_level_synchronous>>,
         closed_by_backstop' \subseteq closed_by_backstop \union top_level_synchronous,
         \A u \in Tasks : "tool_result" \in owed'[u] => phase'[u] = "ended",
         \A u \in Tasks : "task_started" \in owed'[u] => phase'[u] = "running"
  PROVE  Kinds'
BY DEF Kinds

(* Marking, as a step; and a step that leaves the list alone.              *)
LEMMA MarkKeeps ==
  ASSUME ListInv, NEW S, NEW s \in Shown, subagents' = Marked(S, s), Kinds',
         \A t \in Tasks : t \in S /\ s # "running" => t \in Over',
         \A t \in Tasks : t \in S /\ s = "running" => t \in Alive',
         \A t \in Tasks : t \notin S /\ t \in Over => t \in Over',
         \A t \in Tasks : t \in (Alive \intersect ShownAs("running")) \ S => t \in Alive'
  PROVE  ListInv'
<1>1. Each(subagents, Over, Alive)
  BY DEF ListInv
<1>2. Each(Marked(S, s), Over', Alive')
  BY <1>1, MarkedEach
<1>3. QED
  BY <1>2 DEF ListInv

LEMMA SameListKeeps ==
  ASSUME ListInv, UNCHANGED subagents, Kinds',
         \A t \in Tasks : t \in Over => t \in Over',
         \A t \in Tasks : t \in Alive \intersect ShownAs("running") => t \in Alive'
  PROVE  ListInv'
<1>1. Each(subagents, Over, Alive \intersect ShownAs("running"))
  BY DEF ListInv, Each, ShownAs
<1>2. Each(subagents, Over', Alive')
  BY <1>1, EachKeeps
<1>3. QED
  BY <1>2 DEF ListInv

(* A step of the CLI or of the runner alone.                               *)
LEMMA ListFrame ==
  ASSUME ListInv, UNCHANGED <<kind, background_tasks>>, UNCHANGED listVars,
         \A u \in Tasks : phase[u] = "ended" => phase'[u] = "ended",
         \A u \in Tasks : phase[u] = "running" \/ "tool_result" \in owed[u] =>
           phase'[u] = "running" \/ "tool_result" \in owed'[u],
         \A u \in Tasks : "tool_result" \in owed'[u] => phase'[u] = "ended",
         \A u \in Tasks : "task_started" \in owed'[u] => phase'[u] = "running"
  PROVE  ListInv'
<1>1. Kinds'
  BY KindsKeeps DEF ListInv, listVars
<1>2. \A t \in Tasks : t \in Over => t \in Over'
  BY DEF Over, listVars
<1>3. \A t \in Tasks : t \in Alive => t \in Alive'
  BY DEF Alive, Waited, listVars
<1>4. QED
  BY <1>1, <1>2, <1>3, SameListKeeps DEF listVars

(* A line of a task, printed.                                              *)
LEMMA OwesFacts ==
  ASSUME Inv, NEW t \in Tasks, NEW l \in Line, Owes(t, l)
  PROVE  /\ l \in owed[t] /\ UNCHANGED <<kind, phase>>
         /\ \A u \in Tasks : owed'[u] = IF u = t THEN owed[t] \ {l} ELSE owed[u]
BY DEF Inv, CliInv, Owes

LEMMA EndedKeeps ==
  ASSUME Inv, ListInv, NEW t \in Tasks, NEW l \in {"task_updated", "task_notification"},
         Owes(t, l), NEW s \in {"completed", "failed"}, ListEnded(t, s),
         background_tasks' = background_tasks \ {t}
  PROVE  ListInv'
<1>1. /\ l \in owed[t] /\ UNCHANGED <<kind, phase>>
      /\ \A u \in Tasks : owed'[u] = IF u = t THEN owed[t] \ {l} ELSE owed[u]
  <2>1. l \in Line
    BY DEF Line
  <2>2. QED
    BY <2>1, OwesFacts
<1>2. phase[t] = "ended"
  BY <1>1 DEF Inv, CliInv, StartLines
<1>3. Kinds'
  BY <1>1, KindsKeeps DEF ListEnded, ListInv, Kinds
<1>4. subagents' = Marked({t}, s) /\ s \in Shown
  BY DEF ListEnded, Shown
<1>5. \A u \in Tasks : u \in {t} /\ s # "running" => u \in Over'
  BY <1>1, <1>2 DEF Over
<1>6. \A u \in Tasks : u \notin {t} /\ u \in Over => u \in Over'
  BY <1>1 DEF Over, ListEnded
<1>7. \A u \in Tasks : u \in (Alive \intersect ShownAs("running")) \ {t} => u \in Alive'
  BY <1>1 DEF Alive, Waited, ListEnded
<1>8. QED
  BY <1>3, <1>4, <1>5, <1>6, <1>7, MarkKeeps

(* The tool call of a subagent that was waited for returns: it is shown    *)
(* running no more, whatever was guessed in between.                       *)
LEMMA ReturnedKeeps ==
  ASSUME Inv, ListInv, NEW t \in Tasks, Owes(t, "tool_result"),
         NEW s \in {"completed", "failed"}, ListReturned(t, s), UNCHANGED turnVars
  PROVE  ListInv'
<1>1. /\ "tool_result" \in owed[t] /\ UNCHANGED <<kind, phase>>
      /\ \A u \in Tasks : owed'[u] = IF u = t THEN owed[t] \ {"tool_result"} ELSE owed[u]
  BY OwesFacts DEF Line
<1>2. phase[t] = "ended" /\ t \notin background_tasks
  BY <1>1 DEF Inv, CliInv, HeldInv, StartLines, EndLines, ListInv, Kinds
<1>3. closed_by_backstop' = closed_by_backstop \ ({t} \intersect Listed)
  BY DEF ListReturned
<1>4. Kinds'
  BY <1>1, <1>3, KindsKeeps DEF ListReturned, ListInv, Kinds
<1>5. \A u \in Tasks : u \in Over => u \in Over'
  BY <1>1, <1>2, <1>3 DEF Over
<1>6. \A u \in Tasks : u \in Alive \ {t} => u \in Alive'
  BY <1>1 DEF Alive, Waited, ListReturned, turnVars
<1>7. CASE t \in ShownAs("running")
  <2>1. t \in Alive
    BY <1>7 DEF ShownAs, ListInv, Each
  <2>2. t \in synchronous \ backgrounded
    BY <1>2, <2>1 DEF Alive, Waited
  <2>3. subagents' = Marked({t}, s) /\ s \in Shown /\ s # "running"
    BY <1>2, <1>7, <2>2 DEF ListReturned, Shown
  <2>4. \A u \in Tasks : u \in {t} => u \in Over'
    BY <1>1, <1>2 DEF Over
  <2>5. QED
    BY <1>4, <1>5, <1>6, <2>3, <2>4, MarkKeeps
<1>8. CASE t \notin ShownAs("running")
  <2>1. CASE UNCHANGED subagents
    BY <1>4, <1>5, <1>6, <1>8, <2>1, SameListKeeps
  <2>2. CASE subagents' = Marked({t}, s)
    <3>1. s \in Shown /\ s # "running" /\ \A u \in Tasks : u \in {t} => u \in Over'
      BY <1>1, <1>2 DEF Over, Shown
    <3>2. QED
      BY <1>4, <1>5, <1>6, <2>2, <3>1, MarkKeeps
  <2>3. QED
    BY <2>1, <2>2 DEF ListReturned
<1>9. QED
  BY <1>7, <1>8

(* Every reachable state satisfies ListInv: each task is listed once, and  *)
(* an entry shown ended is of a task that ended or was closed as a guess,  *)
(* one shown running of a task that runs or has yet to be told of.         *)
THEOREM ListInvHolds == Spec => []ListInv
<1>1. Init => ListInv
  <2> SUFFICES ASSUME Init PROVE ListInv
    OBVIOUS
  <2>1. Each(subagents, Over, Alive)
    BY DEF Init, Each
  <2>2. Kinds
    BY DEF Init, Kinds
  <2>3. QED
    BY <2>1, <2>2 DEF ListInv
<1>2. Inv /\ ListInv /\ [Next]_vars => ListInv'
  <2> SUFFICES ASSUME Inv, ListInv, [Next]_vars PROVE ListInv'
    OBVIOUS
  <2>a. /\ \A u \in Tasks : "tool_result" \in owed[u] => phase[u] = "ended"
        /\ \A u \in Tasks : "task_started" \in owed[u] => phase[u] = "running"
    BY DEF ListInv, Kinds
  <2>1. CASE TurnBegins
    BY <2>1, <2>a, ListFrame DEF TurnBegins, turnVars
  <2>2. CASE MessageJoinsTurn
    BY <2>2, <2>a, ListFrame DEF MessageJoinsTurn, turnVars
  <2>3. CASE Speaks
    BY <2>3, <2>a, ListFrame DEF Speaks, OnAssistant
  <2>4. ASSUME NEW t \in Tasks, SubagentStarts(t) PROVE ListInv'
    <3>1. /\ phase[t] = "unborn" /\ phase' = [phase EXCEPT ![t] = "running"]
          /\ UNCHANGED <<kind, background_tasks>> /\ UNCHANGED listVars
      BY <2>4 DEF SubagentStarts, turnVars
    <3>2. "tool_result" \notin owed'[t] /\ \A u \in Tasks \ {t} : owed'[u] = owed[u]
      BY <2>4 DEF SubagentStarts, Inv, CliInv
    <3>3. phase'[t] = "running" /\ \A u \in Tasks \ {t} : phase'[u] = phase[u]
      BY <3>1 DEF Inv, CliInv
    <3>4. "tool_result" \notin owed[t]
      BY <3>1 DEF Inv, CliInv
    <3>5. QED
      BY <2>a, <3>1, <3>2, <3>3, <3>4, ListFrame
  <2>5. ASSUME NEW t \in Tasks, SubagentEnds(t) PROVE ListInv'
    <3>1. /\ phase' = [phase EXCEPT ![t] = "ended"]
          /\ UNCHANGED <<kind, background_tasks>> /\ UNCHANGED listVars
      BY <2>5 DEF SubagentEnds, turnVars
    <3>2. /\ \A u \in Tasks \ {t} : owed'[u] = owed[u]
          /\ "task_started" \notin owed'[t]
          /\ kind[t] # "background" => "tool_result" \in owed'[t]
      BY <2>5 DEF SubagentEnds, Inv, CliInv
    <3>3. phase'[t] = "ended" /\ \A u \in Tasks \ {t} : phase'[u] = phase[u]
      BY <3>1 DEF Inv, CliInv
    <3>4. Kinds'
      BY <2>a, <3>1, <3>2, <3>3, KindsKeeps DEF ListInv, listVars
    <3>5. \A u \in Tasks : u \in Over => u \in Over'
      BY <3>1, <3>3 DEF Over, listVars
    <3>6. \A u \in Tasks : u \in Alive => u \in Alive'
      BY <3>1, <3>2, <3>3 DEF Alive, Waited, listVars
    <3>7. QED
      BY <3>1, <3>4, <3>5, <3>6, SameListKeeps DEF listVars
  <2>6. ASSUME NEW t \in Tasks, TaskStarted(t) PROVE ListInv'
    <3>1. /\ "task_started" \in owed[t] /\ UNCHANGED <<kind, phase>>
          /\ \A u \in Tasks : owed'[u] = IF u = t THEN owed[t] \ {"task_started"} ELSE owed[u]
      BY <2>6, OwesFacts DEF TaskStarted, Line
    <3>2. phase[t] = "running"
      BY <2>a, <3>1
    <3>3. background_tasks' = IF kind[t] = "background" THEN background_tasks \union {t}
                              ELSE background_tasks
      BY <2>6 DEF TaskStarted, AfterTaskLine, turnVars
    <3>4. ListStarted(t)
      BY <2>6 DEF TaskStarted
    <3>5. Each(subagents', Over', Alive')
      BY <3>1, <3>2, <3>3, <3>4, StartedEach
    <3>6. Kinds'
      BY <3>1, <3>4, StartedKinds DEF ListInv
    <3>7. QED
      BY <3>5, <3>6 DEF ListInv
  <2>7. ASSUME NEW t \in Tasks, BackgroundTasksChanged(t) PROVE ListInv'
    <3> DEFINE live == {u \in Tasks : kind[u] = "background" /\ phase[u] = "running"}
               S == (ShownAs("running") \intersect background_tasks) \ live
    <3>1. /\ UNCHANGED <<kind, phase>>
          /\ \A u \in Tasks : owed'[u] = IF u = t THEN owed[t] \ {"background_tasks_changed"}
                                         ELSE owed[u]
      BY <2>7, OwesFacts DEF BackgroundTasksChanged, Line
    <3>2. /\ subagents' = Marked(S, "completed")
          /\ UNCHANGED <<backgrounded, synchronous, top_level_synchronous, closed_by_backstop>>
          /\ background_tasks' = live
      BY <2>7 DEF BackgroundTasksChanged, ListBackground, AfterTaskLine
    <3>3. \A u \in Tasks : u \in S => phase[u] = "ended"
      BY DEF Inv, HeldInv
    <3>4. \A u \in Tasks : u \in (Alive \intersect ShownAs("running")) \ S => u \in Alive'
      BY <3>1, <3>2 DEF Alive, Waited
    <3> HIDE DEF S
    <3>5. Kinds'
      BY <2>a, <3>1, <3>2, KindsKeeps DEF ListInv
    <3>6. \A u \in Tasks : u \in S => u \in Over'
      BY <3>1, <3>3 DEF Over
    <3>7. \A u \in Tasks : u \in Over => u \in Over'
      BY <3>1, <3>2 DEF Over
    <3>8. QED
      BY <3>2, <3>4, <3>5, <3>6, <3>7, MarkKeeps DEF Shown
  <2>8. ASSUME NEW t \in Tasks, TaskUpdated(t) PROVE ListInv'
    BY <2>8, EndedKeeps DEF TaskUpdated, AfterTaskLine
  <2>9. ASSUME NEW t \in Tasks, TaskNotification(t) PROVE ListInv'
    BY <2>9, EndedKeeps DEF TaskNotification, AfterTaskLine
  <2>10. ASSUME NEW t \in Tasks, ToolResult(t) PROVE ListInv'
    BY <2>10, ReturnedKeeps DEF ToolResult
  <2>11. ASSUME NEW t \in Tasks, Launched(t) PROVE ListInv'
    <3>1. /\ kind[t] = "background" /\ ListReturned(t, "completed")
          /\ UNCHANGED cliVars /\ UNCHANGED turnVars
      BY <2>11 DEF Launched
    <3>2. t \notin synchronous /\ t \notin closed_by_backstop
      BY <3>1 DEF ListInv, Kinds
    <3>3. UNCHANGED listVars
      BY <3>1, <3>2 DEF ListReturned, listVars
    <3>4. QED
      BY <2>a, <3>1, <3>3, ListFrame DEF cliVars, turnVars
  <2>12. ASSUME NEW t \in Tasks, SubagentWorks(t) PROVE ListInv'
    <3> DEFINE S == {t} \intersect closed_by_backstop
    <3>1. /\ UNCHANGED cliVars /\ ListAlive(t) /\ phase[t] = "running"
          /\ UNCHANGED background_tasks
      BY <2>12 DEF SubagentWorks, Announced, OnAssistant
    <3>2. /\ subagents' = Marked(S, "running") /\ closed_by_backstop' = closed_by_backstop \ {t}
          /\ UNCHANGED <<backgrounded, synchronous, top_level_synchronous>>
      BY <3>1 DEF ListAlive
    <3>3. Kinds'
      BY <2>a, <3>1, <3>2, KindsKeeps DEF ListInv, cliVars
    <3>4. \A u \in Tasks : u \notin S /\ u \in Over => u \in Over'
      BY <3>1, <3>2 DEF Over, cliVars
    <3>5. \A u \in Tasks : u \in S => u \in Alive'
      BY <3>1, <3>2 DEF Alive, Waited, ListInv, Kinds, cliVars
    <3>6. \A u \in Tasks : u \in Alive => u \in Alive'
      BY <3>1, <3>2 DEF Alive, Waited, cliVars
    <3> HIDE DEF S
    <3>7. QED
      BY <3>2, <3>3, <3>4, <3>5, <3>6, MarkKeeps DEF Shown
  <2>13. ASSUME NEW out \in BOOLEAN, TurnEnds(out) PROVE ListInv'
    <3> DEFINE S == (ShownAs("running") \intersect top_level_synchronous) \ background_tasks
    <3>1. /\ subagents' = Marked(S, "completed")
          /\ closed_by_backstop' = closed_by_backstop \union S
          /\ UNCHANGED <<backgrounded, synchronous, top_level_synchronous>>
      BY <2>13 DEF TurnEnds, ListTurnEnd
    <3>2. PICK dropped \in SUBSET {u \in Tasks : kind[u] = "synchronous" /\ Announced(u)} :
            phase' = [u \in Tasks |-> IF u \in dropped THEN "ended" ELSE phase[u]]
      BY <2>13 DEF TurnEnds
    <3>3. /\ UNCHANGED <<kind, owed, background_tasks>>
          /\ \A u \in Tasks : phase'[u] = phase[u] \/ phase'[u] = "ended"
          /\ \A u \in Tasks : kind[u] # "synchronous" => phase'[u] = phase[u]
          /\ \A u \in Tasks : "task_started" \in owed[u] => phase'[u] = phase[u]
      BY <2>13, <3>2 DEF TurnEnds, OnResult, Announced
    <3>4. Kinds'
      BY <2>a, <3>1, <3>3, KindsKeeps DEF ListInv
    <3>5. \A u \in Tasks : u \in S \/ u \in Over => u \in Over'
      BY <3>1, <3>3 DEF Over
    <3>6. \A u \in Tasks : kind[u] = "synchronous" => u \notin background_tasks
      BY DEF Inv, HeldInv
    <3>7. \A u \in Tasks : u \in (Alive \intersect ShownAs("running")) \ S => u \in Alive'
      BY <3>1, <3>3, <3>6 DEF Alive, Waited
    <3> HIDE DEF S
    <3>8. QED
      BY <3>1, <3>4, <3>5, <3>7, MarkKeeps DEF Shown
  <2>14. CASE OperatorSends
    BY <2>14, <2>a, ListFrame DEF OperatorSends, turnVars
  <2>15. CASE RunnerApplies
    BY <2>15, <2>a, ListFrame DEF RunnerApplies, cliVars, turnVars
  <2>16. CASE UNCHANGED vars
    BY <2>16, <2>a, ListFrame DEF vars, cliVars, turnVars
  <2>17. QED
    BY <2>1, <2>2, <2>3, <2>4, <2>5, <2>6, <2>7, <2>8, <2>9, <2>10, <2>11, <2>12,
       <2>13, <2>14, <2>15, <2>16 DEF Next, TaskLine
<1>3. QED
  BY <1>1, <1>2, InvHolds, PTL DEF Spec

(* A subagent the list shows as finished has finished, or was closed as a  *)
(* guess at the turn's end that any sign of life undoes: whatever the CLI  *)
(* prints and in whatever order, however many are listed or forgotten.     *)
THEOREM ShownEndsAreRealHolds == Spec => []ShownEndsAreReal
<1>1. ListInv => ShownEndsAreReal
  <2> SUFFICES ASSUME ListInv, NEW t \in Listed \ ShownAs("running")
               PROVE  phase[t] = "ended" \/ t \in closed_by_backstop
    BY DEF ShownEndsAreReal
  <2>1. PICK i \in DOMAIN subagents : subagents[i].task_id = t
    BY DEF Listed
  <2>2. subagents[i].state # "running"
    BY <2>1 DEF ShownAs
  <2>3. t \in Over
    BY <2>1, <2>2 DEF ListInv, Each
  <2>4. QED
    BY <2>3 DEF Over
<1>2. QED
  BY <1>1, ListInvHolds, PTL

(* And once the CLI has told all it had to tell, no subagent that ended is *)
(* still shown running, even one whose tool call never returned.           *)
THEOREM NoGhostSubagentsHolds == Spec => []NoGhostSubagents
<1>1. Inv /\ ListInv => NoGhostSubagents
  <2> SUFFICES ASSUME Inv, ListInv, Quiet, NEW t \in ShownAs("running") PROVE FALSE
    BY DEF NoGhostSubagents
  <2>1. t \in Alive
    BY DEF ShownAs, ListInv, Each
  <2>2. t \in Tasks /\ phase[t] # "running" /\ owed[t] = {}
    BY <2>1 DEF Alive, Quiet
  <2>3. t \notin background_tasks
    BY <2>2 DEF Inv, HeldInv
  <2>4. QED
    BY <2>1, <2>2, <2>3 DEF Alive
<1>2. QED
  BY <1>1, InvHolds, ListInvHolds, PTL

--------------------------------------------------------------------------------
(* Where the status comes to rest.                                         *)

(* Each transition the dispatcher raises takes a live agent to one status, *)
(* whatever it was in; so the last one raised decides.                     *)
Raisable == {"TurnStarted", "TurnEnded", "LimitReached"}
LandsAt == [TurnStarted |-> "working", TurnEnded |-> "idle", LimitReached |-> "rate_limited"]
Comes == IF raised = <<>> THEN status ELSE LandsAt[raised[Len(raised)]]

QueueInv ==
  /\ raised \in Seq(Raisable) /\ status \in {"idle", "working", "rate_limited"}
  /\ inbox \in Nat /\ turns \in Nat

LEMMA ApplyLands ==
  ASSUME NEW s \in {"idle", "working", "rate_limited"}, NEW x \in Raisable
  PROVE  Apply(s, x) = LandsAt[x] /\ LandsAt[x] \in {"idle", "working", "rate_limited"}
BY DEF Apply, LandsOn, LandsAt, Raisable, Terminal

LEMMA RaiseNothing ==
  ASSUME QueueInv, Raise(<<>>)
  PROVE  Comes' = Comes /\ raised' \in Seq(Raisable) /\ UNCHANGED status
<1>1. raised' = raised
  BY DEF Raise, QueueInv
<1>2. QED
  BY <1>1 DEF Raise, QueueInv, Comes

LEMMA RaiseOne ==
  ASSUME QueueInv, NEW x \in Raisable, Raise(<<x>>)
  PROVE  Comes' = LandsAt[x] /\ raised' \in Seq(Raisable) /\ UNCHANGED status
<1>1. raised' = raised \o <<x>> /\ raised \in Seq(Raisable)
  BY DEF Raise, QueueInv
<1>2. raised' \in Seq(Raisable) /\ Len(raised') = Len(raised) + 1
  BY <1>1
<1>3. raised'[Len(raised')] = x
  BY <1>1, <1>2
<1>4. raised' # <<>>
  BY <1>1, <1>2
<1>5. QED
  BY <1>2, <1>3, <1>4 DEF Comes, Raise

LEMMA SendsComes ==
  ASSUME QueueInv, OperatorSends
  PROVE  QueueInv' /\ Comes' \in {Comes, "working"}
<1>1. status' = "working"
  BY ApplyLands DEF OperatorSends, QueueInv, Raisable, LandsAt
<1>2. QED
  BY <1>1 DEF OperatorSends, QueueInv, Comes

LEMMA AppliesComes ==
  ASSUME QueueInv, RunnerApplies
  PROVE  QueueInv' /\ Comes' = Comes
<1>1. /\ raised \in Seq(Raisable) /\ raised # <<>>
      /\ raised' = Tail(raised) /\ status' = Apply(status, Head(raised))
      /\ UNCHANGED <<inbox, turns>>
  BY DEF RunnerApplies, QueueInv, cliVars
<1>2. Head(raised) \in Raisable /\ Head(raised) = raised[1] /\ Len(raised) \in Nat \ {0}
  BY <1>1
<1>3. status' = LandsAt[Head(raised)] /\ status' \in {"idle", "working", "rate_limited"}
  BY <1>1, <1>2, ApplyLands DEF QueueInv
<1>4. raised' \in Seq(Raisable) /\ Len(raised') = Len(raised) - 1
  BY <1>1
<1>5. Comes' = Comes
  <2>1. CASE Len(raised) = 1
    <3>1. raised' = <<>>
      BY <1>4, <2>1
    <3>2. QED
      BY <1>1, <1>2, <1>3, <2>1, <3>1 DEF Comes
  <2>2. CASE Len(raised) # 1
    <3>1. Len(raised') = Len(raised) - 1 /\ Len(raised) \in Nat /\ Len(raised) >= 2
      BY <1>2, <1>4, <2>2
    <3>2. raised' # <<>>
      BY <3>1
    <3>3. Len(raised') \in 1..Len(raised) - 1 /\ Len(raised') + 1 = Len(raised)
      BY <3>1
    <3>4. \A k \in 1..Len(raised) - 1 : Tail(raised)[k] = raised[k + 1]
      BY <1>1
    <3>5. raised'[Len(raised')] = raised[Len(raised)]
      BY <1>1, <3>3, <3>4
    <3>6. QED
      BY <1>1, <3>2, <3>5 DEF Comes
  <2>3. QED
    BY <2>1, <2>2
<1>6. QED
  BY <1>1, <1>3, <1>4, <1>5 DEF QueueInv

(* What the arms of on_stdout make of it.                                  *)
LEMMA TaskLineComes ==
  ASSUME QueueInv, NEW left, AfterTaskLine(left)
  PROVE  /\ background_tasks' = left
         /\ raised' \in Seq(Raisable) /\ UNCHANGED status
         /\ \/ left = {} /\ ~deferred_turn_end' /\ Comes' = "idle"
               /\ deferred_turn_end
            \/ UNCHANGED <<deferred_turn_end, turn_open>> /\ Comes' = Comes
<1>1. CASE left = {} /\ deferred_turn_end
  <2>1. Raise(<<"TurnEnded">>) /\ ~deferred_turn_end' /\ background_tasks' = left
    BY <1>1 DEF AfterTaskLine
  <2>2. "TurnEnded" \in Raisable /\ LandsAt["TurnEnded"] = "idle"
    BY DEF Raisable, LandsAt
  <2>3. QED
    BY <1>1, <2>1, <2>2, RaiseOne
<1>2. CASE ~(left = {} /\ deferred_turn_end)
  BY <1>2, RaiseNothing DEF AfterTaskLine
<1>3. QED
  BY <1>1, <1>2

LEMMA SpeaksComes ==
  ASSUME QueueInv, OnAssistant(FALSE)
  PROVE  /\ turn_open' /\ UNCHANGED <<deferred_turn_end, background_tasks>>
         /\ raised' \in Seq(Raisable) /\ UNCHANGED status
         /\ Comes' = IF turn_open THEN Comes ELSE "working"
<1>1. CASE turn_open
  BY <1>1, RaiseNothing DEF OnAssistant
<1>2. CASE ~turn_open
  <2>1. Raise(<<"TurnStarted">>)
    BY <1>2 DEF OnAssistant
  <2>2. "TurnStarted" \in Raisable /\ LandsAt["TurnStarted"] = "working"
    BY DEF Raisable, LandsAt
  <2>3. QED
    BY <1>2, <2>1, <2>2, RaiseOne DEF OnAssistant
<1>3. QED
  BY <1>1, <1>2

LEMMA WorksComes ==
  ASSUME QueueInv, turn_open \in BOOLEAN, OnAssistant(TRUE)
  PROVE  /\ UNCHANGED <<turn_open, deferred_turn_end, background_tasks>>
         /\ raised' \in Seq(Raisable) /\ UNCHANGED status /\ Comes' = Comes
BY RaiseNothing DEF OnAssistant

LEMMA ResultComes ==
  ASSUME QueueInv, NEW out \in BOOLEAN, OnResult(out)
  PROVE  /\ UNCHANGED background_tasks
         /\ raised' \in Seq(Raisable) /\ UNCHANGED status
         /\ \/ Comes' = "rate_limited"
            \/ Comes' = "idle" /\ background_tasks = {}
            \/ Comes' = Comes /\ deferred_turn_end'
<1>1. CASE out
  <2>1. Raise(<<"LimitReached">>)
    BY <1>1 DEF OnResult
  <2>2. "LimitReached" \in Raisable /\ LandsAt["LimitReached"] = "rate_limited"
    BY DEF Raisable, LandsAt
  <2>3. QED
    BY <2>1, <2>2, RaiseOne DEF OnResult
<1>2. CASE ~out /\ background_tasks = {}
  <2>1. Raise(<<"TurnEnded">>)
    BY <1>2 DEF OnResult
  <2>2. "TurnEnded" \in Raisable /\ LandsAt["TurnEnded"] = "idle"
    BY DEF Raisable, LandsAt
  <2>3. QED
    BY <1>2, <2>1, <2>2, RaiseOne DEF OnResult
<1>3. CASE ~out /\ background_tasks # {}
  BY <1>3, RaiseNothing DEF OnResult
<1>4. QED
  BY <1>1, <1>2, <1>3

(* Inductive on top of Inv.  An agent comes to `working` only with a turn  *)
(* open, a message unread or a turn end held back; a backgrounded subagent *)
(* that runs and was announced is in the live set.  In the first turn the  *)
(* transitions follow the CLI one for one: none until it speaks, not idle  *)
(* from then to its end, nor after it while the live set holds a task.     *)
RestInv == Comes = "working" => turn \/ inbox > 0 \/ deferred_turn_end
Heard ==
  \A t \in Tasks : kind[t] = "background" /\ phase[t] = "running" =>
    /\ owed[t] = {} => t \in background_tasks
    /\ ~turn => owed[t] = {}
Fresh == turns = 0 \/ (turn /\ ~spoke)
FirstInv ==
  /\ spoke \in BOOLEAN
  /\ turns = 0 => ~turn
  /\ turns <= 1 /\ Fresh => ~turn_open /\ \A t \in Tasks : phase[t] = "unborn"
  /\ turns <= 1 /\ turn /\ spoke => turn_open /\ ~deferred_turn_end /\ Comes # "idle"
  /\ turns <= 1 /\ ~turn /\ background_tasks # {} => Comes # "idle"
SettleInv == QueueInv /\ RestInv /\ Heard /\ FirstInv

(* A step that leaves the turn and the transitions alone.                  *)
LEMMA SettleFrame ==
  ASSUME Inv, SettleInv, UNCHANGED <<turn, spoke, turns, inbox>>, UNCHANGED turnVars,
         raised' = raised, UNCHANGED status, Heard',
         (turn /\ spoke) \/ (\E t \in Tasks : phase[t] # "unborn") \/ phase' = phase
  PROVE  SettleInv'
<1>1. Comes' = Comes
  BY DEF Comes
<1>2. QueueInv'
  BY DEF SettleInv, QueueInv
<1>3. RestInv'
  BY <1>1 DEF SettleInv, RestInv, turnVars
<1>4. FirstInv'
  BY <1>1 DEF SettleInv, QueueInv, FirstInv, Fresh, turnVars
<1>5. QED
  BY <1>2, <1>3, <1>4 DEF SettleInv

(* A task line of the dispatcher's turn.  After the turn it brings nothing *)
(* back into an empty live set.                                            *)
LEMMA LineSettles ==
  ASSUME Inv, SettleInv, NEW t \in Tasks, phase[t] # "unborn", NEW left, AfterTaskLine(left),
         UNCHANGED <<turn, spoke, turns, inbox, kind, phase>>, Heard',
         ~turn /\ left # {} => background_tasks # {}
  PROVE  SettleInv'
<1>1. /\ background_tasks' = left
      /\ raised' \in Seq(Raisable) /\ UNCHANGED status
      /\ \/ left = {} /\ ~deferred_turn_end' /\ Comes' = "idle" /\ deferred_turn_end
         \/ UNCHANGED <<deferred_turn_end, turn_open>> /\ Comes' = Comes
  BY TaskLineComes DEF SettleInv
<1>2. QueueInv'
  BY <1>1 DEF SettleInv, QueueInv
<1>3. RestInv'
  BY <1>1 DEF SettleInv, RestInv
<1>4. turns <= 1 => ~Fresh /\ ~Fresh'
  BY DEF SettleInv, FirstInv, Fresh
<1>5. FirstInv'
  <2>1. CASE left = {} /\ ~deferred_turn_end' /\ Comes' = "idle" /\ deferred_turn_end
    BY <1>1, <1>4, <2>1 DEF SettleInv, FirstInv
  <2>2. CASE UNCHANGED <<deferred_turn_end, turn_open>> /\ Comes' = Comes
    BY <1>1, <1>4, <2>2 DEF SettleInv, FirstInv
  <2>3. QED
    BY <1>1, <2>1, <2>2
<1>6. QED
  BY <1>2, <1>3, <1>5 DEF SettleInv

(* The first line of a subagent's end takes it out of the live set.        *)
LEMMA EndLineSettles ==
  ASSUME Inv, SettleInv, NEW t \in Tasks, NEW l \in {"task_updated", "task_notification"},
         Owes(t, l), AfterTaskLine(background_tasks \ {t})
  PROVE  SettleInv'
<1>1. /\ l \in owed[t] /\ owed' = [owed EXCEPT ![t] = @ \ {l}]
      /\ UNCHANGED <<turn, spoke, turns, inbox, kind, phase>>
  BY DEF Owes
<1>2. phase[t] = "ended"
  BY <1>1 DEF Inv, CliInv, StartLines
<1>3. background_tasks' = background_tasks \ {t}
  BY DEF AfterTaskLine
<1>4. \A u \in Tasks \ {t} : owed'[u] = owed[u]
  BY <1>1 DEF Inv, CliInv
<1>5. Heard'
  BY <1>1, <1>2, <1>3, <1>4 DEF SettleInv, Heard
<1>6. QED
  BY <1>1, <1>2, <1>5, LineSettles

(* Every reachable state satisfies SettleInv: where the transitions raised *)
(* take the status is accounted for by what the CLI is at.                 *)
THEOREM SettleInvHolds == Spec => []SettleInv
<1>1. Init => SettleInv
  <2> SUFFICES ASSUME Init PROVE SettleInv
    OBVIOUS
  <2>1. QueueInv /\ Comes = "idle"
    BY DEF Init, QueueInv, Comes
  <2>2. RestInv
    BY <2>1 DEF RestInv
  <2>3. Heard
    BY DEF Init, Heard
  <2>4. FirstInv
    BY DEF Init, FirstInv
  <2>5. QED
    BY <2>1, <2>2, <2>3, <2>4 DEF SettleInv
<1>2. Inv /\ SettleInv /\ [Next]_vars => SettleInv'
  <2> SUFFICES ASSUME Inv, SettleInv, [Next]_vars PROVE SettleInv'
    OBVIOUS
  <2>1. CASE TurnBegins
    <3>1. /\ ~turn /\ turn' /\ ~spoke' /\ turns' = turns + 1 /\ spoke' \in BOOLEAN
          /\ inbox' = IF inbox > 0 THEN inbox - 1 ELSE 0
          /\ UNCHANGED <<kind, phase, owed>> /\ UNCHANGED turnVars
          /\ UNCHANGED <<raised, status>>
      BY <2>1 DEF TurnBegins, runnerVars
    <3>2. QueueInv'
      BY <3>1 DEF SettleInv, QueueInv
    <3>3. RestInv' /\ Heard'
      BY <3>1 DEF RestInv, SettleInv, Heard, turnVars
    <3>4. FirstInv'
      BY <3>1 DEF SettleInv, QueueInv, FirstInv, Fresh, turnVars
    <3>5. QED
      BY <3>2, <3>3, <3>4 DEF SettleInv
  <2>2. CASE MessageJoinsTurn
    <3>1. /\ turn /\ inbox > 0 /\ inbox' = inbox - 1
          /\ UNCHANGED <<turn, spoke, turns, kind, phase, owed>> /\ UNCHANGED turnVars
          /\ UNCHANGED <<raised, status>>
      BY <2>2 DEF MessageJoinsTurn, runnerVars
    <3>2. Comes' = Comes
      BY <3>1 DEF Comes
    <3>3. QueueInv'
      BY <3>1 DEF SettleInv, QueueInv
    <3>4. RestInv' /\ Heard'
      BY <3>1 DEF RestInv, SettleInv, Heard, turnVars
    <3>5. FirstInv'
      BY <3>1, <3>2 DEF SettleInv, FirstInv, Fresh, turnVars
    <3>6. QED
      BY <3>3, <3>4, <3>5 DEF SettleInv
  <2>3. CASE Speaks
    <3>1. /\ turn /\ spoke' = TRUE /\ UNCHANGED <<turn, turns, inbox, kind, phase, owed>>
      BY <2>3 DEF Speaks
    <3>2. /\ turn_open' /\ UNCHANGED <<deferred_turn_end, background_tasks>>
          /\ raised' \in Seq(Raisable) /\ UNCHANGED status
          /\ Comes' = IF turn_open THEN Comes ELSE "working"
      BY <2>3, SpeaksComes DEF Speaks, SettleInv
    <3>3. QueueInv'
      BY <3>1, <3>2 DEF SettleInv, QueueInv
    <3>4. RestInv' /\ Heard'
      BY <3>1, <3>2 DEF RestInv, SettleInv, Heard
    <3>5. ASSUME turns <= 1 PROVE ~deferred_turn_end /\ Comes' # "idle"
      <4>1. CASE spoke
        BY <3>1, <3>2, <3>5, <4>1 DEF SettleInv, FirstInv
      <4>2. CASE ~spoke
        <5>1. ~turn_open /\ \A t \in Tasks : phase[t] = "unborn"
          BY <3>1, <3>5, <4>2 DEF SettleInv, FirstInv, Fresh
        <5>2. ~deferred_turn_end
          BY <5>1 DEF Inv, HeldInv
        <5>3. QED
          BY <3>2, <5>1, <5>2
      <4>3. QED
        BY <4>1, <4>2
    <3>6. FirstInv'
      BY <3>1, <3>2, <3>5 DEF SettleInv, FirstInv, Fresh
    <3>7. QED
      BY <3>3, <3>4, <3>6 DEF SettleInv
  <2>4. ASSUME NEW t \in Tasks, SubagentStarts(t) PROVE SettleInv'
    <3>1. /\ IF kind[t] = "nested" THEN \E u \in Tasks \ {t} : phase[u] = "running"
             ELSE turn /\ spoke
          /\ phase' = [phase EXCEPT ![t] = "running"]
          /\ UNCHANGED <<turn, spoke, turns, inbox, kind>> /\ UNCHANGED turnVars
          /\ UNCHANGED <<raised, status>>
      BY <2>4 DEF SubagentStarts, runnerVars
    <3>2. \A u \in Tasks \ {t} : owed'[u] = owed[u] /\ phase'[u] = phase[u]
      BY <2>4 DEF SubagentStarts, Inv, CliInv
    <3>3. owed'[t] # {}
      BY <2>4 DEF SubagentStarts, Inv, CliInv
    <3>4. kind[t] = "background" => turn /\ spoke
      BY <3>1
    <3>5. Heard'
      BY <3>1, <3>2, <3>3, <3>4 DEF SettleInv, Heard, turnVars
    <3>6. (turn /\ spoke) \/ (\E u \in Tasks : phase[u] # "unborn")
      BY <3>1
    <3>7. QED
      BY <3>1, <3>5, <3>6, SettleFrame
  <2>5. ASSUME NEW t \in Tasks, SubagentEnds(t) PROVE SettleInv'
    <3>1. /\ phase[t] = "running" /\ phase' = [phase EXCEPT ![t] = "ended"]
          /\ UNCHANGED <<turn, spoke, turns, inbox, kind>> /\ UNCHANGED turnVars
          /\ UNCHANGED <<raised, status>>
      BY <2>5 DEF SubagentEnds, Announced, runnerVars
    <3>2. \A u \in Tasks \ {t} : owed'[u] = owed[u] /\ phase'[u] = phase[u]
      BY <2>5 DEF SubagentEnds, Inv, CliInv
    <3>3. phase'[t] = "ended"
      BY <3>1 DEF Inv, CliInv
    <3>4. Heard'
      BY <3>1, <3>2, <3>3 DEF SettleInv, Heard, turnVars
    <3>5. \E u \in Tasks : phase[u] # "unborn"
      BY <3>1
    <3>6. QED
      BY <3>1, <3>4, <3>5, SettleFrame
  <2>6. ASSUME NEW t \in Tasks, TaskStarted(t) PROVE SettleInv'
    <3>1. /\ "task_started" \in owed[t] /\ owed' = [owed EXCEPT ![t] = @ \ {"task_started"}]
          /\ UNCHANGED <<turn, spoke, turns, inbox, kind, phase>>
      BY <2>6 DEF TaskStarted, Owes
    <3>2. \A u \in Tasks \ {t} : owed'[u] = owed[u]
      BY <3>1 DEF Inv, CliInv
    <3>3. phase[t] # "unborn"
      BY <3>1 DEF Inv, CliInv
    <3>4. CASE kind[t] # "background"
      <4>1. UNCHANGED turnVars /\ Raise(<<>>)
        BY <2>6, <3>4 DEF TaskStarted
      <4>2. raised' = raised /\ UNCHANGED status
        BY <4>1 DEF Raise, SettleInv, QueueInv
      <4>3. Heard'
        BY <3>1, <3>2, <3>4, <4>1 DEF SettleInv, Heard, turnVars
      <4>4. QED
        BY <3>1, <3>3, <4>1, <4>2, <4>3, SettleFrame
    <3>5. CASE kind[t] = "background"
      <4>1. AfterTaskLine(background_tasks \union {t})
        BY <2>6, <3>5 DEF TaskStarted
      <4>2. background_tasks' = background_tasks \union {t}
        BY <4>1 DEF AfterTaskLine
      <4>3. phase[t] = "running" /\ turn
        BY <3>1, <3>3, <3>5 DEF Inv, CliInv, EndLines, SettleInv, Heard
      <4>4. Heard'
        BY <3>1, <3>2, <4>2, <4>3 DEF SettleInv, Heard
      <4>5. QED
        BY <3>1, <3>3, <4>1, <4>3, <4>4, LineSettles
    <3>6. QED
      BY <3>4, <3>5
  <2>7. ASSUME NEW t \in Tasks, BackgroundTasksChanged(t) PROVE SettleInv'
    <3> DEFINE live == {u \in Tasks : kind[u] = "background" /\ phase[u] = "running"}
    <3>1. /\ "background_tasks_changed" \in owed[t] /\ AfterTaskLine(live)
          /\ owed' = [owed EXCEPT ![t] = @ \ {"background_tasks_changed"}]
          /\ UNCHANGED <<turn, spoke, turns, inbox, kind, phase>>
      BY <2>7 DEF BackgroundTasksChanged, Owes
    <3>2. \A u \in Tasks : owed'[u] \subseteq owed[u]
      BY <3>1 DEF Inv, CliInv
    <3>3. background_tasks' = live
      BY <3>1 DEF AfterTaskLine
    <3>4. Heard'
      BY <3>1, <3>2, <3>3 DEF SettleInv, Heard
    <3>5. ~turn /\ live # {} => background_tasks # {}
      BY DEF SettleInv, Heard
    <3>6. phase[t] # "unborn"
      BY <3>1 DEF Inv, CliInv
    <3> HIDE DEF live
    <3>7. QED
      BY <3>1, <3>4, <3>5, <3>6, LineSettles
  <2>8. ASSUME NEW t \in Tasks, TaskUpdated(t) PROVE SettleInv'
    BY <2>8, EndLineSettles DEF TaskUpdated
  <2>9. ASSUME NEW t \in Tasks, TaskNotification(t) PROVE SettleInv'
    BY <2>9, EndLineSettles DEF TaskNotification
  <2>10. ASSUME NEW t \in Tasks, ToolResult(t) PROVE SettleInv'
    <3>1. /\ "tool_result" \in owed[t] /\ owed' = [owed EXCEPT ![t] = @ \ {"tool_result"}]
          /\ UNCHANGED <<turn, spoke, turns, inbox, kind, phase>>
          /\ UNCHANGED turnVars /\ Raise(<<>>)
      BY <2>10 DEF ToolResult, Owes
    <3>2. raised' = raised /\ UNCHANGED status
      BY <3>1 DEF Raise, SettleInv, QueueInv
    <3>3. kind[t] # "background"
      BY <3>1 DEF Inv, CliInv, StartLines, EndLines
    <3>4. \A u \in Tasks \ {t} : owed'[u] = owed[u]
      BY <3>1 DEF Inv, CliInv
    <3>5. Heard'
      BY <3>1, <3>3, <3>4 DEF SettleInv, Heard, turnVars
    <3>6. QED
      BY <3>1, <3>2, <3>5, SettleFrame
  <2>11. ASSUME NEW t \in Tasks, Launched(t) PROVE SettleInv'
    <3>1. UNCHANGED cliVars /\ UNCHANGED turnVars /\ Raise(<<>>)
      BY <2>11 DEF Launched
    <3>2. raised' = raised /\ UNCHANGED status
      BY <3>1 DEF Raise, SettleInv, QueueInv
    <3>3. Heard'
      BY <3>1 DEF SettleInv, Heard, turnVars, cliVars
    <3>4. QED
      BY <3>1, <3>2, <3>3, SettleFrame DEF cliVars
  <2>12. ASSUME NEW t \in Tasks, SubagentWorks(t) PROVE SettleInv'
    <3>1. UNCHANGED cliVars
      BY <2>12 DEF SubagentWorks
    <3>2. UNCHANGED turnVars /\ Raise(<<>>)
      BY <2>12 DEF SubagentWorks, OnAssistant, Inv, CliInv, turnVars
    <3>3. raised' = raised /\ UNCHANGED status
      BY <3>2 DEF Raise, SettleInv, QueueInv
    <3>4. Heard'
      BY <3>1, <3>2 DEF SettleInv, Heard, turnVars, cliVars
    <3>5. QED
      BY <3>1, <3>2, <3>3, <3>4, SettleFrame DEF cliVars
  <2>13. ASSUME NEW out \in BOOLEAN, TurnEnds(out) PROVE SettleInv'
    <3>1. /\ turn /\ turn' = FALSE /\ spoke' = FALSE /\ UNCHANGED <<turns, inbox, kind, owed>>
          /\ \A t \in Tasks : phase[t] = "running" => owed[t] = {}
          /\ \A t \in Tasks : kind[t] = "background" => phase'[t] = phase[t]
      BY <2>13 DEF TurnEnds, Announced
    <3>2. /\ UNCHANGED background_tasks
          /\ raised' \in Seq(Raisable) /\ UNCHANGED status
          /\ \/ Comes' = "rate_limited"
             \/ Comes' = "idle" /\ background_tasks = {}
             \/ Comes' = Comes /\ deferred_turn_end'
      BY <2>13, ResultComes DEF TurnEnds, SettleInv
    <3>3. QueueInv'
      BY <3>1, <3>2 DEF SettleInv, QueueInv
    <3>4. RestInv' /\ Heard'
      BY <3>1, <3>2 DEF RestInv, SettleInv, Heard
    <3>5. turns <= 1 /\ background_tasks # {} => spoke
      BY <3>1 DEF SettleInv, FirstInv, Fresh, Inv, HeldInv
    <3>6. turns # 0
      BY <3>1 DEF SettleInv, FirstInv
    <3>7. FirstInv'
      BY <3>1, <3>2, <3>5, <3>6 DEF SettleInv, FirstInv, Fresh
    <3>8. QED
      BY <3>3, <3>4, <3>7 DEF SettleInv
  <2>14. CASE OperatorSends
    <3>1. QueueInv' /\ Comes' \in {Comes, "working"}
      BY <2>14, SendsComes DEF SettleInv
    <3>2. /\ inbox' = inbox + 1
          /\ UNCHANGED <<turn, spoke, turns, kind, phase, owed>> /\ UNCHANGED turnVars
      BY <2>14 DEF OperatorSends
    <3>3. RestInv' /\ Heard'
      BY <3>2 DEF RestInv, SettleInv, QueueInv, Heard, turnVars
    <3>4. FirstInv'
      BY <3>1, <3>2 DEF SettleInv, FirstInv, Fresh, turnVars
    <3>5. QED
      BY <3>1, <3>3, <3>4 DEF SettleInv
  <2>15. CASE RunnerApplies
    <3>1. QueueInv' /\ Comes' = Comes
      BY <2>15, AppliesComes DEF SettleInv
    <3>2. UNCHANGED cliVars /\ UNCHANGED turnVars
      BY <2>15 DEF RunnerApplies
    <3>3. RestInv' /\ Heard'
      BY <3>1, <3>2 DEF RestInv, SettleInv, Heard, turnVars, cliVars
    <3>4. FirstInv'
      BY <3>1, <3>2 DEF SettleInv, FirstInv, Fresh, turnVars, cliVars
    <3>5. QED
      BY <3>1, <3>3, <3>4 DEF SettleInv
  <2>16. CASE UNCHANGED vars
    <3>1. UNCHANGED cliVars /\ UNCHANGED turnVars /\ UNCHANGED runnerVars
      BY <2>16 DEF vars
    <3>2. Heard'
      BY <3>1 DEF SettleInv, Heard, turnVars, cliVars
    <3>3. QED
      BY <3>1, <3>2, SettleFrame DEF cliVars, runnerVars
  <2>17. QED
    BY <2>1, <2>2, <2>3, <2>4, <2>5, <2>6, <2>7, <2>8, <2>9, <2>10, <2>11, <2>12,
       <2>13, <2>14, <2>15, <2>16 DEF Next, TaskLine
<1>3. QED
  BY <1>1, <1>2, InvHolds, PTL DEF Spec

(* An agent with nothing left to do is not left at working: whatever lines *)
(* of its subagents the CLI printed, the last held turn end has landed.    *)
THEOREM ComesToRestHolds == Spec => []ComesToRest
<1>1. Inv /\ SettleInv => ComesToRest
  <2> SUFFICES ASSUME Inv, SettleInv, Quiet PROVE status # "working"
    BY DEF ComesToRest
  <2>1. ~turn /\ inbox = 0 /\ Comes = status
    BY DEF Quiet, Comes
  <2>2. ~deferred_turn_end
    BY DEF Inv, HeldInv, Quiet
  <2>3. QED
    BY <2>1, <2>2 DEF SettleInv, RestInv
<1>2. QED
  BY <1>1, InvHolds, SettleInvHolds, PTL

(* In its first turn an agent that reads idle is the operator's to type    *)
(* to: it is in no turn it has spoken in and awaits no backgrounded        *)
(* subagent.  Later turns break it, as the comment at IdleIsYourTurn says. *)
THEOREM FirstTurnIdleIsYourTurnHolds == Spec => []FirstTurnIdleIsYourTurn
<1>1. Inv /\ SettleInv => FirstTurnIdleIsYourTurn
  <2> SUFFICES ASSUME Inv, SettleInv, turns <= 1, status = "idle", raised = <<>>, inbox = 0
               PROVE  ~(turn /\ spoke) /\ background_tasks = {}
    BY DEF FirstTurnIdleIsYourTurn, IdleIsYourTurn
  <2>1. Comes = "idle"
    BY DEF Comes
  <2>2. ~(turn /\ spoke)
    BY <2>1 DEF SettleInv, FirstInv
  <2>3. ~turn => background_tasks = {}
    BY <2>1 DEF SettleInv, FirstInv
  <2>4. turn => \A t \in Tasks : phase[t] = "unborn"
    BY <2>2 DEF SettleInv, FirstInv, Fresh, Inv, CliInv
  <2>5. turn => background_tasks = {}
    BY <2>4 DEF Inv, HeldInv
  <2>6. QED
    BY <2>2, <2>3, <2>5
<1>2. QED
  BY <1>1, InvHolds, SettleInvHolds, PTL

(* Every variable keeps its type: the parts of the invariants that say so, *)
(* and that only tasks are remembered by kind.                             *)
THEOREM TypeCorrect == Spec => []TypeOK
<1> DEFINE Remembered == backgrounded \subseteq Tasks /\ synchronous \subseteq Tasks
<1>1. Init => Remembered
  BY DEF Init
<1>2. Remembered /\ [Next]_vars => Remembered'
  <2> SUFFICES ASSUME Remembered, [Next]_vars PROVE Remembered'
    OBVIOUS
  <2>1. ASSUME NEW t \in Tasks, ListStarted(t) PROVE Remembered'
    BY <2>1 DEF ListStarted
  <2>2. ASSUME UNCHANGED <<backgrounded, synchronous>> PROVE Remembered'
    BY <2>2
  <2>3. ASSUME NEW t \in Tasks, TaskLine(t) \/ Launched(t) \/ SubagentWorks(t)
        PROVE  Remembered'
    BY <2>1, <2>2, <2>3
    DEF TaskLine, TaskStarted, BackgroundTasksChanged, TaskUpdated, TaskNotification, ToolResult,
        Launched, SubagentWorks, ListBackground, ListEnded, ListReturned, ListAlive, listVars
  <2>4. ASSUME NEW t \in Tasks, SubagentStarts(t) \/ SubagentEnds(t) PROVE Remembered'
    BY <2>2, <2>4 DEF SubagentStarts, SubagentEnds, listVars
  <2>5. ASSUME NEW out \in BOOLEAN, TurnEnds(out) PROVE Remembered'
    BY <2>2, <2>5 DEF TurnEnds, ListTurnEnd, listVars
  <2>6. CASE TurnBegins \/ MessageJoinsTurn \/ Speaks \/ OperatorSends \/ RunnerApplies
    BY <2>2, <2>6 DEF TurnBegins, MessageJoinsTurn, Speaks, OperatorSends, RunnerApplies, listVars
  <2>7. CASE UNCHANGED vars
    BY <2>2, <2>7 DEF vars, listVars
  <2> QED
    BY <2>3, <2>4, <2>5, <2>6, <2>7 DEF Next
<1>3. Inv /\ ListInv /\ SettleInv /\ Remembered => TypeOK
  <2> SUFFICES ASSUME Inv, ListInv, SettleInv, Remembered PROVE TypeOK
    OBVIOUS
  <2>1. raised \in Seq(Transition) /\ status \in Status
    <3>1. Raisable \subseteq Transition
      BY DEF Raisable, Transition
    <3> QED
      BY <3>1 DEF SettleInv, QueueInv, Status, Live
  <2>2. subagents \in Seq([task_id : Tasks, state : Shown])
    BY DEF ListInv, Each, Entry
  <2>3. /\ top_level_synchronous \subseteq Tasks /\ closed_by_backstop \subseteq Tasks
    BY DEF ListInv, Kinds
  <2> QED
    BY <2>1, <2>2, <2>3
    DEF TypeOK, Inv, CliInv, HeldInv, SettleInv, QueueInv, FirstInv
<1> QED
  BY <1>1, <1>2, <1>3, InvHolds, ListInvHolds, SettleInvHolds, PTL DEF Spec
================================================================================
