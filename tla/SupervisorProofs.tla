--------------------------- MODULE SupervisorProofs ---------------------------
(***************************************************************************)
(* Proofs about two parts of the supervisor, which share no state: about   *)
(* AgentRegistry, for any number of handlers and launches, whether or not  *)
(* clients go away; and about AutoResume, for any values of its constants  *)
(* that keep the order AutoResumeAssumption states.                        *)
(***************************************************************************)
EXTENDS AgentRegistry, AutoResume, TLAPS

--------------------------------------------------------------------------------
(* The registry of live agents.                                            *)

Held == {"claimed", "starting", "running", "exited", "lost"}

(* Inductive.  The slot names the one launch that is under way, a child is *)
(* alive only in one that is, and a handler in the middle of a launch is   *)
(* alone in it.                                                            *)
RegistryInv ==
  /\ slot \in Nat /\ generation \in Nat
  /\ stage \in [Launches -> Stage] /\ child \in [Launches -> BOOLEAN]
  /\ at \in [Callers -> Place] /\ mine \in [Callers -> 0..MaxLaunches]
  /\ slot # NoLaunch => slot \in Launches
  /\ \A g \in Launches : stage[g] \in Held <=> slot = g
  /\ \A g \in Launches : child[g] => stage[g] \in {"starting", "running", "lost"}
  /\ \A c \in Callers : at[c] \in {"claimed", "starting"} =>
       mine[c] \in Launches /\ stage[mine[c]] = at[c]
  /\ \A c, d \in Callers :
       at[c] \in {"claimed", "starting"} /\ at[d] \in {"claimed", "starting"} => c = d

LEMMA PlaceFacts ==
  /\ {"claimed", "starting", "inserted", "launching", "failing", "done", "dropped"} \subseteq Place
  /\ Held \subseteq Stage /\ {"unborn", "gone"} \subseteq Stage
BY DEF Place, Launching, Held, Stage

(* A handler that moves between places outside a launch disturbs nothing.  *)
LEMMA OutsideLaunch ==
  ASSUME RegistryInv, NEW c \in Callers, NEW p \in Place \ {"claimed", "starting"},
         at[c] \notin {"claimed", "starting"}, at' = [at EXCEPT ![c] = p],
         UNCHANGED <<slot, generation, stage, child, mine>>
  PROVE  RegistryInv'
<1>1. at' \in [Callers -> Place]
  BY DEF RegistryInv
<1>2. \A d \in Callers : at'[d] \in {"claimed", "starting"} => at[d] = at'[d]
  BY DEF RegistryInv
<1>3. QED
  BY <1>1, <1>2 DEF RegistryInv

(* Registry, runners and handlers agree on which launch is under way, for  *)
(* any requests in any order.                                              *)
THEOREM RegistryInvHolds == Spec => []RegistryInv
<1>1. Init => RegistryInv
  BY PlaceFacts, RegistryAssumption DEF Init, RegistryInv, Held, Stage, Place, NoLaunch, Launches
<1>2. RegistryInv /\ [Next]_vars => RegistryInv'
  <2> SUFFICES ASSUME RegistryInv, [Next]_vars PROVE RegistryInv'
    OBVIOUS
  <2>u. ASSUME UNCHANGED <<slot, generation, stage, child, at, mine>> PROVE RegistryInv'
    BY <2>u DEF RegistryInv
  <2>1. ASSUME NEW c \in Callers, Launch(c) PROVE RegistryInv'
    <3>1. CASE SpawnInserts(c)
      BY <3>1, OutsideLaunch DEF SpawnInserts, Goes, slotVars, launchVars, Place, Launching
    <3>2. CASE ResumeChecks(c)
      BY <3>2, OutsideLaunch DEF ResumeChecks, Goes, slotVars, launchVars, Place, Launching
    <3>3. CASE ResumeReads(c)
      BY <3>3, OutsideLaunch DEF ResumeReads, Goes, slotVars, launchVars, Place, Launching
    <3>4. CASE LaunchRefused(c)
      BY <3>4, OutsideLaunch DEF LaunchRefused, Goes, slotVars, launchVars, Place, Launching
    <3>5. CASE Claims(c)
      <4>1. CASE slot # NoLaunch
        BY <3>5, <4>1, OutsideLaunch DEF Claims, slotVars, Place, Launching
      <4>2. CASE slot = NoLaunch
        <5> DEFINE g == generation + 1
        <5>1. g \in Launches /\ g # NoLaunch /\ slot' = g /\ generation' = g
          BY <3>5, <4>2, RegistryAssumption
             DEF Claims, RegistryInv, Launches, NoLaunch
        <5> HIDE DEF g
        <5>2. /\ stage' = [stage EXCEPT ![g] = "claimed"] /\ UNCHANGED child
              /\ mine' = [mine EXCEPT ![c] = g] /\ at' = [at EXCEPT ![c] = "claimed"]
          BY <3>5, <4>2, <5>1 DEF Claims
        <5>3. \A h \in Launches : stage[h] \notin Held /\ ~child[h]
          <6>1. \A h \in Launches : h # slot
            BY <4>2 DEF NoLaunch, Launches
          <6>2. QED
            BY <6>1 DEF RegistryInv, Held
        <5>4. \A d \in Callers : at[d] \notin {"claimed", "starting"}
          BY <5>3 DEF RegistryInv, Held
        <5>5. /\ stage' \in [Launches -> Stage] /\ at' \in [Callers -> Place]
              /\ mine' \in [Callers -> 0..MaxLaunches] /\ slot' \in Nat /\ generation' \in Nat
          BY <5>1, <5>2 DEF RegistryInv, Stage, Place, Launching, Launches
        <5>6. \A h \in Launches : stage'[h] \in Held <=> slot' = h
          BY <5>1, <5>2, <5>3 DEF RegistryInv, Held
        <5>7. \A d \in Callers : at'[d] \in {"claimed", "starting"} =>
                d = c /\ at'[d] = "claimed" /\ mine'[d] = g /\ stage'[g] = "claimed"
          BY <5>1, <5>2, <5>4 DEF RegistryInv
        <5>8. \A h \in Launches : ~child'[h]
          BY <5>2, <5>3
        <5>9. QED
          BY <5>1, <5>2, <5>5, <5>6, <5>7, <5>8 DEF RegistryInv
      <4>3. QED
        BY <4>1, <4>2
    <3>6. CASE ChildStarts(c)
      <4> DEFINE g == mine[c]
      <4>1. g \in Launches /\ stage[g] = "claimed" /\ at[c] = "claimed"
        BY <3>6 DEF ChildStarts, Goes, RegistryInv
      <4> HIDE DEF g
      <4>2. /\ stage' = [stage EXCEPT ![g] = "starting"] /\ child' = [child EXCEPT ![g] = TRUE]
            /\ at' = [at EXCEPT ![c] = "starting"] /\ UNCHANGED <<slot, generation, mine>>
            /\ mine[c] = g
        BY <3>6 DEF ChildStarts, Goes, slotVars, g
      <4>3. /\ stage' \in [Launches -> Stage] /\ child' \in [Launches -> BOOLEAN]
            /\ at' \in [Callers -> Place]
        BY <4>2 DEF RegistryInv, Stage, Place, Launching
      <4>4. \A h \in Launches : stage'[h] \in Held <=> slot' = h
        BY <4>1, <4>2 DEF RegistryInv, Held
      <4>5. \A h \in Launches : child'[h] => stage'[h] \in {"starting", "running", "lost"}
        BY <4>1, <4>2 DEF RegistryInv
      <4>6. \A d \in Callers : at'[d] \in {"claimed", "starting"} => d = c
        BY <4>1, <4>2 DEF RegistryInv
      <4>7. QED
        BY <4>1, <4>2, <4>3, <4>4, <4>5, <4>6 DEF RegistryInv
    <3>7. CASE RunnerStarts(c)
      <4> DEFINE g == mine[c]
      <4>1. g \in Launches /\ stage[g] = "starting" /\ at[c] = "starting"
        BY <3>7 DEF RunnerStarts, Goes, RegistryInv
      <4> HIDE DEF g
      <4>2. /\ stage' = [stage EXCEPT ![g] = "running"] /\ at' = [at EXCEPT ![c] = "done"]
            /\ UNCHANGED <<slot, generation, mine, child>>
        BY <3>7 DEF RunnerStarts, Goes, slotVars, g
      <4>3. stage' \in [Launches -> Stage] /\ at' \in [Callers -> Place]
        BY <4>2 DEF RegistryInv, Stage, Place, Launching
      <4>4. \A h \in Launches : stage'[h] \in Held <=> slot' = h
        BY <4>1, <4>2 DEF RegistryInv, Held
      <4>5. \A h \in Launches : child'[h] => stage'[h] \in {"starting", "running", "lost"}
        BY <4>1, <4>2 DEF RegistryInv
      <4>6. \A d \in Callers : at'[d] \notin {"claimed", "starting"}
        BY <4>1, <4>2 DEF RegistryInv
      <4>7. QED
        BY <4>2, <4>3, <4>4, <4>5, <4>6 DEF RegistryInv
    <3>8. CASE SpawnFails(c)
      <4> DEFINE g == mine[c]
      <4>1. g \in Launches /\ stage[g] = "claimed" /\ at[c] = "claimed" /\ slot = g
        BY <3>8 DEF SpawnFails, Goes, RegistryInv, Held
      <4> HIDE DEF g
      <4>2. /\ stage' = [stage EXCEPT ![g] = "gone"] /\ at' = [at EXCEPT ![c] = "failing"]
            /\ slot' = NoLaunch /\ UNCHANGED <<generation, mine, child>>
        BY <3>8, <4>1 DEF SpawnFails, Goes, Deregister, g
      <4>3. /\ stage' \in [Launches -> Stage] /\ at' \in [Callers -> Place] /\ slot' \in Nat
        BY <4>2 DEF RegistryInv, Stage, Place, Launching, NoLaunch
      <4>4. \A h \in Launches : stage'[h] \notin Held /\ slot' # h
        BY <4>1, <4>2 DEF RegistryInv, Held, NoLaunch, Launches
      <4>5. \A h \in Launches : child'[h] => stage'[h] \in {"starting", "running", "lost"}
        BY <4>1, <4>2 DEF RegistryInv
      <4>6. \A d \in Callers : at'[d] \notin {"claimed", "starting"}
        BY <4>1, <4>2 DEF RegistryInv
      <4>7. QED
        BY <4>2, <4>3, <4>4, <4>5, <4>6 DEF RegistryInv
    <3>9. CASE MarksFailed(c)
      BY <3>9, OutsideLaunch DEF MarksFailed, Goes, slotVars, launchVars, Place, Launching
    <3>10. QED
      BY <2>1, <3>1, <3>2, <3>3, <3>4, <3>5, <3>6, <3>7, <3>8, <3>9 DEF Launch
  <2>2. ASSUME NEW c \in Callers, StopAsked(c) \/ Shutdown(c) PROVE RegistryInv'
    BY <2>2, OutsideLaunch DEF StopAsked, Shutdown, ShutdownStops, ShutdownMarks, Goes,
       slotVars, Place, Launching, launchVars
  <2>3. ASSUME NEW c \in Callers, Delete(c) PROVE RegistryInv'
    BY <2>3, OutsideLaunch DEF Delete, DeleteReads, DeleteStops, AwaitEnds, DeadlinePasses,
       DeleteRefused, RowRemoved, Goes, slotVars, Place, Launching, launchVars
  <2>4. ASSUME NEW c \in Callers, ModeChange(c) PROVE RegistryInv'
    BY <2>4, OutsideLaunch DEF ModeChange, ModeRead, ModeChecked, ModeWritten, ModeSent,
       Goes, slotVars, Place, Launching, launchVars
  <2>5. ASSUME NEW c \in Callers, Abandoned(c) PROVE RegistryInv'
    <3>1. CASE at[c] \notin {"claimed", "starting"}
      BY <2>5, <3>1, OutsideLaunch DEF Abandoned, slotVars, Place, Launching
    <3>2. CASE at[c] \in {"claimed", "starting"}
      <4> DEFINE g == mine[c]
      <4>1. g \in Launches /\ stage[g] = at[c]
        BY <3>2 DEF RegistryInv
      <4> HIDE DEF g
      <4>2. /\ stage' = [stage EXCEPT ![g] = "lost"] /\ at' = [at EXCEPT ![c] = "dropped"]
            /\ UNCHANGED <<slot, generation, mine, child>>
        BY <2>5, <3>2 DEF Abandoned, slotVars, Launching, g
      <4>3. stage' \in [Launches -> Stage] /\ at' \in [Callers -> Place]
        BY <4>2 DEF RegistryInv, Stage, Place, Launching
      <4>4. \A h \in Launches : stage'[h] \in Held <=> slot' = h
        BY <3>2, <4>1, <4>2 DEF RegistryInv, Held
      <4>5. \A h \in Launches : child'[h] => stage'[h] \in {"starting", "running", "lost"}
        BY <4>1, <4>2 DEF RegistryInv
      <4>6. \A d \in Callers : at'[d] \notin {"claimed", "starting"}
        BY <3>2, <4>2 DEF RegistryInv
      <4>7. QED
        BY <4>2, <4>3, <4>4, <4>5, <4>6 DEF RegistryInv
    <3>3. QED
      BY <3>1, <3>2
  <2>6. ASSUME NEW g \in Launches, RunnerTakes(g) PROVE RegistryInv'
    BY <2>6, <2>u DEF RunnerTakes, slotVars, callerVars
  <2>7. ASSUME NEW g \in Launches, ChildDies(g) PROVE RegistryInv'
    BY <2>7 DEF ChildDies, slotVars, callerVars, RegistryInv
  <2>8. ASSUME NEW g \in Launches, RunnerExits(g) PROVE RegistryInv'
    <3>1. /\ stage[g] = "running" /\ ~child[g] /\ stage' = [stage EXCEPT ![g] = "exited"]
          /\ UNCHANGED <<slot, generation, child, at, mine>>
      BY <2>8 DEF RunnerExits, slotVars, callerVars
    <3>2. stage' \in [Launches -> Stage]
      BY <3>1 DEF RegistryInv, Stage
    <3>3. \A h \in Launches : stage'[h] \in Held <=> slot' = h
      BY <3>1 DEF RegistryInv, Held
    <3>4. \A h \in Launches : child'[h] => stage'[h] \in {"starting", "running", "lost"}
      BY <3>1 DEF RegistryInv
    <3>5. \A c \in Callers : at'[c] \in {"claimed", "starting"} =>
            mine'[c] \in Launches /\ stage'[mine'[c]] = at'[c]
      BY <3>1 DEF RegistryInv
    <3>6. QED
      BY <3>1, <3>2, <3>3, <3>4, <3>5 DEF RegistryInv
  <2>9. ASSUME NEW g \in Launches, RunnerGone(g) PROVE RegistryInv'
    <3>1. /\ stage[g] = "exited" /\ stage' = [stage EXCEPT ![g] = "gone"]
          /\ slot = g /\ slot' = NoLaunch /\ UNCHANGED <<generation, child, at, mine>>
      BY <2>9 DEF RunnerGone, Deregister, callerVars, RegistryInv, Held
    <3>2. stage' \in [Launches -> Stage] /\ slot' \in Nat
      BY <3>1 DEF RegistryInv, Stage, NoLaunch
    <3>3. \A h \in Launches : stage'[h] \notin Held /\ slot' # h
      BY <3>1 DEF RegistryInv, Held, NoLaunch, Launches
    <3>4. \A h \in Launches : child'[h] => stage'[h] \in {"starting", "running", "lost"}
      BY <3>1 DEF RegistryInv
    <3>5. \A c \in Callers : at'[c] \in {"claimed", "starting"} =>
            mine'[c] \in Launches /\ stage'[mine'[c]] = at'[c]
      BY <3>1 DEF RegistryInv
    <3>6. QED
      BY <3>1, <3>2, <3>3, <3>4, <3>5 DEF RegistryInv
  <2>10. CASE ServerRestarts
    <3>1. /\ slot' = NoLaunch /\ UNCHANGED <<generation, mine>>
          /\ stage' \in [Launches -> {"unborn", "gone"}]
          /\ child' = [h \in Launches |-> FALSE]
          /\ at' \in [Callers -> {"idle", "done"}]
      BY <2>10 DEF ServerRestarts
    <3>2. /\ stage' \in [Launches -> Stage] /\ at' \in [Callers -> Place]
          /\ child' \in [Launches -> BOOLEAN] /\ slot' \in Nat
      BY <3>1 DEF Stage, Place, NoLaunch
    <3>3. \A h \in Launches : stage'[h] \notin Held /\ slot' # h /\ ~child'[h]
      BY <3>1 DEF Held, NoLaunch, Launches
    <3>4. \A c \in Callers : at'[c] \notin {"claimed", "starting"}
      BY <3>1
    <3>5. QED
      BY <3>1, <3>2, <3>3, <3>4 DEF RegistryInv
  <2>11. CASE UNCHANGED vars
    BY <2>11, <2>u DEF vars, slotVars, launchVars, callerVars
  <2>12. QED
    BY <2>1, <2>2, <2>3, <2>4, <2>5, <2>6, <2>7, <2>8, <2>9, <2>10, <2>11 DEF Next
<1>3. QED
  BY <1>1, <1>2, PTL DEF Spec

(* Two children of one agent never run at once.                            *)
THEOREM OneChildHolds == Spec => []OneChild
<1>1. RegistryInv => OneChild
  BY DEF RegistryInv, OneChild, Held
<1>2. QED
  BY <1>1, RegistryInvHolds, PTL

(* A live child, and a runner at work, are always the ones the registry    *)
(* names.                                                                  *)
THEOREM LiveChildIsHeldHolds == Spec => []LiveChildIsHeld
<1>1. RegistryInv => LiveChildIsHeld
  BY DEF RegistryInv, LiveChildIsHeld, Held
<1>2. QED
  BY <1>1, RegistryInvHolds, PTL

(* Every variable of the registry keeps its type: what RegistryInv says of *)
(* launches and handlers, and the modes, commands and row besides.         *)
THEOREM RegistryTypeCorrect == Spec => []TypeOK
<1> DEFINE Cmds == Modes \union {Stop}
           Rest == /\ rowStatus \in {"unborn", "live", "terminal", "deleted"}
                   /\ rowMode \in Modes /\ generation <= MaxLaunches
                   /\ childMode \in [Launches -> Modes] /\ inbox \in [Launches -> Seq(Cmds)]
                   /\ mode \in [Callers -> Modes]
<1>1. Init => Rest
  BY RegistryAssumption DEF Init
<1>2. RegistryInv /\ Rest /\ [Next]_vars => Rest'
  <2> SUFFICES ASSUME RegistryInv, Rest, [Next]_vars PROVE Rest'
    OBVIOUS
  <2>0. \A g \in Launches : inbox[g] \in Seq(Cmds)
    OBVIOUS
  <2>1. ASSUME NEW cmd \in Cmds, Send(cmd) PROVE inbox' \in [Launches -> Seq(Cmds)]
    <3>1. CASE slot # NoLaunch /\ Listening(slot)
      <4>1. slot \in Launches /\ inbox' = [inbox EXCEPT ![slot] = Append(inbox[slot], cmd)]
        BY <2>1, <3>1 DEF Send, RegistryInv
      <4>2. Append(inbox[slot], cmd) \in Seq(Cmds)
        BY <4>1, <2>0
      <4> QED
        BY <4>1, <4>2
    <3>2. CASE ~(slot # NoLaunch /\ Listening(slot))
      BY <2>1, <3>2 DEF Send
    <3> QED
      BY <3>1, <3>2
  <2>2. RowBecomes("live") \/ RowBecomes("terminal") \/ RowBecomes("deleted") =>
          rowStatus' \in {"unborn", "live", "terminal", "deleted"}
    BY DEF RowBecomes
  <2>3. ASSUME NEW c \in Callers, Launch(c) PROVE Rest'
    <3>1. CASE SpawnInserts(c)
      BY <3>1 DEF SpawnInserts, slotVars, launchVars
    <3>2. CASE ResumeChecks(c) \/ ResumeReads(c) \/ LaunchRefused(c)
      BY <3>2 DEF ResumeChecks, ResumeReads, LaunchRefused, rowVars, slotVars, launchVars
    <3>3. CASE Claims(c)
      <4>1. generation' <= MaxLaunches
        BY <3>3, RegistryAssumption DEF Claims, RegistryInv, slotVars
      <4> QED
        BY <3>3, <4>1 DEF Claims, rowVars
    <3>4. CASE ChildStarts(c)
      <4>1. mine[c] \in Launches /\ mode[c] \in Modes
        BY <3>4 DEF ChildStarts, Goes, RegistryInv
      <4> QED
        BY <3>4, <4>1 DEF ChildStarts, rowVars, slotVars
    <3>5. CASE RunnerStarts(c)
      BY <2>2, <3>5 DEF RunnerStarts, slotVars
    <3>6. CASE SpawnFails(c)
      BY <3>6 DEF SpawnFails, rowVars
    <3>7. CASE MarksFailed(c)
      BY <2>2, <3>7 DEF MarksFailed, slotVars, launchVars
    <3> QED
      BY <2>3, <3>1, <3>2, <3>3, <3>4, <3>5, <3>6, <3>7 DEF Launch
  <2>4. ASSUME NEW c \in Callers, StopAsked(c) \/ DeleteStops(c) \/ ShutdownStops(c) PROVE Rest'
    BY <2>1, <2>4 DEF StopAsked, DeleteStops, ShutdownStops, rowVars, slotVars
  <2>5. ASSUME NEW c \in Callers, Delete(c) \/ Shutdown(c) PROVE Rest'
    <3>1. CASE DeleteReads(c) \/ AwaitEnds(c) \/ DeadlinePasses(c) \/ DeleteRefused(c)
      BY <3>1 DEF DeleteReads, AwaitEnds, DeadlinePasses, DeleteRefused, rowVars, slotVars, launchVars
    <3>2. CASE RowRemoved(c) \/ ShutdownMarks(c)
      BY <2>2, <3>2 DEF RowRemoved, ShutdownMarks, slotVars, launchVars
    <3> QED
      BY <2>4, <2>5, <3>1, <3>2 DEF Delete, Shutdown
  <2>6. ASSUME NEW c \in Callers, ModeChange(c) PROVE Rest'
    <3>1. CASE ModeRead(c) \/ ModeChecked(c) \/ ModeWritten(c)
      BY <3>1 DEF ModeRead, ModeChecked, ModeWritten, rowVars, slotVars, launchVars
    <3>2. CASE ModeSent(c)
      <4>1. mode[c] \in Cmds
        OBVIOUS
      <4> QED
        BY <2>1, <3>2, <4>1 DEF ModeSent, rowVars, slotVars
    <3> QED
      BY <2>6, <3>1, <3>2 DEF ModeChange
  <2>7. ASSUME NEW c \in Callers, Abandoned(c) PROVE Rest'
    BY <2>7 DEF Abandoned, rowVars, slotVars
  <2>8. ASSUME NEW g \in Launches, RunnerTakes(g) PROVE Rest'
    <3>1. inbox[g] \in Seq(Cmds) /\ inbox[g] # <<>>
      BY <2>0, <2>8 DEF RunnerTakes
    <3>2. Head(inbox[g]) \in Cmds /\ Tail(inbox[g]) \in Seq(Cmds)
      BY <3>1
    <3>3. Head(inbox[g]) # Stop => Head(inbox[g]) \in Modes
      BY <3>2
    <3>4. inbox' \in [Launches -> Seq(Cmds)]
      BY <2>8, <3>2 DEF RunnerTakes
    <3>5. childMode' \in [Launches -> Modes]
      BY <2>8, <3>3 DEF RunnerTakes
    <3> QED
      BY <2>8, <3>4, <3>5 DEF RunnerTakes, rowVars, slotVars, callerVars
  <2>9. ASSUME NEW g \in Launches, ChildDies(g) \/ RunnerExits(g) \/ RunnerGone(g) PROVE Rest'
    <3>1. CASE ChildDies(g) \/ RunnerExits(g)
      BY <2>2, <3>1 DEF ChildDies, RunnerExits, rowVars, slotVars, callerVars
    <3>2. CASE RunnerGone(g)
      BY <3>2 DEF RunnerGone, rowVars, callerVars
    <3> QED
      BY <2>9, <3>1, <3>2
  <2>10. CASE ServerRestarts
    BY <2>2, <2>10 DEF ServerRestarts
  <2>11. CASE UNCHANGED vars
    BY <2>11 DEF vars, rowVars, slotVars, launchVars, callerVars
  <2> QED
    BY <2>3, <2>4, <2>5, <2>6, <2>7, <2>8, <2>9, <2>10, <2>11 DEF Next
<1>3. RegistryInv /\ Rest => TypeOK
  BY RegistryAssumption DEF RegistryInv, TypeOK, NoLaunch, Launches
<1> QED
  BY <1>1, <1>2, <1>3, RegistryInvHolds, PTL DEF Spec

(* Inductive on top of RegistryInv.  A launch that is not yet a runner's   *)
(* has the handler that is making it.                                      *)
HandlerInv ==
  \A g \in Launches : stage[g] \in {"claimed", "starting"} =>
    \E c \in Callers : at[c] = stage[g] /\ mine[c] = g

(* It is disturbed by no step that leaves the launches alone and moves     *)
(* only a handler that is not in the middle of one.                        *)
LEMMA OutsideHandler ==
  ASSUME RegistryInv, HandlerInv, NEW c \in Callers, NEW p \in Place,
         at[c] \notin {"claimed", "starting"}, at' = [at EXCEPT ![c] = p],
         UNCHANGED <<stage, mine>>
  PROVE  HandlerInv'
<1>1. \A d \in Callers : at[d] \in {"claimed", "starting"} => at'[d] = at[d]
  BY DEF RegistryInv
<1>2. SUFFICES ASSUME NEW g \in Launches, stage[g] \in {"claimed", "starting"}
               PROVE  \E d \in Callers : at'[d] = stage[g] /\ mine[d] = g
  BY DEF HandlerInv
<1>3. PICK d \in Callers : at[d] = stage[g] /\ mine[d] = g
  BY <1>2 DEF HandlerInv
<1>4. at'[d] = stage[g]
  BY <1>1, <1>2, <1>3
<1>5. QED
  BY <1>3, <1>4

(* A launch of which some other launch's slot tells is not under way.      *)
LEMMA OnlyTheSlot ==
  ASSUME RegistryInv, NEW g \in Launches, stage[g] \in {"claimed", "starting"},
         NEW h \in Launches, h # g
  PROVE  stage[h] \notin {"claimed", "starting"}
BY DEF RegistryInv, Held

(* A launch without a runner always has the handler that is making it.     *)
THEOREM HandlerInvHolds == Spec => []HandlerInv
<1>1. Init => HandlerInv
  BY DEF Init, HandlerInv
<1>2. RegistryInv /\ HandlerInv /\ [Next]_vars => HandlerInv'
  <2> SUFFICES ASSUME RegistryInv, HandlerInv, [Next]_vars PROVE HandlerInv'
    OBVIOUS
  <2>u. ASSUME UNCHANGED <<stage, at, mine>> PROVE HandlerInv'
    BY <2>u DEF HandlerInv
  <2>1. ASSUME NEW c \in Callers, Launch(c) PROVE HandlerInv'
    <3>1. CASE SpawnInserts(c)
      BY <3>1, OutsideHandler DEF SpawnInserts, Goes, launchVars, Place, Launching
    <3>2. CASE ResumeChecks(c)
      BY <3>2, OutsideHandler DEF ResumeChecks, Goes, launchVars, Place, Launching
    <3>3. CASE ResumeReads(c)
      BY <3>3, OutsideHandler DEF ResumeReads, Goes, launchVars, Place, Launching
    <3>4. CASE LaunchRefused(c)
      BY <3>4, OutsideHandler DEF LaunchRefused, Goes, launchVars, Place, Launching
    <3>5. CASE Claims(c)
      <4>1. CASE slot # NoLaunch
        BY <3>5, <4>1, OutsideHandler DEF Claims, slotVars, Place, Launching
      <4>2. CASE slot = NoLaunch
        <5>1. \A h \in Launches : stage[h] \notin {"claimed", "starting"}
          BY <4>2 DEF RegistryInv, Held, NoLaunch, Launches
        <5>2. /\ stage' = [stage EXCEPT ![generation'] = "claimed"]
              /\ mine' = [mine EXCEPT ![c] = generation'] /\ at' = [at EXCEPT ![c] = "claimed"]
          BY <3>5, <4>2 DEF Claims
        <5>3. at'[c] = "claimed" /\ mine'[c] = generation'
          BY <5>2 DEF RegistryInv
        <5>4. \A h \in Launches :
                stage'[h] \in {"claimed", "starting"} => h = generation' /\ stage'[h] = "claimed"
          BY <5>1, <5>2 DEF RegistryInv
        <5>5. QED
          BY <5>3, <5>4 DEF HandlerInv
      <4>3. QED
        BY <4>1, <4>2
    <3>6. CASE ChildStarts(c)
      <4> DEFINE g == mine[c]
      <4>1. g \in Launches /\ stage[g] = "claimed" /\ mine[c] = g
        BY <3>6 DEF ChildStarts, Goes, RegistryInv
      <4>2. /\ stage' = [stage EXCEPT ![g] = "starting"] /\ at' = [at EXCEPT ![c] = "starting"]
            /\ UNCHANGED mine
        BY <3>6 DEF ChildStarts, Goes
      <4> HIDE DEF g
      <4>3. \A h \in Launches :
              stage'[h] \in {"claimed", "starting"} => h = g /\ stage'[h] = "starting"
        BY <4>1, <4>2, OnlyTheSlot DEF RegistryInv
      <4>4. at'[c] = "starting" /\ mine'[c] = g
        BY <4>1, <4>2 DEF RegistryInv
      <4>5. QED
        BY <4>3, <4>4 DEF HandlerInv
    <3>7. CASE RunnerStarts(c) \/ SpawnFails(c)
      <4> DEFINE g == mine[c]
      <4>1. g \in Launches /\ stage[g] \in {"claimed", "starting"}
        BY <3>7 DEF RunnerStarts, SpawnFails, Goes, RegistryInv
      <4>2. PICK s \in {"running", "gone"} : stage' = [stage EXCEPT ![g] = s]
        BY <3>7 DEF RunnerStarts, SpawnFails
      <4> HIDE DEF g
      <4>3. \A h \in Launches : stage'[h] \notin {"claimed", "starting"}
        BY <4>1, <4>2, OnlyTheSlot DEF RegistryInv
      <4>4. QED
        BY <4>3 DEF HandlerInv
    <3>8. CASE MarksFailed(c)
      BY <3>8, OutsideHandler DEF MarksFailed, Goes, launchVars, Place, Launching
    <3>9. QED
      BY <2>1, <3>1, <3>2, <3>3, <3>4, <3>5, <3>6, <3>7, <3>8 DEF Launch
  <2>2. ASSUME NEW c \in Callers, StopAsked(c) \/ Shutdown(c) PROVE HandlerInv'
    BY <2>2, OutsideHandler DEF StopAsked, Shutdown, ShutdownStops, ShutdownMarks, Goes,
       Place, Launching, launchVars
  <2>3. ASSUME NEW c \in Callers, Delete(c) PROVE HandlerInv'
    BY <2>3, OutsideHandler DEF Delete, DeleteReads, DeleteStops, AwaitEnds, DeadlinePasses,
       DeleteRefused, RowRemoved, Goes, Place, Launching, launchVars
  <2>4. ASSUME NEW c \in Callers, ModeChange(c) PROVE HandlerInv'
    BY <2>4, OutsideHandler DEF ModeChange, ModeRead, ModeChecked, ModeWritten, ModeSent,
       Goes, Place, Launching, launchVars
  <2>5. ASSUME NEW c \in Callers, Abandoned(c) PROVE HandlerInv'
    <3>1. CASE at[c] \notin {"claimed", "starting"}
      BY <2>5, <3>1, OutsideHandler DEF Abandoned, Place, Launching
    <3>2. CASE at[c] \in {"claimed", "starting"}
      <4> DEFINE g == mine[c]
      <4>1. g \in Launches /\ stage[g] \in {"claimed", "starting"}
        BY <3>2 DEF RegistryInv
      <4>2. stage' = [stage EXCEPT ![g] = "lost"]
        BY <2>5, <3>2 DEF Abandoned
      <4> HIDE DEF g
      <4>3. \A h \in Launches : stage'[h] \notin {"claimed", "starting"}
        BY <4>1, <4>2, OnlyTheSlot DEF RegistryInv
      <4>4. QED
        BY <4>3 DEF HandlerInv
    <3>3. QED
      BY <3>1, <3>2
  <2>6. ASSUME NEW g \in Launches, RunnerTakes(g) \/ ChildDies(g) PROVE HandlerInv'
    BY <2>6, <2>u DEF RunnerTakes, ChildDies, slotVars, callerVars
  <2>7. ASSUME NEW g \in Launches, RunnerExits(g) \/ RunnerGone(g) PROVE HandlerInv'
    <3>1. UNCHANGED <<at, mine>>
      BY <2>7 DEF RunnerExits, RunnerGone, callerVars
    <3>2. PICK s \in {"exited", "gone"} : stage' = [stage EXCEPT ![g] = s]
      BY <2>7 DEF RunnerExits, RunnerGone
    <3>3. \A h \in Launches :
            stage'[h] \in {"claimed", "starting"} => stage'[h] = stage[h]
      BY <3>2 DEF RegistryInv
    <3>4. QED
      BY <3>1, <3>3 DEF HandlerInv
  <2>8. CASE ServerRestarts
    <3>1. \A h \in Launches : stage'[h] \notin {"claimed", "starting"}
      BY <2>8 DEF ServerRestarts
    <3>2. QED
      BY <3>1 DEF HandlerInv
  <2>9. CASE UNCHANGED vars
    BY <2>9, <2>u DEF vars, launchVars, callerVars
  <2>10. QED
    BY <2>1, <2>2, <2>3, <2>4, <2>5, <2>6, <2>7, <2>8, <2>9 DEF Next
<1>3. QED
  BY <1>1, <1>2, RegistryInvHolds, PTL DEF Spec

(* The slot is held by a launch under way, by a runner, or by a launch     *)
(* whose handler was dropped: nothing else ever keeps an agent from being  *)
(* launched again.                                                         *)
THEOREM SlotHeldForAReasonHolds == Spec => []SlotHeldForAReason
<1>1. RegistryInv /\ HandlerInv => SlotHeldForAReason
  BY DEF RegistryInv, HandlerInv, SlotHeldForAReason, Held
<1>2. QED
  BY <1>1, RegistryInvHolds, HandlerInvHolds, PTL

(* Inductive on top of RegistryInv.  Nothing is launched before there is a *)
(* row; a row that reads live has a launch whose runner is not done or,    *)
(* with the slot free, a handler that has yet to launch it, to mark it     *)
(* failed, or that was dropped on the way.                                 *)
Owners == {"inserted", "failing", "dropped"}
RowInv ==
  /\ rowStatus = "unborn" => slot = NoLaunch /\ \A c \in Callers : at[c] \notin Launching
  /\ rowStatus = "live" /\ slot # NoLaunch => stage[slot] # "exited"
  /\ rowStatus = "live" /\ slot = NoLaunch => \E c \in Callers : at[c] \in Owners

(* A handler that owns nothing moves, or the row ends.                     *)
LEMMA OutsideRow ==
  ASSUME RegistryInv, RowInv, NEW c \in Callers, NEW p \in Place,
         at' = [at EXCEPT ![c] = p], UNCHANGED <<slot, stage>>,
         rowStatus' = rowStatus \/ rowStatus' \notin {"unborn", "live"},
         rowStatus' = "live" => at[c] \notin Owners \/ p \in Owners \/ slot # NoLaunch,
         rowStatus' = "unborn" => p \notin Launching
  PROVE  RowInv'
<1>1. \A d \in Callers : at'[d] = IF d = c THEN p ELSE at[d]
  BY DEF RegistryInv
<1>2. ASSUME rowStatus' = "unborn"
      PROVE  slot' = NoLaunch /\ \A d \in Callers : at'[d] \notin Launching
  BY <1>1, <1>2 DEF RowInv
<1>3. ASSUME rowStatus' = "live", slot' # NoLaunch PROVE stage'[slot'] # "exited"
  BY <1>3 DEF RowInv
<1>4. ASSUME rowStatus' = "live", slot' = NoLaunch PROVE \E d \in Callers : at'[d] \in Owners
  BY <1>1, <1>4 DEF RowInv
<1>5. QED
  BY <1>2, <1>3, <1>4 DEF RowInv

(* The row reads live only while somebody answers for it.                  *)
THEOREM RowInvHolds == Spec => []RowInv
<1>1. Init => RowInv
  BY DEF Init, RowInv, Launching
<1>2. RegistryInv /\ RowInv /\ [Next]_vars => RowInv'
  <2> SUFFICES ASSUME RegistryInv, RowInv, [Next]_vars PROVE RowInv'
    OBVIOUS
  <2>1. ASSUME NEW c \in Callers, Launch(c) PROVE RowInv'
    <3>1. CASE SpawnInserts(c)
      <4>1. rowStatus' = "live" /\ slot' = NoLaunch /\ at'[c] = "inserted"
        BY <3>1 DEF SpawnInserts, Goes, slotVars, RowInv, RegistryInv
      <4>2. QED
        BY <4>1 DEF RowInv, Owners
    <3>2. CASE ResumeChecks(c)
      BY <3>2, OutsideRow
         DEF ResumeChecks, Goes, rowVars, slotVars, launchVars, Place, Launching, Owners
    <3>3. CASE ResumeReads(c)
      BY <3>3, OutsideRow
         DEF ResumeReads, RowExists, Goes, rowVars, slotVars, launchVars, Place, Launching, Owners
    <3>4. CASE LaunchRefused(c)
      BY <3>4, OutsideRow
         DEF LaunchRefused, Goes, rowVars, slotVars, launchVars, Place, Launching, Owners
    <3>5. CASE Claims(c)
      <4>1. CASE slot # NoLaunch
        BY <3>5, <4>1, OutsideRow DEF Claims, rowVars, slotVars, Place, Launching, Owners
      <4>2. CASE slot = NoLaunch
        <5>1. rowStatus' = rowStatus /\ rowStatus # "unborn"
          BY <3>5 DEF Claims, rowVars, RowInv, Launching
        <5>2. slot' \in Launches /\ slot' # NoLaunch /\ slot' = generation'
          BY <3>5, <4>2, RegistryAssumption DEF Claims, RegistryInv, Launches, NoLaunch
        <5>3. stage'[slot'] = "claimed"
          BY <3>5, <4>2, <5>2 DEF Claims, RegistryInv
        <5>4. QED
          BY <5>1, <5>2, <5>3 DEF RowInv
      <4>3. QED
        BY <4>1, <4>2
    <3>6. CASE ChildStarts(c) \/ RunnerStarts(c)
      <4>1. mine[c] \in Launches /\ slot = mine[c] /\ rowStatus # "unborn"
        BY <3>6 DEF ChildStarts, RunnerStarts, Goes, RegistryInv, RowInv, Held, Launching
      <4>2. PICK s \in {"starting", "running"} : stage' = [stage EXCEPT ![mine[c]] = s]
        BY <3>6 DEF ChildStarts, RunnerStarts
      <4>3. slot' = slot /\ slot # NoLaunch /\ stage'[slot] # "exited"
        BY <3>6, <4>1, <4>2
           DEF ChildStarts, RunnerStarts, slotVars, RegistryInv, NoLaunch, Launches
      <4>4. rowStatus' # "unborn"
        BY <3>6, <4>1 DEF ChildStarts, RunnerStarts, RowBecomes, rowVars
      <4>5. QED
        BY <4>3, <4>4 DEF RowInv
    <3>7. CASE SpawnFails(c)
      <4>1. slot' = NoLaunch /\ at'[c] = "failing"
        BY <3>7 DEF SpawnFails, Goes, Deregister, RegistryInv, Held
      <4>2. rowStatus' # "unborn"
        BY <3>7 DEF SpawnFails, Goes, rowVars, RowInv, Launching
      <4>3. QED
        BY <4>1, <4>2 DEF RowInv, Owners
    <3>8. CASE MarksFailed(c)
      <4>1. rowStatus' \notin {"unborn", "live"}
        BY <3>8 DEF MarksFailed, Goes, RowBecomes, RowExists, RowInv, Launching
      <4>2. QED
        BY <4>1 DEF RowInv
    <3>9. QED
      BY <2>1, <3>1, <3>2, <3>3, <3>4, <3>5, <3>6, <3>7, <3>8 DEF Launch
  <2>2. ASSUME NEW c \in Callers, StopAsked(c) \/ Shutdown(c) PROVE RowInv'
    <3>1. CASE StopAsked(c) \/ ShutdownStops(c)
      BY <3>1, OutsideRow DEF StopAsked, ShutdownStops, Goes, rowVars, slotVars,
         Place, Launching, Owners
    <3>2. CASE ShutdownMarks(c)
      BY <3>2, OutsideRow DEF ShutdownMarks, RowBecomes, RowExists, Goes, slotVars,
         launchVars, Place, Launching, Owners
    <3>3. QED
      BY <2>2, <3>1, <3>2 DEF Shutdown
  <2>3. ASSUME NEW c \in Callers, Delete(c) PROVE RowInv'
    <3>1. CASE RowRemoved(c)
      BY <3>1, OutsideRow DEF RowRemoved, RowBecomes, RowExists, Goes, slotVars,
         launchVars, Place, Launching, Owners
    <3>2. CASE ~RowRemoved(c)
      BY <2>3, <3>2, OutsideRow DEF Delete, DeleteReads, DeleteStops, AwaitEnds,
         DeadlinePasses, DeleteRefused, Goes, rowVars, slotVars, launchVars, Place,
         Launching, Owners
    <3>3. QED
      BY <3>1, <3>2
  <2>4. ASSUME NEW c \in Callers, ModeChange(c) PROVE RowInv'
    BY <2>4, OutsideRow DEF ModeChange, ModeRead, ModeChecked, ModeWritten, ModeSent,
       Goes, rowVars, slotVars, launchVars, Place, Launching, Owners
  <2>5. ASSUME NEW c \in Callers, Abandoned(c) PROVE RowInv'
    <3>1. CASE at[c] \notin {"claimed", "starting"}
      BY <2>5, <3>1, OutsideRow DEF Abandoned, rowVars, slotVars, Place, Launching, Owners
    <3>2. CASE at[c] \in {"claimed", "starting"}
      <4>1. mine[c] \in Launches /\ slot = mine[c] /\ rowStatus # "unborn"
        BY <3>2 DEF RegistryInv, RowInv, Held, Launching
      <4>2. stage' = [stage EXCEPT ![mine[c]] = "lost"] /\ UNCHANGED <<rowStatus, slot>>
        BY <2>5, <3>2 DEF Abandoned, rowVars, slotVars
      <4>3. slot # NoLaunch /\ stage'[slot] # "exited"
        BY <4>1, <4>2 DEF RegistryInv, NoLaunch, Launches
      <4>4. QED
        BY <4>1, <4>2, <4>3 DEF RowInv
    <3>3. QED
      BY <3>1, <3>2
  <2>u. ASSUME UNCHANGED <<rowStatus, slot, stage, at>> PROVE RowInv'
    BY <2>u DEF RowInv
  <2>6. ASSUME NEW g \in Launches, RunnerTakes(g) \/ ChildDies(g) PROVE RowInv'
    BY <2>6, <2>u DEF RunnerTakes, ChildDies, rowVars, slotVars, callerVars
  <2>7. ASSUME NEW g \in Launches, RunnerExits(g) PROVE RowInv'
    <3>1. slot = g /\ g # NoLaunch /\ UNCHANGED slot
      BY <2>7 DEF RunnerExits, RegistryInv, Held, slotVars, Launches, NoLaunch
    <3>2. rowStatus' \notin {"unborn", "live"}
      BY <2>7, <3>1 DEF RunnerExits, RowBecomes, RowExists, RowInv
    <3>3. QED
      BY <3>2 DEF RowInv
  <2>8. ASSUME NEW g \in Launches, RunnerGone(g) PROVE RowInv'
    <3>1. slot = g /\ g # NoLaunch /\ stage[g] = "exited" /\ UNCHANGED rowStatus
      BY <2>8 DEF RunnerGone, RegistryInv, Held, rowVars, Launches, NoLaunch
    <3>2. rowStatus' \notin {"unborn", "live"}
      BY <3>1 DEF RowInv
    <3>3. QED
      BY <3>2 DEF RowInv
  <2>9. CASE ServerRestarts
    <3>1. rowStatus' # "live" /\ slot' = NoLaunch
      BY <2>9 DEF ServerRestarts, RowBecomes, RowExists
    <3>2. \A c \in Callers : at'[c] \notin Launching
      BY <2>9 DEF ServerRestarts, Launching
    <3>3. QED
      BY <3>1, <3>2 DEF RowInv
  <2>10. CASE UNCHANGED vars
    BY <2>10, <2>u DEF vars, rowVars, slotVars, launchVars, callerVars
  <2>11. QED
    BY <2>1, <2>2, <2>3, <2>4, <2>5, <2>6, <2>7, <2>8, <2>9, <2>10 DEF Next
<1>3. QED
  BY <1>1, <1>2, RegistryInvHolds, PTL DEF Spec

(* No order of requests leaves a row reading live with no runner and       *)
(* nobody about to give it one or to mark it failed, but for a launch that *)
(* was dropped half-way.                                                   *)
THEOREM LiveRowIsOwnedHolds == Spec => []LiveRowIsOwned
<1>1. RowInv => LiveRowIsOwned
  BY DEF RowInv, LiveRowIsOwned, Owners
<1>2. QED
  BY <1>1, RowInvHolds, PTL

--------------------------------------------------------------------------------
(* The auto-resume watcher: its constants.                                 *)

LEMMA ConstantsType ==
  /\ TICK \in Nat /\ PATIENCE \in Nat /\ FIRST_BACKOFF \in Nat /\ MAX_BACKOFF \in Nat
  /\ DENSE_TRIES \in Nat /\ PROBE \in Nat /\ REARM_FLOOR \in Nat /\ MAX_NUDGES \in Nat
  /\ RESET_GRACE \in Nat /\ PROGRESS \in Nat /\ MaxTime \in Nat
BY AutoResumeAssumption

LEMMA SoonerOf ==
  ASSUME NEW a \in Int, NEW b \in Int
  PROVE  Sooner(a, b) \in Int /\ Sooner(a, b) <= a /\ Sooner(a, b) <= b
BY DEF Sooner

(* The backoff is a number, and never longer than its ceiling.             *)
LEMMA BackoffBound ==
  ASSUME NEW n \in Nat
  PROVE  Backoff(n) \in Int /\ Backoff(n) <= MAX_BACKOFF
<1>1. CASE n = 0
  BY <1>1, ConstantsType DEF Backoff
<1>2. CASE n # 0
  <2>1. Sooner(n - 1, 20) \in Nat
    BY <1>2 DEF Sooner
  <2>2. 2^Sooner(n - 1, 20) \in Int
    BY <2>1
  <2> DEFINE doubled == FIRST_BACKOFF * 2^Sooner(n - 1, 20)
  <2>3. doubled \in Int
    BY <2>2, ConstantsType
  <2>4. Backoff(n) = Sooner(doubled, MAX_BACKOFF)
    BY <1>2 DEF Backoff
  <2> HIDE DEF doubled
  <2>5. QED
    BY <2>3, <2>4, ConstantsType, SoonerOf
<1>3. QED
  BY <1>1, <1>2

LEMMA ScheduledType ==
  ASSUME NEW s \in Stall, NEW e
  PROVE  Scheduled(s, e) \in Int /\ Earliest(s, e) \in Int
<1>1. Scheduled(s, e) \in Int
  BY ConstantsType, BackoffBound DEF Scheduled, Stall, Time
<1>2. s.last + REARM_FLOOR \in Int
  BY ConstantsType DEF Stall, Time
<1>3. QED
  BY <1>1, <1>2, SoonerOf DEF Earliest

LEMMA EarliestBound ==
  ASSUME NEW s \in Stall, NEW e
  PROVE  Earliest(s, e) <= Scheduled(s, e)
<1>1. Scheduled(s, e) \in Int /\ s.last + REARM_FLOOR \in Int
  BY ConstantsType, ScheduledType DEF Stall, Time
<1>2. QED
  BY <1>1 DEF Earliest, Sooner

--------------------------------------------------------------------------------
(* Stall::due, for every stall.                                            *)

(* Evidence only brings a nudge forward: a stall that would be due had     *)
(* nothing been learned is due with evidence, re-armed or not.             *)
THEOREM EvidenceOnlyHastens ==
  ASSUME NEW s \in Stall, NEW t \in Int, Due(Unlearned(s), t, "NoEvidence")
  PROVE  Due(s, t, "Tokens")
<1> DEFINE u == Unlearned(s)
<1>1. /\ u \in Stall /\ u.since = s.since /\ u.nudges = s.nudges /\ u.last = s.last
      /\ u.rearmed = FALSE
  BY DEF Unlearned, Stall
<1>2. Earliest(u, "NoEvidence") = Scheduled(s, "NoEvidence")
  <2>1. Earliest(u, "NoEvidence") = Scheduled(u, "NoEvidence")
    BY <1>1 DEF Earliest
  <2>2. Scheduled(u, "NoEvidence") = Scheduled(s, "NoEvidence")
    BY <1>1 DEF Scheduled, Probing
  <2>3. QED
    BY <2>1, <2>2
<1>3. Scheduled(s, "Tokens") <= Scheduled(s, "NoEvidence")
  <2>1. CASE s.nudges = 0
    BY <2>1, ConstantsType DEF Scheduled, Stall, Time
  <2>2. CASE s.nudges # 0
    <3>1. Scheduled(s, "Tokens") = Scheduled(s, "NoEvidence")
      BY <2>2 DEF Scheduled
    <3>2. QED
      BY <3>1, ScheduledType
  <2>3. QED
    BY <2>1, <2>2
<1>4. Earliest(s, "Tokens") <= Scheduled(s, "Tokens")
  BY EarliestBound
<1>5. Earliest(s, "Tokens") <= Scheduled(s, "NoEvidence")
  BY <1>3, <1>4, ScheduledType
<1>6. t >= Earliest(u, "NoEvidence") /\ ~Stopped(s)
  <2>1. t >= Earliest(u, "NoEvidence") /\ ~Stopped(u)
    BY DEF Due
  <2>2. QED
    BY <1>1, <2>1 DEF Stopped
<1>7. QED
  BY <1>2, <1>5, <1>6, ScheduledType DEF Due

(* A stall that is due after its first nudge has waited out its spacing.   *)
LEMMA DueIsSpaced ==
  ASSUME NEW s \in Stall, NEW t \in Int, NEW e, s.nudges > 0, Due(s, t, e)
  PROVE  t - s.last >= Spacing(s)
<1> DEFINE wait == IF Probing(s) THEN PROBE ELSE Backoff(s.nudges)
<1>1. wait \in Int /\ REARM_FLOOR \in Int /\ s.last \in Int /\ s.nudges \in Nat
  BY ConstantsType, BackoffBound DEF Stall, Time
<1>2. Scheduled(s, e) = s.last + wait
  BY <1>1 DEF Scheduled
<1>3. Earliest(s, e) >= s.last + Spacing(s)
  BY <1>1, <1>2 DEF Earliest, Spacing, Sooner
<1>4. Spacing(s) \in Int
  BY <1>1, SoonerOf DEF Spacing
<1>5. QED
  BY <1>1, <1>3, <1>4, ScheduledType DEF Due

(* A stall that is not due, and has nudges left, has waited no longer than *)
(* PATIENCE at first and PROBE after that.                                 *)
LEMMA NotDueIsRecent ==
  ASSUME NEW s \in Stall, NEW t \in Int, NEW e, s.nudges < MAX_NUDGES,
         ~Due(s, t, e)
  PROVE  t < IF s.nudges = 0 THEN s.since + PATIENCE ELSE s.last + PROBE
<1>1. s.nudges \in Nat /\ s.since \in Int /\ s.last \in Int
  BY DEF Stall, Time
<1>2. t < Earliest(s, e)
  BY <1>1, ConstantsType, ScheduledType DEF Due, Stopped
<1>3. Earliest(s, e) <= Scheduled(s, e)
  BY EarliestBound
<1>4. Backoff(s.nudges) \in Int /\ Backoff(s.nudges) <= PROBE
  BY <1>1, ConstantsType, BackoffBound, AutoResumeAssumption
<1>5. Scheduled(s, e) <= IF s.nudges = 0 THEN s.since + PATIENCE ELSE s.last + PROBE
  BY <1>1, <1>4, ConstantsType DEF Scheduled
<1>6. QED
  BY <1>1, <1>2, <1>3, <1>5, ConstantsType, ScheduledType

--------------------------------------------------------------------------------
(* The watcher.                                                            *)

(* What the log has said, of a stall with n nudges behind it.              *)
SaidOf(n) ==
  /\ "slowed" \in said <=> n >= DENSE_TRIES
  /\ "stopped" \in said <=> n >= MAX_NUDGES

(* Inductive: an agent that is not remembered has no nudges behind it, and *)
(* while a nudge is on its way the log still speaks of the ones before.    *)
WatcherInv ==
  /\ now \in Nat /\ pass \in Nat /\ stall \in Stall /\ known \in BOOLEAN
  /\ pc \in {"asleep", "listed", "nudging", "stopped"}
  /\ stall.nudges <= MAX_NUDGES
  /\ ~known => stall.nudges = 0
  /\ pc \in {"asleep", "listed"} => SaidOf(stall.nudges)
  /\ pc = "nudging" => stall.nudges > 0 /\ SaidOf(stall.nudges - 1)

LEMMA NewStallType ==
  ASSUME NEW t \in Nat
  PROVE  NewStall(t) \in Stall /\ NewStall(t).nudges = 0
BY DEF NewStall, Stall, Time

LEMMA SawType ==
  ASSUME NEW s \in Stall, NEW v
  PROVE  /\ Saw(s, v) \in Stall /\ Saw(s, v).nudges = s.nudges
         /\ Saw(s, v).last = s.last /\ Saw(s, v).since = s.since
BY DEF Saw, Stall

(* The stall a pass judges has the nudges and the last nudge of the one    *)
(* remembered.                                                             *)
LEMMA JudgedType ==
  ASSUME WatcherInv
  PROVE  /\ Judged \in Stall /\ Judged.nudges = stall.nudges
         /\ stall.nudges > 0 => Judged.last = stall.last
<1> DEFINE s == IF known THEN stall ELSE NewStall(pass)
<1>1. s \in Stall /\ s.nudges = stall.nudges /\ (stall.nudges > 0 => s = stall)
  BY NewStallType DEF WatcherInv
<1>2. Judged = Saw(s, Verdict(snapshot, s.since, pass))
  BY DEF Judged
<1> HIDE DEF s
<1>3. QED
  BY <1>1, <1>2, SawType

LEMMA NudgedType ==
  ASSUME NEW s \in Stall, NEW t \in Nat
  PROVE  /\ Nudged(s, t) \in Stall /\ Nudged(s, t).nudges = s.nudges + 1
         /\ Nudged(s, t).last = t
<1>1. s.nudges + 1 \in Nat /\ t \in Time /\ None \in Time \union {None}
  BY DEF Stall, Time
<1> DEFINE a == [s EXCEPT !.nudges = @ + 1]
           b == [a EXCEPT !.last = t]
           c == [b EXCEPT !.working_since = None]
           d == [c EXCEPT !.rearmed = FALSE]
<1>2. a \in Stall /\ a.nudges = s.nudges + 1
  BY <1>1 DEF Stall
<1> HIDE DEF a
<1>3. b \in Stall /\ b.nudges = a.nudges /\ b.last = t
  BY <1>1, <1>2 DEF Stall
<1> HIDE DEF b
<1>4. c \in Stall /\ c.nudges = b.nudges /\ c.last = b.last
  BY <1>1, <1>3 DEF Stall
<1> HIDE DEF c
<1>5. d \in Stall /\ d.nudges = c.nudges /\ d.last = c.last
  BY <1>4 DEF Stall
<1>6. Nudged(s, t) = d
  BY DEF Nudged, a, b, c
<1> HIDE DEF d
<1>7. QED
  BY <1>2, <1>3, <1>4, <1>5, <1>6

LEMMA ForgetKeepsInv ==
  ASSUME Forget, now' \in Nat, pass' \in Nat, pc' \in {"asleep", "listed"}
  PROVE  WatcherInv'
<1>1. stall' \in Stall /\ stall'.nudges = 0
  BY NewStallType DEF Forget
<1>2. 0 < DENSE_TRIES /\ 0 < MAX_NUDGES
  BY ConstantsType, AutoResumeAssumption
<1>3. QED
  <2>1. SaidOf(0)'
    BY <1>2, ConstantsType DEF Forget, SaidOf
  <2>2. known' = FALSE
    BY DEF Forget
  <2>3. stall'.nudges <= MAX_NUDGES
    BY <1>1, <1>2, ConstantsType
  <2>4. QED
    BY <1>1, <2>1, <2>2, <2>3 DEF WatcherInv, SaidOf

LEMMA SleepType ==
  ASSUME WatcherInv, Sleep
  PROVE  pc' = "asleep" /\ pass' \in Nat
BY ConstantsType DEF Sleep, WatcherInv

(* The watcher's count, its stall and what it logged agree at every await  *)
(* of a pass.                                                              *)
THEOREM WatcherInvHolds == WatcherSpec => []WatcherInv
<1>1. WatcherInit => WatcherInv
  <2> SUFFICES ASSUME WatcherInit PROVE WatcherInv
    OBVIOUS
  <2>1. stall \in Stall /\ stall.nudges = 0
    BY NewStallType DEF WatcherInit
  <2>2. 0 < DENSE_TRIES /\ 0 < MAX_NUDGES
    BY ConstantsType, AutoResumeAssumption
  <2>3. QED
    <3>1. SaidOf(0)
      BY <2>2, ConstantsType DEF WatcherInit, SaidOf
    <3>2. /\ now \in Nat /\ pass \in Nat /\ known = FALSE /\ pc = "asleep"
          /\ stall.nudges <= MAX_NUDGES
      BY <2>1, <2>2, ConstantsType DEF WatcherInit
    <3>3. QED
      BY <2>1, <3>1, <3>2 DEF WatcherInv, SaidOf
<1>2. WatcherInv /\ [WatcherNext]_resumeVars => WatcherInv'
  <2> SUFFICES ASSUME WatcherInv, [WatcherNext]_resumeVars PROVE WatcherInv'
    OBVIOUS
  <2>e. ASSUME now' \in Nat, UNCHANGED watcherVars, UNCHANGED said PROVE WatcherInv'
    BY <2>e DEF WatcherInv, watcherVars, SaidOf
  <2>1. CASE TimePasses
    BY <2>1, <2>e DEF TimePasses, WatcherInv
  <2>2. CASE BaseMoves
    BY <2>2, <2>e DEF BaseMoves, WatcherInv
  <2>3. CASE PromptMoves
    BY <2>3, <2>e DEF PromptMoves, WatcherInv
  <2>4. CASE SnapshotArrives
    BY <2>4, <2>e DEF SnapshotArrives, WatcherInv
  <2>5. CASE PromptTyped
    BY <2>5, <2>e DEF PromptTyped, WatcherInv
  <2>6. CASE Exits
    BY <2>6, <2>e DEF Exits, WatcherInv
  <2>7. CASE Relaunched
    BY <2>7, <2>e DEF Relaunched, WatcherInv
  <2>8. CASE PassBegins
    <3>1. now' = now /\ now' \in Nat
      BY <2>8 DEF PassBegins, WatcherInv
    <3>2. CASE Sleep /\ Forget
      BY <3>1, <3>2, SleepType, ForgetKeepsInv
    <3>3. CASE pc' = "listed" /\ pass' = now /\ UNCHANGED <<known, stall, said>>
      BY <2>8, <3>1, <3>3 DEF PassBegins, WatcherInv, SaidOf
    <3>4. QED
      BY <2>8, <3>2, <3>3 DEF PassBegins
  <2>9. CASE PassOverGone
    BY <2>9, SleepType, ForgetKeepsInv DEF PassOverGone, WatcherInv
  <2>10. CASE PassOverHeld
    BY <2>10, SleepType DEF PassOverHeld, WatcherInv, SaidOf
  <2>11. CASE PassOverWorking
    <3>1. pc' = "asleep" /\ pass' \in Nat /\ now' = now /\ pc = "listed"
      BY <2>11, SleepType DEF PassOverWorking
    <3>2. CASE Forget
      BY <3>1, <3>2, ForgetKeepsInv DEF WatcherInv
    <3>3. CASE ~Forget
      <4>1. /\ UNCHANGED <<known, said>>
            /\ stall' = IF known
                        THEN [stall EXCEPT !.working_since = WorkingSince(stall, pass)]
                        ELSE stall
        BY <2>11, <3>3 DEF PassOverWorking
      <4>2. WorkingSince(stall, pass) \in Time \union {None}
        BY DEF WorkingSince, WatcherInv, Stall, Time
      <4>3. stall' \in Stall /\ stall'.nudges = stall.nudges
        BY <4>1, <4>2 DEF WatcherInv, Stall
      <4>4. QED
        BY <3>1, <4>1, <4>3 DEF WatcherInv, SaidOf
    <3>4. QED
      BY <3>2, <3>3
  <2>12. CASE PassWaits
    <3>1. pc' = "asleep" /\ pass' \in Nat /\ now' = now /\ pc = "listed"
      BY <2>12, SleepType DEF PassWaits
    <3>2. stall' \in Stall /\ stall'.nudges = stall.nudges
      BY <2>12, JudgedType DEF PassWaits
    <3>3. QED
      BY <2>12, <3>1, <3>2 DEF PassWaits, WatcherInv, SaidOf
  <2>13. CASE PassNudges
    <3>1. Judged \in Stall /\ Judged.nudges = stall.nudges
      BY JudgedType
    <3>2. stall' \in Stall /\ stall'.nudges = stall.nudges + 1
      BY <2>13, <3>1, NudgedType DEF PassNudges, WatcherInv
    <3>3. stall.nudges \in Nat /\ stall.nudges < MAX_NUDGES
      BY <2>13, <3>1, ConstantsType DEF PassNudges, NudgeDue, Due, Stopped, WatcherInv, Stall
    <3>4. QED
      BY <2>13, <3>2, <3>3, ConstantsType DEF PassNudges, WatcherInv, SaidOf
  <2>14. CASE NudgeSent
    <3>1. pc' = "asleep" /\ pass' \in Nat /\ UNCHANGED <<now, known, stall>> /\ pc = "nudging"
      BY <2>14, SleepType DEF NudgeSent
    <3>2. stall.nudges \in Nat
      BY DEF WatcherInv, Stall
    <3>a. Probing([stall EXCEPT !.nudges = @ - 1]) <=> stall.nudges - 1 >= DENSE_TRIES
      BY DEF Probing, WatcherInv, Stall
    <3>b. Announces(stall) = IF stall.nudges >= MAX_NUDGES THEN {"stopped"}
                             ELSE IF stall.nudges = DENSE_TRIES THEN {"slowed"} ELSE {}
      BY <3>2, <3>a, ConstantsType DEF Announces, Stopped, Probing
    <3>3. SaidOf(stall.nudges)'
      BY <2>14, <3>1, <3>2, <3>b, ConstantsType, AutoResumeAssumption
         DEF NudgeSent, WatcherInv, SaidOf
    <3>4. QED
      BY <3>1, <3>3 DEF WatcherInv
  <2>15. CASE WatcherStopped
    BY <2>15 DEF WatcherStopped, WatcherInv
  <2>16. CASE WatcherRestarts
    BY <2>16, SleepType, ForgetKeepsInv DEF WatcherRestarts, WatcherInv
  <2>17. CASE UNCHANGED resumeVars
    BY <2>17, <2>e DEF resumeVars, WatcherInv
  <2>18. QED
    BY <2>1, <2>2, <2>3, <2>4, <2>5, <2>6, <2>7, <2>8, <2>9, <2>10, <2>11, <2>12,
       <2>13, <2>14, <2>15, <2>16, <2>17 DEF WatcherNext, PassEnds
<1>3. QED
  BY <1>1, <1>2, PTL DEF WatcherSpec

(* Every variable of the watcher and of what it looks at keeps its type.   *)
THEOREM WatcherTypeCorrect == WatcherSpec => []WatcherTypeOK
<1> DEFINE Bases == {"idle", "working", "rate_limited"}
           Rest == /\ running \in BOOLEAN /\ prompt \in BOOLEAN /\ queued \in Nat
                   /\ base \in Bases /\ snapshot \in Snapshot
                   /\ seen \in Status \union {"none"}
                   /\ said \subseteq {"slowed", "stopped"}
<1>1. NoSnapshot \in Snapshot
  BY DEF NoSnapshot, Snapshot, Time
<1>2. WatcherInit => Rest
  <2> SUFFICES ASSUME WatcherInit PROVE Rest
    OBVIOUS
  <2>1. /\ queued \in Nat /\ base \in Bases
        /\ said \subseteq {"slowed", "stopped"}
    BY DEF WatcherInit
  <2>2. running \in BOOLEAN /\ prompt \in BOOLEAN /\ seen \in Status \union {"none"}
    BY DEF WatcherInit
  <2>3. snapshot \in Snapshot
    BY <1>1 DEF WatcherInit
  <2> QED
    BY <2>1, <2>2, <2>3
<1>3. WatcherInv /\ Rest /\ [WatcherNext]_resumeVars => Rest'
  <2> SUFFICES ASSUME WatcherInv, Rest, [WatcherNext]_resumeVars PROVE Rest'
    OBVIOUS
  <2>1. ASSUME Sleep PROVE seen' \in Status \union {"none"}
    BY <2>1 DEF Sleep
  <2>2. ASSUME UNCHANGED said \/ Forget PROVE said' \subseteq {"slowed", "stopped"}
    BY <2>2 DEF Forget
  <2>3. CASE TimePasses \/ BaseMoves \/ PromptMoves \/ Exits \/ Relaunched
    <3>1. running' \in BOOLEAN /\ prompt' \in BOOLEAN
      BY <2>3, Zenon DEF TimePasses, BaseMoves, PromptMoves, Exits, Relaunched, agentVars
    <3>2. queued' \in Nat /\ base' \in Bases
      BY <2>3 DEF TimePasses, BaseMoves, PromptMoves, Exits, Relaunched, agentVars
    <3> QED
      BY <2>3, <3>1, <3>2 DEF TimePasses, BaseMoves, PromptMoves, Exits, Relaunched, watcherVars
  <2>4. CASE SnapshotArrives
    <3>1. snapshot' \in Snapshot
      <4>1. PICK rejected \in BOOLEAN, resets \in {None} \union {now + d : d \in Ahead} :
              snapshot' = IF rejected
                          THEN [captured |-> None, rejected |-> TRUE, resets |-> resets]
                          ELSE [captured |-> now, rejected |-> FALSE, resets |-> None]
        BY <2>4 DEF SnapshotArrives
      <4>a. now \in Nat /\ Ahead \subseteq Nat
        BY AutoResumeAssumption DEF WatcherInv
      <4>2. resets \in Time \union {None}
        BY <4>a DEF Time
      <4> QED
        BY <4>1, <4>2 DEF Snapshot, WatcherInv, Time
    <3> QED
      BY <2>4, <3>1 DEF SnapshotArrives, agentVars, watcherVars
  <2>5. CASE PromptTyped
    <3>1. base' \in Bases /\ queued' \in Nat
      BY <2>5 DEF PromptTyped, Apply, LandsOn, Terminal
    <3> QED
      BY <2>5, <3>1 DEF PromptTyped, watcherVars
  <2>6. CASE PassBegins
    <3>1. Row \in Status \union {"none"}
      BY DEF Row, WithApprovals, Status, Live, Terminal
    <3> QED
      BY <2>1, <2>2, <2>6, <3>1 DEF PassBegins, agentVars
  <2>7. CASE PassOverGone \/ PassOverHeld \/ PassOverWorking \/ PassWaits
    BY <2>1, <2>2, <2>7 DEF PassOverGone, PassOverHeld, PassOverWorking, PassWaits, agentVars
  <2>8. CASE PassNudges
    BY <2>8 DEF PassNudges, agentVars
  <2>9. CASE NudgeSent
    BY <2>1, <2>9 DEF NudgeSent, Announces
  <2>10. CASE WatcherStopped
    BY <2>10 DEF WatcherStopped, agentVars
  <2>11. CASE WatcherRestarts
    BY <1>1, <2>1, <2>2, <2>11 DEF WatcherRestarts, Stored
  <2>12. CASE UNCHANGED resumeVars
    BY <2>12 DEF resumeVars, agentVars, watcherVars
  <2> QED
    BY <2>3, <2>4, <2>5, <2>6, <2>7, <2>8, <2>9, <2>10, <2>11, <2>12 DEF WatcherNext, PassEnds
<1>4. WatcherInv /\ Rest => WatcherTypeOK
  BY DEF WatcherInv, WatcherTypeOK, Time
<1> QED
  BY <1>2, <1>3, <1>4, WatcherInvHolds, PTL DEF WatcherSpec

(* One stall never costs more than MAX_NUDGES, whatever the snapshots say. *)
THEOREM CeilingHolds == WatcherSpec => []Ceiling
<1>1. WatcherInv => Ceiling
  BY DEF WatcherInv, Ceiling
<1>2. QED
  BY <1>1, WatcherInvHolds, PTL

(* The log says that the watcher slowed, and that it stopped, exactly when *)
(* it has.                                                                 *)
THEOREM SaysWhereItStandsHolds == WatcherSpec => []SaysWhereItStands
<1>1. WatcherInv => SaysWhereItStands
  BY DEF WatcherInv, SaysWhereItStands, SaidOf, Probing, Stopped
<1>2. QED
  BY <1>1, WatcherInvHolds, PTL

(* For every stall the watcher can hold, evidence never delays a nudge.    *)
THEOREM EvidenceNeverDelaysHolds == WatcherSpec => []EvidenceNeverDelays
<1>1. WatcherInv => EvidenceNeverDelays
  BY EvidenceOnlyHastens, ConstantsType DEF WatcherInv, EvidenceNeverDelays
<1>2. QED
  BY <1>1, WatcherInvHolds, PTL

(* Only a pass that sends a nudge counts one.                              *)
LEMMA OnlyNudgesCount ==
  ASSUME WatcherInv, [WatcherNext]_resumeVars, stall'.nudges > stall.nudges
  PROVE  PassNudges
<1>1. stall.nudges \in Nat
  BY DEF WatcherInv, Stall
<1>2. ASSUME UNCHANGED stall PROVE FALSE
  BY <1>1, <1>2
<1>3. ~Forget
  <2>1. ASSUME Forget PROVE FALSE
    <3>1. stall'.nudges = 0
      BY <2>1, NewStallType DEF Forget
    <3>2. QED
      BY <1>1, <3>1
  <2>2. QED
    BY <2>1
<1>4. CASE PassOverWorking
  <2>1. \/ UNCHANGED stall
        \/ stall' = [stall EXCEPT !.working_since = WorkingSince(stall, pass)]
    BY <1>3, <1>4 DEF PassOverWorking
  <2>2. stall \in Stall
    BY DEF WatcherInv
  <2>3. stall'.nudges = stall.nudges
    BY <2>1, <2>2 DEF Stall
  <2>4. QED
    BY <1>1, <2>3
<1>5. CASE PassWaits
  <2>1. stall'.nudges = stall.nudges
    BY <1>5, JudgedType DEF PassWaits
  <2>2. QED
    BY <1>1, <2>1
<1>6. CASE TimePasses \/ BaseMoves \/ PromptMoves \/ SnapshotArrives \/ PromptTyped
           \/ Exits \/ Relaunched \/ PassOverHeld \/ NudgeSent \/ WatcherStopped
  BY <1>2, <1>6 DEF TimePasses, BaseMoves, PromptMoves, SnapshotArrives, PromptTyped,
     Exits, Relaunched, PassOverHeld, NudgeSent, WatcherStopped, watcherVars
<1>7. CASE PassBegins \/ PassOverGone \/ WatcherRestarts
  BY <1>2, <1>3, <1>7 DEF PassBegins, PassOverGone, WatcherRestarts
<1>8. CASE UNCHANGED resumeVars
  BY <1>2, <1>8 DEF resumeVars, watcherVars
<1>9. QED
  BY <1>4, <1>5, <1>6, <1>7, <1>8 DEF WatcherNext, PassEnds

(* No two nudges of a stall come closer together than their spacing.       *)
THEOREM PacedWhateverTheEvidenceHolds == WatcherSpec => PacedWhateverTheEvidence
<1> DEFINE Paced == stall'.nudges > stall.nudges /\ stall.nudges > 0
                      => stall'.last - stall.last >= Spacing(stall)
<1>1. ASSUME WatcherInv, [WatcherNext]_resumeVars PROVE [Paced]_resumeVars
  <2> SUFFICES ASSUME stall'.nudges > stall.nudges, stall.nudges > 0
               PROVE  stall'.last - stall.last >= Spacing(stall)
    OBVIOUS
  <2>1. PassNudges
    BY <1>1, OnlyNudgesCount
  <2>2. /\ Judged \in Stall /\ Judged.nudges = stall.nudges
        /\ Judged.last = stall.last /\ pass \in Nat
    BY <1>1, JudgedType DEF WatcherInv
  <2>3. stall'.last = pass
    BY <2>1, <2>2, NudgedType DEF PassNudges
  <2>4. PICK v : Due(Judged, pass, v)
    BY <2>1 DEF PassNudges, NudgeDue
  <2>5. pass - Judged.last >= Spacing(Judged)
    BY <2>2, <2>4, DueIsSpaced
  <2>6. Spacing(Judged) = Spacing(stall)
    BY <2>2 DEF Spacing, Probing
  <2>7. QED
    BY <2>2, <2>3, <2>5, <2>6
<1>2. QED
  BY <1>1, WatcherInvHolds, PTL DEF WatcherSpec, PacedWhateverTheEvidence

(* A pass that leaves a stall unanswered has not left it long.             *)
THEOREM NeverSleepsThroughHolds == WatcherSpec => NeverSleepsThrough
<1> DEFINE Left ==
      pc = "listed" /\ pc' = "asleep" /\ Class = "stalled"
        /\ stall'.nudges < MAX_NUDGES /\ Verdict(snapshot, stall'.since, pass) # "Held"
      => pass < IF stall'.nudges = 0 THEN stall'.since + PATIENCE
                ELSE stall'.last + PROBE
<1>1. ASSUME WatcherInv, [WatcherNext]_resumeVars PROVE [Left]_resumeVars
  <2> SUFFICES ASSUME pc = "listed", pc' = "asleep", Class = "stalled",
                      stall'.nudges < MAX_NUDGES,
                      Verdict(snapshot, stall'.since, pass) # "Held"
               PROVE  pass < IF stall'.nudges = 0 THEN stall'.since + PATIENCE
                             ELSE stall'.last + PROBE
    OBVIOUS
  <2>1. PassWaits
    <3>1. pc' # pc
      OBVIOUS
    <3>2. ~UNCHANGED resumeVars
      BY <3>1 DEF resumeVars, watcherVars
    <3>3. QED
      BY <1>1, <3>1, <3>2 DEF WatcherNext, PassEnds, TimePasses, BaseMoves, PromptMoves,
         SnapshotArrives, PromptTyped, Exits, Relaunched, PassBegins, PassOverGone,
         PassOverHeld, PassOverWorking, PassNudges, NudgeSent, WatcherStopped,
         WatcherRestarts, watcherVars
  <2>2. stall' = Judged /\ Judged \in Stall /\ pass \in Int
    BY <1>1, <2>1, JudgedType DEF PassWaits, WatcherInv
  <2>3. ~Due(Judged, pass, Verdict(snapshot, Judged.since, pass))
    BY <2>1, <2>2 DEF PassWaits, NudgeDue
  <2>4. QED
    BY <2>2, <2>3, NotDueIsRecent
<1>2. QED
  BY <1>1, WatcherInvHolds, PTL DEF WatcherSpec, NeverSleepsThrough
================================================================================
