----------------------------- MODULE WsReplayProofs ----------------------------
(***************************************************************************)
(* Proofs about WsReplay, for any prompts, window, bus and log: the page's *)
(* cursor is safe, and every step of the sockets, the writers and the page *)
(* is a step of LogFollower or none; every row is on the page, on its way  *)
(* or still to be replayed; and a page with nothing under way shows the    *)
(* prompts that are held.  That every row is followed in the end is        *)
(* liveness, and only model-checked.                                       *)
(***************************************************************************)
EXTENDS WsReplay, FiniteSetTheorems, WellFoundedInduction, TLAPS

(* What may be in the log, on the bus, to be done and on its way.          *)
Row == [kind : {"line", "asked", "closed"}, prompt : Prompts \union {NoPrompt}]
Messages(h) ==
  {Event(n) : n \in 1..h} \union {Ask(p) : p \in Prompts} \union {Resolve(p) : p \in Prompts}
Steps(h) ==
  {Write(r) : r \in Row} \union {WriteOnly(r) : r \in Row} \union {Close(p) : p \in Prompts}
    \union {Hold(p) : p \in Prompts} \union {Serve, Leave}
    \union {Emit(m) : m \in Messages(h)}

(* Where a replay may begin.  Until the page has a transcript, nowhere     *)
(* above its cursor but at a tail: the page moves its cursor up to where   *)
(* its first replay began, over rows it has not seen.                      *)
Starts == {n \in 0..Len(log) : seeded \/ n <= floor \/ n <= contiguous}
Readings ==
  {NoReading, [at |-> "tail"]} \union [at : {"events"}, after : Starts]
    \union [at : {"running", "pending"}, after : Starts, cursor : 0..Len(log)]
    \union [at : {"head"}, after : Starts, cursor : 0..Len(log), pending : SUBSET Prompts]
Pages == [msg : {"replay"}, after : Starts, cursor : 0..Len(log), more : BOOLEAN,
          pending : SUBSET Prompts]

(* Inductive.  Nobody speaks of a row that is not written.                 *)
LogInv ==
  /\ log \in Seq(Row) /\ held \subseteq Prompts
  /\ todo \in [Writers -> Seq(Steps(Len(log)))]
  /\ bus \in Seq(Messages(Len(log)))
  /\ missed \subseteq 1..Len(log) /\ silent \subseteq 1..Len(log) /\ floor \in 0..Len(log)
PageInv ==
  /\ seeded \in BOOLEAN /\ seen \subseteq 1..Len(log) /\ contiguous \in 0..Len(log)
  /\ \A n \in floor + 1..contiguous : n \in seen
SocketInv ==
  /\ inbox \in Seq(Starts \union {Tail0}) /\ reading \in Readings
  /\ out \in Seq(Messages(Len(log)) \union Pages)
FollowInv == LogInv /\ PageInv /\ SocketInv

--------------------------------------------------------------------------------
(* Numbers.                                                                *)

(* A set of naturals with a bound has a greatest element.                  *)
LEMMA MaxOf ==
  ASSUME NEW B \in Nat, NEW S \in SUBSET (0..B), S # {}
  PROVE  Max(S) \in S /\ \A y \in S : Max(S) >= y
<1> DEFINE T == {B - x : x \in S}
           Less == OpToRel(<, Nat)
<1>1. \A x \in S : x \in 0..B /\ B - x \in Nat
  OBVIOUS
<1>2. \A t \in T : \E x \in S : t = B - x
  OBVIOUS
<1>3. \A x \in S : B - x \in T
  OBVIOUS
<1>4. \A x, y \in Nat : x < y <=> <<x, y>> \in Less
  BY DEF OpToRel
<1>5. IsWellFoundedOn(Less, Nat)
  BY NatLessThanWellFounded
<1> HIDE DEF T, Less
<1>6. T \subseteq Nat
  BY <1>1, <1>2
<1>7. T # {}
  BY <1>3
<1>8. PICK t \in T : \A u \in T : ~(<<u, t>> \in Less)
  BY <1>5, <1>6, <1>7, WFMin
<1>9. \A u \in T : ~(u < t)
  BY <1>4, <1>6, <1>8
<1>10. PICK x \in S : t = B - x
  BY <1>2
<1>11. \A y \in S : x >= y
  <2> SUFFICES ASSUME NEW y \in S PROVE x >= y
    OBVIOUS
  <2>1. ~(B - y < B - x)
    BY <1>3, <1>9, <1>10
  <2>2. QED
    BY <2>1, <1>1
<1>12. QED
  BY <1>11 DEF Max

LEMMA MaxOfTwo ==
  ASSUME NEW a \in Int, NEW b \in Int
  PROVE  Max({a, b}) \in {a, b} /\ Max({a, b}) >= a /\ Max({a, b}) >= b
<1>1. \E x \in {a, b} : \A y \in {a, b} : x >= y
  OBVIOUS
<1>2. QED
  BY <1>1 DEF Max

LEMMA MinOfTwo ==
  ASSUME NEW a \in Int, NEW b \in Int
  PROVE  Min({a, b}) \in {a, b} /\ Min({a, b}) <= a /\ Min({a, b}) <= b
<1>1. \E x \in {a, b} : \A y \in {a, b} : x <= y
  OBVIOUS
<1>2. QED
  BY <1>1 DEF Min

(* The cursor moves on over rows that were seen, and no further.           *)
LEMMA ContiguousFacts ==
  ASSUME NEW h \in Nat, NEW c \in 0..h, NEW rows \in SUBSET (1..h)
  PROVE  /\ Contiguous(c, rows) \in c..h
         /\ \A n \in c + 1..Contiguous(c, rows) : n \in rows
<1> DEFINE S == {c} \union {n \in c..MaxRows : \A m \in c + 1..n : m \in rows}
<1>1. \A n \in S : n \in c..h /\ \A m \in c + 1..n : m \in rows
  <2> SUFFICES ASSUME NEW n \in S PROVE n \in c..h /\ \A m \in c + 1..n : m \in rows
    OBVIOUS
  <2>1. CASE n = c
    BY <2>1
  <2>2. CASE n # c
    <3>1. n \in c..MaxRows /\ \A m \in c + 1..n : m \in rows
      BY <2>2
    <3>2. n \in Int /\ c <= n
      BY <3>1
    <3>3. n \in c + 1..n
      BY <2>2, <3>2
    <3>4. n \in rows
      BY <3>1, <3>3
    <3>5. QED
      BY <3>1, <3>2, <3>4
  <2>3. QED
    BY <2>1, <2>2
<1>2. S \in SUBSET (0..h) /\ S # {}
  BY <1>1
<1>3. Contiguous(c, rows) = Max(S)
  BY DEF Contiguous
<1> HIDE DEF S
<1>4. Max(S) \in S
  BY <1>2, MaxOf
<1>5. QED
  BY <1>1, <1>3, <1>4

LEMMA TailCursorFacts ==
  ASSUME Len(log) \in Nat PROVE TailCursor \in 0..Len(log)
<1>1. Window \in Nat /\ Window >= 1
  BY WsReplayAssumption
<1>2. Len(log) - Window \in Int /\ 0 \in Int
  BY <1>1
<1>3. /\ Max({0, Len(log) - Window}) \in {0, Len(log) - Window}
      /\ Max({0, Len(log) - Window}) >= 0
  BY <1>2, MaxOfTwo, Zenon
<1>4. QED
  BY <1>1, <1>3 DEF TailCursor

LEMMA LastOfPageFacts ==
  ASSUME Len(log) \in Nat, NEW after \in 0..Len(log)
  PROVE  LastOfPage(after) \in 0..Len(log)
<1>1. Window \in Nat /\ Window >= 1
  BY WsReplayAssumption
<1> DEFINE m == Min({after + Window, Len(log)})
<1>2. after + Window \in Int /\ Len(log) \in Int /\ after \in Int
  BY <1>1
<1>3. m \in {after + Window, Len(log)} /\ m <= Len(log)
  BY <1>2, MinOfTwo, Zenon
<1>4. m \in 0..Len(log)
  BY <1>1, <1>3
<1> HIDE DEF m
<1>5. m \in Int
  BY <1>4
<1>6. Max({after, m}) \in {after, m}
  BY <1>2, <1>5, MaxOfTwo, Zenon
<1>7. LastOfPage(after) = Max({after, m})
  BY DEF LastOfPage, m
<1>8. QED
  BY <1>4, <1>6, <1>7

--------------------------------------------------------------------------------
(* Sequences.                                                              *)

LEMMA SeqGrows ==
  ASSUME NEW S, NEW T, S \subseteq T, NEW s \in Seq(S) PROVE s \in Seq(T)
OBVIOUS

LEMMA TailFacts ==
  ASSUME NEW S, NEW s \in Seq(S), s # <<>> PROVE Head(s) \in S /\ Tail(s) \in Seq(S)
OBVIOUS

LEMMA AppendFacts ==
  ASSUME NEW S, NEW s \in Seq(S), NEW e \in S
  PROVE  Append(s, e) \in Seq(S) /\ Len(Append(s, e)) = Len(s) + 1
OBVIOUS

LEMMA ConcatFacts ==
  ASSUME NEW S, NEW s \in Seq(S), NEW t \in Seq(S) PROVE s \o t \in Seq(S)
OBVIOUS

LEMMA SingleFacts == ASSUME NEW S, NEW e \in S PROVE <<e>> \in Seq(S) /\ <<>> \in Seq(S)
OBVIOUS

(* A set as a sequence.                                                    *)
LEMMA SetToSeqFacts ==
  ASSUME NEW S \in SUBSET Prompts PROVE SetToSeq(S) \in Seq(S)
<1>1. IsFiniteSet(S)
  BY WsReplayAssumption, FS_Subset
<1>2. Cardinality(S) \in Nat /\ ExistsBijection(1..Cardinality(S), S)
  BY <1>1, FS_CardinalityType
<1>3. PICK f : f \in Bijection(1..Cardinality(S), S)
  BY <1>2 DEF ExistsBijection
<1>4. f \in [1..Cardinality(S) -> S] /\ IsInjective(f)
  BY <1>3 DEF Bijection, Injection, IsInjective
<1>5. SetToSeq(S) \in [1..Cardinality(S) -> S]
  BY <1>4 DEF SetToSeq
<1>6. QED
  BY <1>2, <1>5

--------------------------------------------------------------------------------
(* What is spoken of stays written.                                        *)

LEMMA MessagesGrow ==
  ASSUME NEW h \in Nat, NEW k \in Nat, h <= k
  PROVE  Messages(h) \subseteq Messages(k) /\ Steps(h) \subseteq Steps(k)
<1>1. Messages(h) \subseteq Messages(k)
  BY DEF Messages
<1>2. QED
  BY <1>1 DEF Steps

LEMMA EventFacts ==
  ASSUME NEW h \in Nat, NEW m \in Messages(h), m.msg = "event"
  PROVE  m.seq \in 1..h /\ m = Event(m.seq)
BY DEF Messages, Event, Ask, Resolve

LEMMA PromptFacts ==
  ASSUME NEW h \in Nat, NEW m \in Messages(h), m.msg \in {"ask", "resolve"}
  PROVE  m.prompt \in Prompts
BY DEF Messages, Event, Ask, Resolve

LEMMA StepFacts ==
  ASSUME NEW h \in Nat, NEW s \in Steps(h)
  PROVE  /\ s.do \in {"write", "write_only"} => s.row \in Row
         /\ s.do \in {"close", "hold"} => s.prompt \in Prompts
         /\ s.do = "emit" => s.msg \in Messages(h)
BY DEF Steps, Write, WriteOnly, Close, Hold, Serve, Leave, Emit

LEMMA RowFacts ==
  /\ Line \in Row /\ \A p \in Prompts : Asked(p) \in Row /\ Closed(p) \in Row
BY DEF Row, Line, Asked, Closed, NoPrompt

(* The set of the places a replay may begin only grows.                    *)
LEMMA StartsGrow ==
  ASSUME Len(log) \in Nat, Len(log') \in Nat, Len(log) <= Len(log'),
         seeded => seeded', floor \in Nat, floor' \in Nat, floor <= floor',
         contiguous \in Nat, contiguous' \in Nat, contiguous <= contiguous'
  PROVE  Starts \subseteq Starts'
BY DEF Starts

LEMMA SocketGrows ==
  ASSUME SocketInv, Len(log) \in Nat, Len(log') \in Nat, Len(log) <= Len(log'),
         Starts \subseteq Starts'
  PROVE  /\ inbox \in Seq(Starts' \union {Tail0}) /\ reading \in Readings'
         /\ out \in Seq(Messages(Len(log')) \union Pages')
<1>1. inbox \in Seq(Starts' \union {Tail0})
  <2>1. Starts \union {Tail0} \subseteq Starts' \union {Tail0}
    OBVIOUS
  <2>2. QED
    BY <2>1, SeqGrows DEF SocketInv
<1>2. Readings \subseteq Readings'
  BY DEF Readings
<1>3. Pages \subseteq Pages'
  BY DEF Pages
<1>4. Messages(Len(log)) \union Pages \subseteq Messages(Len(log')) \union Pages'
  BY <1>3, MessagesGrow
<1>5. out \in Seq(Messages(Len(log')) \union Pages')
  BY <1>4, SeqGrows DEF SocketInv
<1>6. QED
  BY <1>1, <1>2, <1>5 DEF SocketInv

--------------------------------------------------------------------------------
(* What each kind of step leaves of the invariant.                         *)

(* The log has a length.                                                   *)
LEMMA LengthFacts == ASSUME LogInv PROVE Len(log) \in Nat
BY DEF LogInv

(* A broadcast is of a row or a prompt, and may push the oldest one out.   *)
LEMMA BroadcastFacts ==
  ASSUME LogInv, NEW m \in Messages(Len(log)), Broadcast(m)
  PROVE  /\ bus' \in Seq(Messages(Len(log)))
         /\ missed \subseteq missed' /\ missed' \subseteq 1..Len(log)
<1>1. CASE link = "down"
  BY <1>1 DEF Broadcast, busVars, LogInv
<1>2. CASE link # "down"
  <2> DEFINE lost == IF Len(bus) = BusCap THEN {Head(bus)} ELSE {}
             kept == IF Len(bus) = BusCap THEN Tail(bus) ELSE bus
             rows == {x.seq : x \in {y \in lost : y.msg = "event"}}
  <2>1. bus' = Append(kept, m) /\ missed' = missed \union rows
    BY <1>2 DEF Broadcast
  <2>2. ASSUME Len(bus) = BusCap
        PROVE  Head(bus) \in Messages(Len(log)) /\ Tail(bus) \in Seq(Messages(Len(log)))
    <3>1. bus # <<>>
      BY <2>2, WsReplayAssumption
    <3>2. QED
      BY <3>1, TailFacts DEF LogInv
  <2>3. kept \in Seq(Messages(Len(log)))
    BY <2>2 DEF LogInv
  <2>4. \A y \in lost : y \in Messages(Len(log))
    BY <2>2
  <2>5. rows \subseteq 1..Len(log)
    BY <2>4, LengthFacts, EventFacts
  <2> HIDE DEF lost, kept, rows
  <2>6. QED
    BY <2>1, <2>3, <2>5, AppendFacts DEF LogInv
<1>3. QED
  BY <1>1, <1>2

(* A writer that has something else to do from now on.                     *)
LEMMA Begun ==
  ASSUME FollowInv, NEW w \in Writers, NEW steps \in Seq(Steps(Len(log))),
         todo' = [todo EXCEPT ![w] = steps], held' \subseteq Prompts,
         silent' \subseteq 1..Len(log), UNCHANGED <<log, busVars, socketVars, pageVars, floor>>
  PROVE  FollowInv'
<1>1. Starts' = Starts /\ Readings' = Readings /\ Pages' = Pages
  BY DEF Starts, Readings, Pages, pageVars
<1>2. LogInv'
  BY DEF FollowInv, LogInv, busVars
<1>3. PageInv'
  BY DEF FollowInv, PageInv, pageVars
<1>4. SocketInv'
  BY <1>1 DEF FollowInv, SocketInv, socketVars
<1>5. QED
  BY <1>2, <1>3, <1>4 DEF FollowInv

(* A row is written.                                                       *)
LEMMA RowWritten ==
  ASSUME FollowInv, NEW w \in Writers, NEW row \in Row, log' = Append(log, row),
         NEW steps \in Seq(Steps(Len(log) + 1)), todo' = [todo EXCEPT ![w] = steps],
         silent' \subseteq 1..Len(log) + 1,
         UNCHANGED <<held, busVars, socketVars, pageVars, floor>>
  PROVE  FollowInv' /\ Len(log') = Len(log) + 1
<1> DEFINE h == Len(log)
<1>1. h \in Nat /\ log' \in Seq(Row) /\ Len(log') = h + 1
  BY AppendFacts DEF FollowInv, LogInv
<1>2. Messages(h) \subseteq Messages(h + 1) /\ Steps(h) \subseteq Steps(h + 1)
  BY <1>1, MessagesGrow
<1>3. todo' \in [Writers -> Seq(Steps(h + 1))]
  <2>1. \A v \in Writers : todo[v] \in Seq(Steps(h + 1))
    BY <1>2, SeqGrows DEF FollowInv, LogInv
  <2>2. QED
    BY <2>1 DEF FollowInv, LogInv
<1>4. bus' \in Seq(Messages(h + 1))
  BY <1>2, SeqGrows DEF FollowInv, LogInv, busVars
<1>5. LogInv'
  BY <1>1, <1>3, <1>4 DEF FollowInv, LogInv, busVars
<1>6. PageInv'
  BY <1>1 DEF FollowInv, PageInv, pageVars
<1>7. Starts \subseteq Starts'
  BY <1>1, StartsGrow DEF FollowInv, LogInv, PageInv, pageVars
<1>8. SocketInv'
  BY <1>1, <1>7, SocketGrows DEF FollowInv, SocketInv, socketVars
<1>9. QED
  BY <1>1, <1>5, <1>6, <1>8 DEF FollowInv

(* A message is broadcast.                                                 *)
LEMMA Announced ==
  ASSUME FollowInv, NEW w \in Writers, NEW m \in Messages(Len(log)), Broadcast(m),
         NEW steps \in Seq(Steps(Len(log))), todo' = [todo EXCEPT ![w] = steps],
         held' \subseteq Prompts, UNCHANGED <<log, socketVars, pageVars, floor, silent>>
  PROVE  FollowInv' /\ missed \subseteq missed'
<1>1. Starts' = Starts /\ Readings' = Readings /\ Pages' = Pages
  BY DEF Starts, Readings, Pages, pageVars
<1>2. LogInv' /\ missed \subseteq missed'
  BY BroadcastFacts DEF FollowInv, LogInv
<1>3. PageInv'
  BY DEF FollowInv, PageInv, pageVars
<1>4. SocketInv'
  BY <1>1 DEF FollowInv, SocketInv, socketVars
<1>5. QED
  BY <1>2, <1>3, <1>4 DEF FollowInv

(* The socket moves, and the page does not.                                *)
LEMMA SocketMoved ==
  ASSUME FollowInv, UNCHANGED <<agentVars, missed, silent, pageVars, floor>>,
         bus' \in Seq(Messages(Len(log))), inbox' \in Seq(Starts \union {Tail0}),
         reading' \in Readings, out' \in Seq(Messages(Len(log)) \union Pages)
  PROVE  FollowInv'
<1>1. Starts' = Starts /\ Readings' = Readings /\ Pages' = Pages
  BY DEF Starts, Readings, Pages, pageVars, agentVars
<1>2. LogInv'
  BY DEF FollowInv, LogInv, agentVars
<1>3. PageInv'
  BY DEF FollowInv, PageInv, pageVars, agentVars
<1>4. SocketInv'
  BY <1>1 DEF FollowInv, SocketInv, agentVars
<1>5. QED
  BY <1>2, <1>3, <1>4 DEF FollowInv

(* The page takes a message, and may ask for the next page.                *)
LEMMA PageMoved ==
  ASSUME FollowInv, UNCHANGED <<agentVars, busVars, reading, floor, silent>>,
         seeded' \in BOOLEAN, seeded => seeded', seen \subseteq seen', seen' \subseteq 1..Len(log),
         contiguous' \in contiguous..Len(log), \A n \in floor + 1..contiguous' : n \in seen',
         inbox' \in Seq(Starts' \union {Tail0}), out' \in Seq(Messages(Len(log)) \union Pages)
  PROVE  FollowInv'
<1>1. Len(log) \in Nat /\ log' = log
  BY LengthFacts DEF FollowInv, agentVars
<1>2. Starts \subseteq Starts'
  BY <1>1, StartsGrow DEF FollowInv, LogInv, PageInv
<1>3. Readings \subseteq Readings' /\ Pages \subseteq Pages'
  BY <1>1, <1>2 DEF Readings, Pages
<1>4. Messages(Len(log)) \union Pages \subseteq Messages(Len(log')) \union Pages'
  BY <1>1, <1>3
<1>5. out' \in Seq(Messages(Len(log')) \union Pages')
  BY <1>4, SeqGrows
<1>6. LogInv'
  BY <1>1 DEF FollowInv, LogInv, agentVars, busVars
<1>7. PageInv'
  BY <1>1 DEF FollowInv, LogInv, PageInv
<1>8. SocketInv'
  BY <1>3, <1>5 DEF FollowInv, SocketInv
<1>9. QED
  BY <1>6, <1>7, <1>8 DEF FollowInv

(* The connection is gone, and what was on its way with it.                *)
LEMMA CutOff ==
  ASSUME FollowInv, Cut, UNCHANGED log, held' \subseteq Prompts,
         todo' \in [Writers -> Seq(Steps(Len(log)))]
  PROVE  FollowInv'
<1>1. Starts' = Starts /\ Readings' = Readings /\ Pages' = Pages
  BY DEF Cut, Starts, Readings, Pages, pageVars
<1>2. LogInv'
  BY DEF FollowInv, LogInv, Cut
<1>3. PageInv'
  BY DEF FollowInv, PageInv, Cut, pageVars
<1>4. SocketInv'
  BY <1>1 DEF FollowInv, SocketInv, Cut, Readings
<1>5. QED
  BY <1>2, <1>3, <1>4 DEF FollowInv

--------------------------------------------------------------------------------
(* Each step preserves the invariant, and moves on: the log grows by a row *)
(* at most, and nothing that was seen or excused is let go of.             *)

Onward ==
  /\ Len(log') \in {Len(log), Len(log) + 1}
  /\ seen \subseteq seen' /\ missed \subseteq missed' /\ silent \subseteq silent'
  /\ floor <= floor'

(* A step that changes none of it.                                         *)
LEMMA Stays ==
  ASSUME FollowInv, UNCHANGED <<log, seen, missed, silent, floor>> PROVE Onward
BY DEF FollowInv, LogInv, Onward

(* The agent's task, or a request, begins to write.                        *)
LEMMA WriterBeginsFacts ==
  ASSUME FollowInv, RunnerActs \/ Launch \/ RequestLogs PROVE FollowInv' /\ Onward
<1> DEFINE h == Len(log)
<1>1. h \in Nat /\ Writers = {"runner", "request"} /\ held \subseteq Prompts
  BY LengthFacts DEF FollowInv, LogInv, Writers
<1>2. Line \in Row /\ Write(Line) \in Steps(h) /\ {Serve, Leave} \subseteq Steps(h)
  BY RowFacts DEF Steps
<1>3. ASSUME NEW p \in Prompts
      PROVE  /\ Write(Asked(p)) \in Steps(h) /\ WriteOnly(Closed(p)) \in Steps(h)
             /\ Close(p) \in Steps(h) /\ Hold(p) \in Steps(h) /\ Emit(Resolve(p)) \in Steps(h)
  BY RowFacts DEF Steps, Messages
<1> HIDE DEF h
<1>4. UNCHANGED <<log, busVars, socketVars, pageVars, floor, silent>>
  BY DEF RunnerActs, RunnerLine, RunnerAsks, PromptCloses, RunnerExits, Launch, RequestLogs
<1>5. Onward
  BY <1>4, Stays DEF busVars, pageVars
<1>6. SUFFICES \E w \in Writers, steps \in Seq(Steps(h)) :
                 todo' = [todo EXCEPT ![w] = steps] /\ held' \subseteq Prompts
  <2>1. silent' \subseteq 1..h
    BY <1>4 DEF FollowInv, LogInv, h
  <2>2. QED
    BY <1>4, <1>5, <2>1, Begun DEF h
<1>7. CASE RunnerLine
  <2>1. <<Write(Line)>> \in Seq(Steps(h))
    BY <1>2
  <2>2. QED
    BY <1>1, <1>7, <2>1 DEF RunnerLine, Begins
<1>8. CASE \E p \in Prompts : RunnerAsks(p)
  <2>1. PICK p \in Prompts : RunnerAsks(p)
    BY <1>8
  <2>2. <<Write(Asked(p)), Hold(p)>> \in Seq(Steps(h))
    BY <1>3
  <2>3. QED
    BY <1>1, <2>1, <2>2 DEF RunnerAsks, Begins
<1>9. CASE \E p \in Prompts : PromptCloses(p)
  <2>1. PICK p \in Prompts : PromptCloses(p)
    BY <1>9
  <2>2. <<Close(p)>> \in Seq(Steps(h))
    BY <1>3
  <2>3. QED
    BY <1>1, <2>1, <2>2 DEF PromptCloses, Begins
<1>10. CASE RunnerExits
  <2> DEFINE open == SetToSeq(held)
             closes == [i \in DOMAIN open |-> Close(open[i])]
  <2>1. open \in Seq(Prompts)
    BY <1>1, SetToSeqFacts, SeqGrows
  <2>2. held' = {} /\ todo' = [todo EXCEPT !["runner"] = closes \o <<Write(Line), Leave>>]
    BY <1>10 DEF RunnerExits, Begins
  <2> HIDE DEF open
  <2>3. closes \in Seq(Steps(h))
    BY <1>3, <2>1
  <2> HIDE DEF closes
  <2>4. <<Write(Line), Leave>> \in Seq(Steps(h))
    BY <1>2
  <2>5. closes \o <<Write(Line), Leave>> \in Seq(Steps(h))
    BY <2>3, <2>4, ConcatFacts
  <2>6. QED
    BY <1>1, <2>2, <2>5
<1>11. CASE Launch
  <2> DEFINE left == SetToSeq(Pending)
             rows == [i \in DOMAIN left |-> WriteOnly(Closed(left[i]))]
             news == [i \in DOMAIN left |-> Emit(Resolve(left[i]))]
  <2>1. Pending \subseteq Prompts
    BY DEF Pending
  <2>2. left \in Seq(Prompts)
    BY <2>1, SetToSeqFacts, SeqGrows
  <2>3. PICK first \in {<<>>, <<Write(Line)>>} :
          held' = held /\ todo' = [todo EXCEPT !["runner"] = rows \o news \o first \o <<Serve>>]
    BY <1>11 DEF Launch, Begins
  <2> HIDE DEF left
  <2>4. /\ rows \in Seq(Steps(h)) /\ news \in Seq(Steps(h))
    BY <1>3, <2>2
  <2> HIDE DEF rows, news
  <2>5. first \in Seq(Steps(h)) /\ <<Serve>> \in Seq(Steps(h))
    BY <1>2, SingleFacts
  <2>6. rows \o news \o first \o <<Serve>> \in Seq(Steps(h))
    BY <2>4, <2>5, ConcatFacts
  <2>7. QED
    BY <1>1, <2>3, <2>6
<1>12. CASE RequestLogs
  <2>1. <<Write(Line)>> \in Seq(Steps(h))
    BY <1>2
  <2>2. QED
    BY <1>1, <1>12, <2>1 DEF RequestLogs, Begins
<1>13. QED
  BY <1>7, <1>8, <1>9, <1>10, <1>11, <1>12 DEF RunnerActs

(* A writer's next step.                                                   *)
LEMMA WriterStepsFacts ==
  ASSUME FollowInv, NEW w \in Writers, WriterSteps(w) PROVE FollowInv' /\ Onward
<1> DEFINE h == Len(log)
           step == Head(todo[w])
           rest == Tail(todo[w])
           Then(steps) == todo' = [todo EXCEPT ![w] = steps]
<1>1. h \in Nat /\ todo[w] \in Seq(Steps(h)) /\ held \subseteq Prompts /\ todo[w] # <<>>
  BY LengthFacts DEF FollowInv, LogInv, WriterSteps
<1>2. step \in Steps(h) /\ rest \in Seq(Steps(h))
  BY <1>1, TailFacts
<1>3. Messages(h) \subseteq Messages(h + 1) /\ Steps(h) \subseteq Steps(h + 1)
  BY <1>1, MessagesGrow
<1>4. rest \in Seq(Steps(h + 1)) /\ Event(h + 1) \in Messages(h + 1)
  <2>1. rest \in Seq(Steps(h + 1))
    BY <1>2, <1>3, SeqGrows
  <2>2. h + 1 \in 1..h + 1
    BY <1>1
  <2>3. QED
    BY <2>1, <2>2 DEF Messages
<1>5. UNCHANGED <<socketVars, pageVars, floor>>
  BY DEF WriterSteps
<1>6. missed \in SUBSET Nat /\ silent \subseteq 1..h /\ floor \in Nat
  BY <1>1 DEF FollowInv, LogInv
<1>7. /\ step.do \in {"write", "write_only"} => step.row \in Row
      /\ step.do \in {"close", "hold"} => step.prompt \in Prompts
      /\ step.do = "emit" => step.msg \in Messages(h)
  BY <1>1, <1>2, StepFacts
<1>8. ASSUME step.do = "write", log' = Append(log, step.row),
             Then(<<Emit(Event(h + 1))>> \o rest), UNCHANGED <<held, busVars, silent>>
      PROVE  FollowInv' /\ Onward
  <2>1. <<Emit(Event(h + 1))>> \in Seq(Steps(h + 1))
    BY <1>4 DEF Steps
  <2>2. <<Emit(Event(h + 1))>> \o rest \in Seq(Steps(h + 1))
    BY <1>4, <2>1, ConcatFacts
  <2>3. silent' \subseteq 1..h + 1
    BY <1>1, <1>6, <1>8
  <2>4. FollowInv' /\ Len(log') = h + 1
    BY <1>5, <1>7, <1>8, <2>2, <2>3, RowWritten
  <2>5. QED
    BY <1>5, <1>6, <1>8, <2>4 DEF Onward, busVars, pageVars
<1>9. ASSUME step.do = "close", log' = Append(log, Closed(step.prompt)),
             Then(<<Emit(Event(h + 1)), Emit(Resolve(step.prompt))>> \o rest),
             UNCHANGED <<held, busVars, silent>>
      PROVE  FollowInv' /\ Onward
  <2>1. Closed(step.prompt) \in Row /\ Resolve(step.prompt) \in Messages(h + 1)
    BY <1>7, <1>9, RowFacts DEF Messages
  <2>2. <<Emit(Event(h + 1)), Emit(Resolve(step.prompt))>> \in Seq(Steps(h + 1))
    BY <1>4, <2>1 DEF Steps
  <2>3. <<Emit(Event(h + 1)), Emit(Resolve(step.prompt))>> \o rest \in Seq(Steps(h + 1))
    BY <1>4, <2>2, ConcatFacts
  <2>4. silent' \subseteq 1..h + 1
    BY <1>1, <1>6, <1>9
  <2>5. FollowInv' /\ Len(log') = h + 1
    BY <1>5, <1>9, <2>1, <2>3, <2>4, RowWritten
  <2>6. QED
    BY <1>5, <1>6, <1>9, <2>5 DEF Onward, busVars, pageVars
<1>10. ASSUME step.do = "write_only", log' = Append(log, step.row), Then(rest),
              silent' = silent \union {h + 1}, UNCHANGED <<held, busVars>>
       PROVE  FollowInv' /\ Onward
  <2>1. silent' \subseteq 1..h + 1
    <3>1. 1..h \subseteq 1..h + 1 /\ h + 1 \in 1..h + 1
      BY <1>1
    <3>2. QED
      BY <1>6, <1>10, <3>1
  <2>2. FollowInv' /\ Len(log') = h + 1
    BY <1>4, <1>5, <1>7, <1>10, <2>1, RowWritten
  <2>3. QED
    BY <1>5, <1>6, <1>10, <2>2 DEF Onward, busVars, pageVars
<1>11. ASSUME NEW m \in Messages(h), Broadcast(m), Then(rest), held' \subseteq Prompts,
              UNCHANGED <<log, silent>>
       PROVE  FollowInv' /\ Onward
  <2>1. FollowInv' /\ missed \subseteq missed'
    BY <1>2, <1>5, <1>11, Announced
  <2>2. QED
    BY <1>1, <1>5, <1>6, <1>11, <2>1 DEF Onward, pageVars
<1>12. ASSUME Then(rest), UNCHANGED <<log, held, busVars, silent>>
       PROVE  FollowInv' /\ Onward
  <2>1. FollowInv'
    BY <1>1, <1>2, <1>5, <1>6, <1>12, Begun
  <2>2. QED
    BY <1>5, <1>12, <2>1, Stays DEF busVars, pageVars
<1>13. CASE step.do = "write"
  BY <1>8, <1>13 DEF WriterSteps
<1>14. CASE step.do = "close"
  BY <1>9, <1>14 DEF WriterSteps
<1>15. CASE step.do = "write_only"
  BY <1>10, <1>15 DEF WriterSteps
<1>16. CASE step.do = "emit"
  <2>1. Broadcast(step.msg) /\ Then(rest) /\ UNCHANGED <<log, held, silent>>
    BY <1>16 DEF WriterSteps
  <2>2. QED
    BY <1>1, <1>7, <1>11, <1>16, <2>1
<1>17. CASE step.do = "hold"
  <2>1. /\ Broadcast(Ask(step.prompt)) /\ Then(rest) /\ UNCHANGED <<log, silent>>
        /\ held' = held \union {step.prompt}
    BY <1>17 DEF WriterSteps
  <2>2. held' \subseteq Prompts /\ Ask(step.prompt) \in Messages(h)
    BY <1>1, <1>7, <1>17, <2>1 DEF Messages
  <2>3. QED
    BY <1>11, <2>1, <2>2
<1>18. CASE step.do \in {"serve", "leave"}
  BY <1>12, <1>18 DEF WriterSteps
<1>19. QED
  BY <1>13, <1>14, <1>15, <1>16, <1>17, <1>18 DEF WriterSteps

(* A request whose client hung up.                                         *)
LEMMA DroppedFacts ==
  ASSUME FollowInv, LaunchDropped \/ RequestDropped PROVE FollowInv' /\ Onward
<1>1. Len(log) \in Nat /\ todo \in [Writers -> Seq(Steps(Len(log)))] /\ held \subseteq Prompts
      /\ Writers = {"runner", "request"}
  BY LengthFacts DEF FollowInv, LogInv, Writers
<1>2. UNCHANGED <<log, held, busVars, socketVars, pageVars, floor>>
  BY DEF LaunchDropped, RequestDropped
<1>3. silent' \subseteq 1..Len(log) /\ silent \subseteq silent'
  BY DEF LaunchDropped, RequestDropped, Untold, FollowInv, LogInv
<1>4. \E w \in Writers, steps \in Seq(Steps(Len(log))) : todo' = [todo EXCEPT ![w] = steps]
  <2>1. CASE LaunchDropped
    <3> DEFINE task == todo["runner"]
    <3>1. PICK steps \in Undone(task) : todo' = [todo EXCEPT !["runner"] = steps]
      BY <2>1 DEF LaunchDropped
    <3>2. task \in Seq(Steps(Len(log))) /\ task # <<>>
      BY <1>1, <2>1 DEF LaunchDropped, Contains
    <3>3. CASE Head(task).do = "write"
      <4>1. Head(task).row \in Row
        BY <1>1, <3>2, <3>3, StepFacts
      <4>2. WriteOnly(Head(task).row) \in Steps(Len(log))
        BY <4>1 DEF Steps
      <4>3. steps \in Seq(Steps(Len(log)))
        BY <3>1, <3>3, <4>2, SingleFacts DEF Undone
      <4>4. QED
        BY <1>1, <3>1, <4>3
    <3>4. CASE Head(task).do # "write"
      <4>1. PICK k \in 0..Len(task) : steps = SubSeq(task, 1, k)
        BY <3>1, <3>4 DEF Undone
      <4>2. steps \in Seq(Steps(Len(log)))
        BY <3>2, <4>1
      <4>3. QED
        BY <1>1, <3>1, <4>2
    <3>5. QED
      BY <3>3, <3>4
  <2>2. CASE RequestDropped
    <3>1. todo' = [todo EXCEPT !["request"] = <<>>] /\ <<>> \in Seq(Steps(Len(log)))
      BY <2>2 DEF RequestDropped
    <3>2. QED
      BY <1>1, <3>1
  <2>3. QED
    BY <2>1, <2>2
<1>5. FollowInv'
  BY <1>1, <1>2, <1>3, <1>4, Begun
<1>6. QED
  BY <1>1, <1>2, <1>3, <1>5 DEF Onward, busVars, pageVars, FollowInv, LogInv

(* The parts of a replay under way.                                        *)
LEMMA ReadingFacts ==
  ASSUME reading \in Readings
  PROVE  /\ reading.at = "events" => reading.after \in Starts
         /\ reading.at \in {"running", "pending", "head"} =>
              reading.after \in Starts /\ reading.cursor \in 0..Len(log)
         /\ reading.at = "head" => reading.pending \in SUBSET Prompts
BY DEF Readings, NoReading

(* A replay of the tail alone begins.                                      *)
LEMMA ReadsTailFacts ==
  ASSUME FollowInv, ReadsTail PROVE FollowInv' /\ Onward
<1> DEFINE h == Len(log)
<1>1. h \in Nat /\ floor \in 0..h /\ TailCursor \in 0..h /\ floor \in Int /\ TailCursor \in Int
  BY LengthFacts, TailCursorFacts DEF FollowInv, LogInv
<1>2. /\ Max({floor, TailCursor}) \in {floor, TailCursor}
      /\ Max({floor, TailCursor}) >= floor /\ Max({floor, TailCursor}) >= TailCursor
  BY <1>1, MaxOfTwo, Zenon
<1>3. /\ floor' = Max({floor, TailCursor})
      /\ reading' = [at |-> "events", after |-> TailCursor]
      /\ UNCHANGED <<agentVars, busVars, inbox, out, pageVars, silent>>
  BY DEF ReadsTail, aside
<1>4. floor' \in 0..h /\ floor <= floor' /\ TailCursor <= floor'
  BY <1>1, <1>2, <1>3
<1>5. LogInv'
  BY <1>3, <1>4 DEF FollowInv, LogInv, agentVars, busVars
<1>6. PageInv'
  BY <1>1, <1>3, <1>4 DEF FollowInv, PageInv, agentVars, pageVars
<1>7. Starts \subseteq Starts'
  BY <1>1, <1>3, <1>4, StartsGrow DEF FollowInv, PageInv, agentVars, pageVars
<1>8. TailCursor \in Starts'
  BY <1>1, <1>3, <1>4 DEF Starts, agentVars
<1>9. reading' \in Readings'
  BY <1>3, <1>8 DEF Readings
<1>10. SocketInv'
  <2>1. h' = h
    BY <1>3 DEF agentVars
  <2>2. inbox \in Seq(Starts' \union {Tail0}) /\ out \in Seq(Messages(h') \union Pages')
    BY <1>1, <1>7, <2>1, SocketGrows DEF FollowInv
  <2>3. QED
    BY <1>3, <1>9, <2>2 DEF SocketInv
<1>11. Onward
  BY <1>1, <1>3, <1>4 DEF Onward, agentVars, busVars, pageVars
<1>12. QED
  BY <1>5, <1>6, <1>10, <1>11 DEF FollowInv

(* The socket's loop, and its replay.                                      *)
LEMMA SocketFacts ==
  ASSUME FollowInv, Connect \/ TakesSubscribe \/ SocketReads \/ TakesBroadcast \/ TakesLagged
  PROVE  FollowInv' /\ Onward
<1> DEFINE h == Len(log)
           Mail == Starts \union {Tail0}
           Sent == Messages(h) \union Pages
<1>1. /\ h \in Nat /\ bus \in Seq(Messages(h)) /\ inbox \in Seq(Mail) /\ reading \in Readings
      /\ out \in Seq(Sent)
  BY LengthFacts DEF FollowInv, LogInv, SocketInv
<1>2. ASSUME UNCHANGED <<agentVars, missed, silent, pageVars, floor>>,
             bus' \in Seq(Messages(h)), inbox' \in Seq(Mail),
             reading' \in Readings, out' \in Seq(Sent)
      PROVE  FollowInv' /\ Onward
  BY <1>2, SocketMoved, Stays DEF agentVars, pageVars
<1> HIDE DEF h, Mail, Sent
<1>3. CASE Connect
  <2>1. PICK n \in {1, 2} : inbox' = [i \in 1..n |-> ReconnectCursor]
    BY <1>3 DEF Connect
  <2>2. contiguous \in Starts
    BY DEF FollowInv, PageInv, Starts
  <2>3. ReconnectCursor \in Mail
    BY <2>2 DEF ReconnectCursor, Mail
  <2>4. inbox' \in Seq(Mail)
    BY <2>1, <2>3
  <2>5. UNCHANGED <<agentVars, busVars, reading, out, pageVars, floor, silent>>
    BY <1>3 DEF Connect, aside
  <2>6. QED
    BY <1>1, <1>2, <2>4, <2>5 DEF busVars
<1>4. CASE TakesSubscribe
  <2>1. Head(inbox) \in Mail /\ Tail(inbox) \in Seq(Mail)
    BY <1>1, <1>4, TailFacts DEF TakesSubscribe
  <2>2. reading' \in Readings
    BY <1>4, <2>1 DEF TakesSubscribe, Readings, Mail
  <2>3. UNCHANGED <<agentVars, busVars, out, pageVars, floor, silent>> /\ inbox' = Tail(inbox)
    BY <1>4 DEF TakesSubscribe, aside
  <2>4. QED
    BY <1>1, <1>2, <2>1, <2>2, <2>3 DEF busVars
<1>5. CASE ReadsEvents
  <2>1. reading.after \in Starts /\ reading.after \in 0..h
    BY <1>1, <1>5, ReadingFacts DEF ReadsEvents, Starts, h
  <2>2. LastOfPage(reading.after) \in 0..h
    BY <1>1, <2>1, LastOfPageFacts DEF h
  <2>3. reading' \in Readings
    BY <1>5, <2>1, <2>2 DEF ReadsEvents, Readings, h
  <2>4. UNCHANGED <<agentVars, busVars, inbox, out, pageVars, floor, silent>>
    BY <1>5 DEF ReadsEvents, aside
  <2>5. QED
    BY <1>1, <1>2, <2>3, <2>4 DEF busVars
<1>6. CASE ReadsRunning \/ ReadsPending
  <2>1. reading.after \in Starts /\ reading.cursor \in 0..h
    BY <1>1, <1>6, ReadingFacts DEF ReadsRunning, ReadsPending, h
  <2>2. Pending \in SUBSET Prompts
    BY DEF Pending
  <2>3. reading' \in Readings
    <3>1. CASE ReadsRunning /\ running
      <4>1. reading' = [reading EXCEPT !.at = "pending"] /\ reading.at = "running"
        BY <3>1 DEF ReadsRunning
      <4>2. reading \in [at : {"running", "pending"}, after : Starts, cursor : 0..h]
        BY <1>1, <4>1 DEF Readings, NoReading, h
      <4>3. QED
        BY <4>1, <4>2 DEF Readings, h
    <3>2. CASE ReadsRunning /\ ~running
      BY <2>1, <3>2 DEF ReadsRunning, Readings, h
    <3>3. CASE ReadsPending
      BY <2>1, <2>2, <3>3 DEF ReadsPending, Readings, h
    <3>4. QED
      BY <1>6, <3>1, <3>2, <3>3
  <2>4. UNCHANGED <<agentVars, bus, missed, inbox, out, pageVars, floor, silent>>
    BY <1>6 DEF ReadsRunning, ReadsPending, aside
  <2>5. QED
    BY <1>1, <1>2, <2>3, <2>4
<1>7. CASE Replies
  <2> DEFINE m == [msg |-> "replay", after |-> reading.after, cursor |-> reading.cursor,
                   pending |-> reading.pending, more |-> HasMore(reading.cursor)]
  <2>1. /\ reading.after \in Starts /\ reading.cursor \in 0..h
        /\ reading.pending \in SUBSET Prompts
    BY <1>1, <1>7, ReadingFacts DEF Replies, h
  <2>2. m \in Sent
    <3>1. HasMore(reading.cursor) \in BOOLEAN
      BY DEF HasMore
    <3>2. m \in Pages
      BY <2>1, <3>1 DEF Pages, h
    <3>3. QED
      BY <3>2 DEF Sent
  <2>3. /\ out' = Append(out, m) /\ reading' = NoReading
        /\ UNCHANGED <<agentVars, busVars, inbox, pageVars, floor, silent>>
    BY <1>7 DEF Replies, Sends, aside
  <2> HIDE DEF m
  <2>4. out' \in Seq(Sent) /\ reading' \in Readings
    BY <1>1, <2>2, <2>3, AppendFacts DEF Readings
  <2>5. QED
    BY <1>1, <1>2, <2>3, <2>4 DEF busVars
<1>8. CASE TakesBroadcast
  <2>1. Head(bus) \in Messages(h) /\ Tail(bus) \in Seq(Messages(h))
    BY <1>1, <1>8, TailFacts DEF TakesBroadcast
  <2>2. out' \in Seq(Sent)
    <3>1. Append(out, Head(bus)) \in Seq(Sent)
      BY <1>1, <2>1, AppendFacts DEF Sent
    <3>2. QED
      BY <1>1, <1>8, <3>1 DEF TakesBroadcast, Sends
  <2>3. /\ bus' = Tail(bus)
        /\ UNCHANGED <<agentVars, missed, inbox, reading, pageVars, floor, silent>>
    BY <1>8 DEF TakesBroadcast, aside
  <2>4. QED
    BY <1>1, <1>2, <2>1, <2>2, <2>3
<1>9. CASE TakesLagged
  <2>1. UNCHANGED <<agentVars, bus, missed, inbox, reading, out, pageVars, floor, silent>>
    BY <1>9 DEF TakesLagged, socketVars, aside
  <2>2. QED
    BY <1>1, <1>2, <2>1
<1>10. QED
  BY <1>3, <1>4, <1>5, <1>6, <1>7, <1>8, <1>9, ReadsTailFacts DEF SocketReads

(* The page takes a replay page.                                           *)
LEMMA PageTakesReplayFacts ==
  ASSUME FollowInv, PageTakesReplay
  PROVE  FollowInv' /\ Onward /\ contiguous' \in contiguous..Len(log)
<1> DEFINE h == Len(log)
           m == Head(out)
           start == IF seeded THEN contiguous ELSE Max({contiguous, m.after})
<1>1. /\ h \in Nat /\ out # <<>> /\ m.msg = "replay" /\ out \in Seq(Messages(h) \union Pages)
      /\ floor \in 0..h /\ seen \subseteq 1..h /\ contiguous \in 0..h
      /\ \A n \in floor + 1..contiguous : n \in seen
  BY LengthFacts DEF FollowInv, LogInv, PageInv, SocketInv, PageTakesReplay
<1>2. m \in Messages(h) \union Pages /\ Tail(out) \in Seq(Messages(h) \union Pages)
  BY <1>1, TailFacts
<1>3. m \in Pages
  <2>1. m \notin Messages(h)
    BY <1>1 DEF Messages, Event, Ask, Resolve
  <2>2. QED
    BY <1>2, <2>1
<1>4. m.after \in Starts /\ m.after \in 0..h /\ m.cursor \in 0..h
  BY <1>3 DEF Pages, Starts
<1>5. /\ seeded' = TRUE /\ seen' = seen \union (m.after + 1..m.cursor)
      /\ contiguous' = Contiguous(start, seen') /\ inbox' = inbox \o NextWalk(m)
      /\ out' = Tail(out) /\ UNCHANGED <<agentVars, busVars, reading, floor, silent>>
  BY DEF PageTakesReplay, aside
<1> HIDE DEF m
<1>6. seen \subseteq seen' /\ seen' \subseteq 1..h
  <2>1. m.after + 1..m.cursor \subseteq 1..h
    BY <1>1, <1>4
  <2>2. QED
    BY <1>1, <1>5, <2>1
<1>7. start \in contiguous..h /\ \A n \in floor + 1..start : n \in seen
  <2>1. CASE seeded
    BY <1>1, <2>1
  <2>2. CASE ~seeded
    <3>1. contiguous \in Int /\ m.after \in Int
      BY <1>1, <1>4
    <3>2. Max({contiguous, m.after}) \in {contiguous, m.after}
          /\ Max({contiguous, m.after}) >= contiguous
      BY <3>1, MaxOfTwo, Zenon
    <3>3. m.after <= floor \/ m.after <= contiguous
      BY <1>4, <2>2 DEF Starts
    <3>4. start = Max({contiguous, m.after})
      BY <2>2
    <3> HIDE DEF start
    <3>5. start \in {contiguous, m.after} /\ start >= contiguous
      BY <3>2, <3>4
    <3>6. start \in contiguous..h
      BY <1>1, <1>4, <3>5
    <3>7. start <= floor \/ start <= contiguous
      BY <3>3, <3>5, <3>1
    <3>8. QED
      BY <1>1, <3>6, <3>7
  <2>3. QED
    BY <2>1, <2>2
<1> HIDE DEF start
<1>8. /\ contiguous' \in start..h /\ \A n \in start + 1..contiguous' : n \in seen'
  <2>1. start \in 0..h
    BY <1>1, <1>7
  <2>2. seen' \in SUBSET (1..h)
    BY <1>6
  <2>3. /\ Contiguous(start, seen') \in start..h
        /\ \A n \in start + 1..Contiguous(start, seen') : n \in seen'
    BY <1>1, <2>1, <2>2, ContiguousFacts
  <2>4. QED
    BY <1>5, <2>3
<1>9. contiguous' \in contiguous..h /\ \A n \in floor + 1..contiguous' : n \in seen'
  BY <1>1, <1>6, <1>7, <1>8
<1>10. inbox' \in Seq(Starts' \union {Tail0})
  <2>1. log' = log
    BY <1>5 DEF agentVars
  <2>2. m.cursor \in Starts' /\ Starts \subseteq Starts'
    BY <1>4, <1>5, <2>1 DEF Starts
  <2>3. inbox \in Seq(Starts' \union {Tail0})
    <3>1. Starts \union {Tail0} \subseteq Starts' \union {Tail0}
      BY <2>2
    <3>2. QED
      BY <3>1, SeqGrows DEF FollowInv, SocketInv
  <2>4. NextWalk(m) \in Seq(Starts' \union {Tail0})
    <3>1. <<m.cursor>> \in Seq(Starts' \union {Tail0}) /\ <<>> \in Seq(Starts' \union {Tail0})
      BY <2>2
    <3>2. NextWalk(m) = <<m.cursor>> \/ NextWalk(m) = <<>>
      BY DEF NextWalk
    <3>3. QED
      BY <3>1, <3>2
  <2>5. QED
    BY <1>5, <2>3, <2>4, ConcatFacts
<1>11. seeded' \in BOOLEAN /\ (seeded => seeded')
  BY <1>5
<1>12. FollowInv'
  BY <1>2, <1>5, <1>6, <1>9, <1>10, <1>11, PageMoved
<1>13. Onward
  BY <1>1, <1>5, <1>6 DEF Onward, agentVars, busVars
<1>14. QED
  BY <1>9, <1>12, <1>13

(* The page takes an event, or news of a prompt.                           *)
LEMMA PageTakesNewsFacts ==
  ASSUME FollowInv, PageTakesEvent \/ PageTakesPrompt
  PROVE  FollowInv' /\ Onward /\ contiguous' \in contiguous..Len(log)
<1> DEFINE h == Len(log)
           m == Head(out)
<1>1. /\ h \in Nat /\ out # <<>> /\ out \in Seq(Messages(h) \union Pages)
      /\ floor \in 0..h /\ seen \subseteq 1..h /\ contiguous \in 0..h /\ seeded \in BOOLEAN
      /\ \A n \in floor + 1..contiguous : n \in seen
  BY LengthFacts
     DEF FollowInv, LogInv, PageInv, SocketInv, PageTakesEvent, PageTakesPrompt
<1>2. m \in Messages(h) \union Pages /\ Tail(out) \in Seq(Messages(h) \union Pages)
  BY <1>1, TailFacts
<1>3. /\ out' = Tail(out)
      /\ UNCHANGED <<agentVars, busVars, inbox, reading, seeded, floor, silent>>
  BY DEF PageTakesEvent, PageTakesPrompt, aside
<1>4. seen \subseteq seen' /\ seen' \subseteq 1..h
  <2>1. CASE PageTakesEvent
    <3>1. m.msg = "event" /\ seen' = seen \union {m.seq}
      BY <2>1 DEF PageTakesEvent
    <3>2. m \in Messages(h)
      BY <1>2, <3>1 DEF Pages
    <3>3. m.seq \in 1..h
      BY <1>1, <3>1, <3>2, EventFacts
    <3>4. QED
      BY <1>1, <3>1, <3>3
  <2>2. CASE PageTakesPrompt
    BY <1>1, <2>2 DEF PageTakesPrompt
  <2>3. QED
    BY <2>1, <2>2
<1>5. contiguous' \in contiguous..h /\ \A n \in floor + 1..contiguous' : n \in seen'
  <2>1. CASE PageTakesEvent
    <3>1. contiguous' = Contiguous(contiguous, seen') /\ seen' \in SUBSET (1..h)
      BY <1>4, <2>1 DEF PageTakesEvent
    <3>2. /\ contiguous' \in contiguous..h
          /\ \A n \in contiguous + 1..contiguous' : n \in seen'
      BY <1>1, <3>1, ContiguousFacts
    <3>3. QED
      BY <1>1, <1>4, <3>2
  <2>2. CASE PageTakesPrompt
    BY <1>1, <1>4, <2>2 DEF PageTakesPrompt
  <2>3. QED
    BY <2>1, <2>2
<1>6. Starts \subseteq Starts'
  BY <1>1, <1>3, <1>5, StartsGrow DEF agentVars
<1>7. inbox' \in Seq(Starts' \union {Tail0})
  <2>1. Starts \union {Tail0} \subseteq Starts' \union {Tail0}
    BY <1>6
  <2>2. QED
    BY <1>3, <2>1, SeqGrows DEF FollowInv, SocketInv
<1>8. FollowInv'
  BY <1>1, <1>2, <1>3, <1>4, <1>5, <1>7, PageMoved
<1>9. Onward
  BY <1>1, <1>3, <1>4 DEF Onward, agentVars, busVars
<1>10. QED
  BY <1>5, <1>8, <1>9

(* A connection lost, a server restarted.                                  *)
LEMMA FailureFacts ==
  ASSUME FollowInv, ConnectionLost \/ ServerRestarts PROVE FollowInv' /\ Onward
<1>1. UNCHANGED log /\ held' \subseteq Prompts /\ todo' \in [Writers -> Seq(Steps(Len(log)))]
  <2>1. CASE ConnectionLost
    BY <2>1 DEF ConnectionLost, agentVars, FollowInv, LogInv
  <2>2. CASE ServerRestarts
    <3>1. todo' = [w \in Writers |-> <<>>] /\ held' = {} /\ log' = log
      BY <2>2 DEF ServerRestarts
    <3>2. QED
      BY <3>1
  <2>3. QED
    BY <2>1, <2>2
<1>2. Cut
  BY DEF ConnectionLost, ServerRestarts
<1>3. Onward
  BY <1>1, <1>2, Stays DEF Cut, pageVars
<1>4. QED
  BY <1>1, <1>2, <1>3, CutOff

(* A page that is refused is left with what it has.                        *)
LEMMA RefusedFacts == ASSUME FollowInv, Refused PROVE FollowInv' /\ Onward
<1>1. UNCHANGED <<agentVars, busVars, socketVars, seeded, contiguous, seen, floor, silent>>
  BY DEF Refused, aside
<1>2. Len(log) \in Nat /\ Starts' = Starts /\ PageInv /\ SocketInv
  BY <1>1, LengthFacts DEF FollowInv, Starts, agentVars
<1>3. FollowInv'
  BY <1>1, <1>2, PageMoved DEF PageInv, SocketInv, socketVars
<1>4. QED
  BY <1>1, <1>3, Stays DEF agentVars, busVars

(* Any step.                                                               *)
LEMMA StepFollows ==
  ASSUME FollowInv, [Next]_vars PROVE FollowInv' /\ Onward
<1>1. CASE UNCHANGED vars
  <2>1. /\ UNCHANGED <<agentVars, busVars, silent, floor, pageVars>>
        /\ UNCHANGED <<inbox, reading, out>>
    BY <1>1 DEF vars, socketVars, aside
  <2>2. FollowInv'
    BY <2>1, SocketMoved DEF FollowInv, LogInv, SocketInv, busVars
  <2>3. QED
    BY <2>1, <2>2, Stays DEF agentVars, busVars, pageVars
<1>2. CASE Next
  <2>1. CASE \E w \in Writers : WriterSteps(w)
    BY <2>1, WriterStepsFacts
  <2>2. QED
    BY <1>2, <2>1, WriterBeginsFacts, DroppedFacts, SocketFacts, RefusedFacts,
       PageTakesReplayFacts, PageTakesNewsFacts, FailureFacts DEF Next, PageActs
<1>3. QED
  BY <1>1, <1>2

--------------------------------------------------------------------------------
(* Every row is accounted for.                                             *)

(* Some writer has its event still to send, it is on the bus, or it will   *)
(* never be sent, or never arrive.                                         *)
Uttered(n) ==
  \/ n \in missed \union silent
  \/ \E w \in Writers : Emit(Event(n)) \in ToSet(todo[w])
  \/ Event(n) \in ToSet(bus)

(* A replay asked for, being read, or on its way brings it.  Covered says  *)
(* of a replay only that it began below the row; one that came to the end  *)
(* of the log before the row was written brings no further page.           *)
Resumes(c) == c = Tail0 \/ c <= contiguous
InboxBrings(n) == \E c \in ToSet(inbox) : c = Tail0 \/ n > c
ReadingBrings(n) ==
  \/ reading.at = "tail"
  \/ reading.at = "events" /\ n > reading.after
  \/ /\ reading.at \in {"running", "pending", "head"} /\ n > reading.after
     /\ n <= reading.cursor \/ reading.cursor > reading.after
ReplyBrings(m, n) ==
  /\ m.msg = "replay" /\ n > m.after
  /\ n <= m.cursor \/ (m.more /\ m.cursor > m.after)
Brought(n) ==
  \/ n \in seen \/ Event(n) \in ToSet(out)
  \/ InboxBrings(n) \/ ReadingBrings(n) \/ \E m \in ToSet(out) : ReplyBrings(m, n)

(* Inductive.  Until the socket subscribes it passes no event on: the      *)
(* subscription it is to take reaches from the page's cursor on.           *)
AccountInv ==
  link = "up" =>
    /\ \A n \in floor + 1..Len(log) : Uttered(n) \/ Brought(n)
    /\ subscribed \/ \E c \in ToSet(inbox) : Resumes(c)

LEMMA ToSetTail ==
  ASSUME NEW S, NEW s \in Seq(S), s # <<>> PROVE ToSet(s) = {Head(s)} \union ToSet(Tail(s))
<1>1. \A x \in ToSet(s) : x \in {Head(s)} \union ToSet(Tail(s))
  <2> SUFFICES ASSUME NEW i \in DOMAIN s PROVE s[i] \in {Head(s)} \union ToSet(Tail(s))
    BY DEF ToSet
  <2>1. CASE i = 1
    BY <2>1
  <2>2. CASE i # 1
    <3>1. i - 1 \in DOMAIN Tail(s) /\ Tail(s)[i - 1] = s[i]
      BY <2>2
    <3>2. QED
      BY <3>1 DEF ToSet
  <2>3. QED
    BY <2>1, <2>2
<1>2. Head(s) \in ToSet(s)
  <2>1. 1 \in DOMAIN s /\ Head(s) = s[1]
    OBVIOUS
  <2>2. QED
    BY <2>1 DEF ToSet
<1>3. \A x \in ToSet(Tail(s)) : x \in ToSet(s)
  <2> SUFFICES ASSUME NEW i \in DOMAIN Tail(s) PROVE Tail(s)[i] \in ToSet(s)
    BY DEF ToSet
  <2>1. i + 1 \in DOMAIN s /\ Tail(s)[i] = s[i + 1]
    OBVIOUS
  <2>2. QED
    BY <2>1 DEF ToSet
<1>4. QED
  BY <1>1, <1>2, <1>3

LEMMA ToSetConcat ==
  ASSUME NEW S, NEW s \in Seq(S), NEW t \in Seq(S)
  PROVE  ToSet(s \o t) = ToSet(s) \union ToSet(t)
<1>1. \A x \in ToSet(s \o t) : x \in ToSet(s) \union ToSet(t)
  <2> SUFFICES ASSUME NEW i \in DOMAIN (s \o t) PROVE (s \o t)[i] \in ToSet(s) \union ToSet(t)
    BY DEF ToSet
  <2>1. CASE i <= Len(s)
    <3>1. i \in DOMAIN s /\ (s \o t)[i] = s[i]
      BY <2>1
    <3>2. QED
      BY <3>1 DEF ToSet
  <2>2. CASE i > Len(s)
    <3>1. i - Len(s) \in DOMAIN t /\ (s \o t)[i] = t[i - Len(s)]
      BY <2>2
    <3>2. QED
      BY <3>1 DEF ToSet
  <2>3. QED
    BY <2>1, <2>2
<1>2. \A x \in ToSet(s) : x \in ToSet(s \o t)
  <2> SUFFICES ASSUME NEW i \in DOMAIN s PROVE s[i] \in ToSet(s \o t)
    BY DEF ToSet
  <2>1. i \in DOMAIN (s \o t) /\ (s \o t)[i] = s[i]
    OBVIOUS
  <2>2. QED
    BY <2>1 DEF ToSet
<1>3. \A x \in ToSet(t) : x \in ToSet(s \o t)
  <2> SUFFICES ASSUME NEW i \in DOMAIN t PROVE t[i] \in ToSet(s \o t)
    BY DEF ToSet
  <2>1. Len(s) + i \in DOMAIN (s \o t) /\ (s \o t)[Len(s) + i] = t[i]
    OBVIOUS
  <2>2. QED
    BY <2>1 DEF ToSet
<1>4. QED
  BY <1>1, <1>2, <1>3

LEMMA ToSetAppend ==
  ASSUME NEW S, NEW s \in Seq(S), NEW e \in S PROVE ToSet(Append(s, e)) = ToSet(s) \union {e}
<1>1. Append(s, e) = s \o <<e>> /\ <<e>> \in Seq(S)
  OBVIOUS
<1>2. ToSet(<<e>>) = {e}
  BY DEF ToSet
<1>3. ToSet(s \o <<e>>) = ToSet(s) \union ToSet(<<e>>)
  BY <1>1, ToSetConcat
<1>4. QED
  BY <1>1, <1>2, <1>3

LEMMA ContainsFacts ==
  ASSUME NEW S, NEW s \in Seq(S), NEW e PROVE Contains(s, e) <=> e \in ToSet(s)
BY DEF Contains, ToSet

(* A broadcast is on the bus, and what it pushes out is missed.            *)
LEMMA BroadcastUtters ==
  ASSUME FollowInv, link = "up", NEW m \in Messages(Len(log)), Broadcast(m)
  PROVE  /\ m \in ToSet(bus')
         /\ \A n : Event(n) \in ToSet(bus) => Event(n) \in ToSet(bus') \/ n \in missed'
<1> DEFINE lost == IF Len(bus) = BusCap THEN {Head(bus)} ELSE {}
           kept == IF Len(bus) = BusCap THEN Tail(bus) ELSE bus
<1>1. bus \in Seq(Messages(Len(log)))
  BY DEF FollowInv, LogInv
<1>2. bus' = Append(kept, m) /\ missed' = missed \union {x.seq : x \in {y \in lost : y.msg = "event"}}
  BY DEF Broadcast
<1>3. ASSUME Len(bus) = BusCap
      PROVE  /\ Tail(bus) \in Seq(Messages(Len(log)))
             /\ ToSet(bus) = {Head(bus)} \union ToSet(Tail(bus))
  <2>1. bus # <<>>
    BY <1>3, WsReplayAssumption
  <2>2. QED
    BY <1>1, <2>1, ToSetTail
<1>4. kept \in Seq(Messages(Len(log))) /\ \A x \in ToSet(bus) : x \in lost \/ x \in ToSet(kept)
  BY <1>1, <1>3
<1> HIDE DEF kept, lost
<1>5. ToSet(bus') = ToSet(kept) \union {m}
  BY <1>2, <1>4, ToSetAppend
<1>6. ASSUME NEW n, Event(n) \in lost PROVE n \in missed'
  BY <1>2, <1>6 DEF Event
<1>7. QED
  BY <1>4, <1>5, <1>6

(* What the writers do is heard of, or was.                                *)
LEMMA WritersAccount ==
  ASSUME FollowInv, AccountInv, UNCHANGED <<socketVars, pageVars, floor>>, Len(log') \in Nat,
         ASSUME NEW n \in 1..Len(log'), link = "up", Uttered(n) \/ n > Len(log) PROVE Uttered(n)'
  PROVE  AccountInv'
<1> SUFFICES ASSUME link' = "up"
             PROVE  /\ \A n \in (floor + 1..Len(log))' : Uttered(n)' \/ Brought(n)'
                    /\ subscribed' \/ \E c \in ToSet(inbox') : Resumes(c)'
  BY DEF AccountInv
<1>1. link = "up" /\ floor' = floor /\ floor \in Nat /\ Len(log) \in Nat
  BY DEF socketVars, FollowInv, LogInv
<1>2. subscribed' \/ \E c \in ToSet(inbox') : Resumes(c)'
  BY <1>1 DEF AccountInv, socketVars, pageVars, Resumes
<1>3. \A n \in (floor + 1..Len(log))' : Uttered(n)' \/ Brought(n)'
  <2> SUFFICES ASSUME NEW n \in (floor + 1..Len(log))' PROVE Uttered(n)' \/ Brought(n)'
    OBVIOUS
  <2>1. n \in 1..Len(log') /\ n \in Int /\ n > floor
    BY <1>1
  <2>2. CASE Uttered(n) \/ n > Len(log)
    BY <1>1, <2>1, <2>2
  <2>3. CASE ~Uttered(n) /\ n <= Len(log)
    <3>1. Brought(n)
      BY <1>1, <2>1, <2>3 DEF AccountInv
    <3>2. Brought(n)'
      BY <3>1 DEF Brought, InboxBrings, ReadingBrings, socketVars, pageVars
    <3>3. QED
      BY <3>2
  <2>4. QED
    BY <1>1, <2>1, <2>2, <2>3
<1>4. QED
  BY <1>2, <1>3

LEMMA WriterBeginsAccount ==
  ASSUME FollowInv, AccountInv, RunnerActs \/ Launch \/ RequestLogs PROVE AccountInv'
<1>1. UNCHANGED <<log, busVars, socketVars, pageVars, floor, silent>>
  BY DEF RunnerActs, RunnerLine, RunnerAsks, PromptCloses, RunnerExits, Launch, RequestLogs
<1>2. Len(log) \in Nat /\ todo \in [Writers -> Seq(Steps(Len(log)))]
  BY LengthFacts DEF FollowInv, LogInv
<1>3. \E w \in Writers : todo[w] = <<>> /\ \A v \in Writers \ {w} : todo'[v] = todo[v]
  BY <1>2 DEF RunnerActs, RunnerLine, RunnerAsks, PromptCloses, RunnerExits, Launch,
              RequestLogs, Begins, Writers
<1>4. ASSUME NEW n, Uttered(n) PROVE Uttered(n)'
  <2>1. ToSet(<<>>) = {}
    BY DEF ToSet
  <2>2. ASSUME NEW w \in Writers, Emit(Event(n)) \in ToSet(todo[w])
        PROVE  Emit(Event(n)) \in ToSet(todo'[w])
    BY <1>3, <2>1, <2>2
  <2>3. QED
    BY <1>1, <1>4, <2>2 DEF Uttered, busVars
<1>5. ASSUME NEW n \in 1..Len(log'), n > Len(log) PROVE FALSE
  BY <1>1, <1>2, <1>5
<1>6. QED
  BY <1>1, <1>2, <1>4, <1>5, WritersAccount

(* What a writer that is given up would have said is excused.              *)
LEMMA DroppedAccount ==
  ASSUME FollowInv, AccountInv, LaunchDropped \/ RequestDropped PROVE AccountInv'
<1>1. /\ UNCHANGED <<log, busVars, socketVars, pageVars, floor>> /\ silent \subseteq silent'
      /\ Len(log) \in Nat /\ todo \in [Writers -> Seq(Steps(Len(log)))]
  BY LengthFacts DEF LaunchDropped, RequestDropped, FollowInv, LogInv
<1>2. PICK w \in Writers : Untold(w) \subseteq silent' /\ \A v \in Writers \ {w} : todo'[v] = todo[v]
  BY <1>1 DEF LaunchDropped, RequestDropped, Writers
<1>3. ASSUME NEW n \in 1..Len(log'), Uttered(n) PROVE Uttered(n)'
  <2>1. ASSUME Emit(Event(n)) \in ToSet(todo[w]) PROVE n \in silent'
    <3>1. n \in 1..Len(log) /\ Contains(todo[w], Emit(Event(n)))
      BY <1>1, <2>1, ContainsFacts
    <3>2. QED
      BY <1>2, <3>1 DEF Untold
  <2>2. QED
    BY <1>1, <1>2, <1>3, <2>1 DEF Uttered, busVars
<1>4. ASSUME NEW n \in 1..Len(log'), n > Len(log) PROVE FALSE
  BY <1>1, <1>4
<1>5. QED
  BY <1>1, <1>3, <1>4, WritersAccount

LEMMA WriterStepsAccount ==
  ASSUME FollowInv, AccountInv, NEW w \in Writers, WriterSteps(w) PROVE AccountInv'
<1> DEFINE h == Len(log)
           step == Head(todo[w])
           rest == Tail(todo[w])
           Then(steps) == todo' = [todo EXCEPT ![w] = steps]
<1>1. h \in Nat /\ todo \in [Writers -> Seq(Steps(h))] /\ todo[w] # <<>>
  BY LengthFacts DEF FollowInv, LogInv, WriterSteps
<1>2. /\ step \in Steps(h) /\ rest \in Seq(Steps(h))
      /\ ToSet(todo[w]) = {step} \union ToSet(rest)
  BY <1>1, TailFacts, ToSetTail
<1>3. UNCHANGED <<socketVars, pageVars, floor>>
  BY DEF WriterSteps
<1>4. Len(log') \in Nat
  BY <1>1, StepFollows DEF Next, FollowInv, LogInv
<1> HIDE DEF h, step, rest
<1>5. ASSUME NEW n, NEW steps, Then(steps), ToSet(rest) \subseteq ToSet(steps),
             \E v \in Writers : Emit(Event(n)) \in ToSet(todo[v])
      PROVE  (\E v \in Writers : Emit(Event(n)) \in ToSet(todo'[v])) \/ step = Emit(Event(n))
  <2>1. PICK v \in Writers : Emit(Event(n)) \in ToSet(todo[v])
    BY <1>5
  <2>2. CASE v = w
    BY <1>1, <1>2, <1>5, <2>1, <2>2
  <2>3. CASE v # w
    BY <1>1, <1>5, <2>1, <2>3
  <2>4. QED
    BY <2>2, <2>3
<1>6. ASSUME NEW first \in Seq(Steps(h + 1)), Emit(Event(h + 1)) \in ToSet(first),
             Then(first \o rest), step.do # "emit", Len(log') = h + 1,
             UNCHANGED <<busVars, silent>>
      PROVE  AccountInv'
  <2>1. rest \in Seq(Steps(h + 1))
    <3>1. Steps(h) \subseteq Steps(h + 1)
      BY <1>1, MessagesGrow
    <3>2. QED
      BY <1>2, <3>1, SeqGrows
  <2>2. ToSet(first \o rest) = ToSet(first) \union ToSet(rest)
    BY <1>6, <2>1, ToSetConcat
  <2>3. ToSet(todo'[w]) = ToSet(first) \union ToSet(rest)
    BY <1>1, <1>6, <2>2
  <2>4. ASSUME NEW n \in 1..Len(log'), Uttered(n) \/ n > Len(log) PROVE Uttered(n)'
    <3>1. CASE n > Len(log)
      <4>1. n = h + 1
        BY <1>1, <1>6, <2>4, <3>1 DEF h
      <4>2. Emit(Event(n)) \in ToSet(todo'[w])
        BY <1>6, <2>3, <4>1
      <4>3. QED
        BY <4>2 DEF Uttered
    <3>2. CASE \E v \in Writers : Emit(Event(n)) \in ToSet(todo[v])
      <4>1. step # Emit(Event(n))
        BY <1>6 DEF Emit
      <4>2. \E v \in Writers : Emit(Event(n)) \in ToSet(todo'[v])
        BY <1>5, <1>6, <2>2, <3>2, <4>1
      <4>3. QED
        BY <4>2 DEF Uttered
    <3>3. QED
      BY <1>6, <2>4, <3>1, <3>2 DEF Uttered, busVars
  <2>5. QED
    BY <1>3, <1>4, <2>4, WritersAccount
<1>7. ASSUME Then(rest), Len(log') = h, UNCHANGED silent, missed \subseteq missed',
             \A n : link = "up" /\ step = Emit(Event(n)) => Event(n) \in ToSet(bus'),
             \A n : link = "up" /\ Event(n) \in ToSet(bus) =>
                      Event(n) \in ToSet(bus') \/ n \in missed'
      PROVE  AccountInv'
  <2>1. ASSUME NEW n \in 1..Len(log'), link = "up", Uttered(n) \/ n > Len(log)
        PROVE  Uttered(n)'
    <3>1. Uttered(n)
      BY <1>1, <1>7, <2>1 DEF h
    <3>2. CASE \E v \in Writers : Emit(Event(n)) \in ToSet(todo[v])
      <4>1. (\E v \in Writers : Emit(Event(n)) \in ToSet(todo'[v])) \/ step = Emit(Event(n))
        BY <1>5, <1>7, <3>2
      <4>2. QED
        BY <1>7, <2>1, <4>1 DEF Uttered
    <3>3. CASE Event(n) \in ToSet(bus)
      BY <1>7, <2>1, <3>3 DEF Uttered
    <3>4. QED
      BY <1>7, <3>1, <3>2, <3>3 DEF Uttered
  <2>2. QED
    BY <1>3, <1>4, <2>1, WritersAccount
<1>8. ASSUME NEW m \in Messages(h), Broadcast(m), Then(rest), UNCHANGED <<log, silent>>,
             \A n : step = Emit(Event(n)) => m = Event(n)
      PROVE  AccountInv'
  <2>1. missed \subseteq missed'
    BY <1>8, BroadcastFacts DEF FollowInv, h
  <2>2. link = "up" => /\ m \in ToSet(bus')
                       /\ \A n : Event(n) \in ToSet(bus) =>
                                   Event(n) \in ToSet(bus') \/ n \in missed'
    BY <1>8, BroadcastUtters DEF h
  <2>3. QED
    BY <1>7, <1>8, <2>1, <2>2 DEF h
<1>9. CASE step.do = "write"
  <2>1. /\ log' = Append(log, step.row) /\ Then(<<Emit(Event(h + 1))>> \o rest)
        /\ UNCHANGED <<busVars, silent>>
    BY <1>9 DEF WriterSteps, h, step, rest
  <2>2. Len(log') = h + 1
    BY <1>9, <2>1, <1>2, <1>1, StepFacts, AppendFacts DEF h, FollowInv, LogInv
  <2>3. <<Emit(Event(h + 1))>> \in Seq(Steps(h + 1))
    <3>1. Event(h + 1) \in Messages(h + 1)
      BY <1>1 DEF Messages
    <3>2. QED
      BY <3>1 DEF Steps
  <2>4. Emit(Event(h + 1)) \in ToSet(<<Emit(Event(h + 1))>>)
    BY DEF ToSet
  <2>5. QED
    BY <1>6, <1>9, <2>1, <2>2, <2>3, <2>4
<1>10. CASE step.do = "close"
  <2> DEFINE first == <<Emit(Event(h + 1)), Emit(Resolve(step.prompt))>>
  <2>1. /\ log' = Append(log, Closed(step.prompt)) /\ Then(first \o rest)
        /\ UNCHANGED <<busVars, silent>>
    BY <1>10 DEF WriterSteps, h, step, rest
  <2>2. step.prompt \in Prompts
    BY <1>1, <1>2, <1>10, StepFacts
  <2>3. Len(log') = h + 1
    BY <2>1, <2>2, RowFacts, AppendFacts DEF h, FollowInv, LogInv
  <2>4. first \in Seq(Steps(h + 1))
    <3>1. Event(h + 1) \in Messages(h + 1) /\ Resolve(step.prompt) \in Messages(h + 1)
      BY <1>1, <2>2 DEF Messages
    <3>2. QED
      BY <3>1 DEF Steps
  <2>5. Emit(Event(h + 1)) \in ToSet(first)
    BY DEF ToSet
  <2> HIDE DEF first
  <2>6. QED
    BY <1>6, <1>10, <2>1, <2>3, <2>4, <2>5
<1>11. CASE step.do = "write_only"
  <2>1. /\ log' = Append(log, step.row) /\ Then(rest)
        /\ silent' = silent \union {h + 1} /\ UNCHANGED busVars
    BY <1>11 DEF WriterSteps, h, step, rest
  <2>2. Len(log') = h + 1
    BY <1>11, <2>1, <1>2, <1>1, StepFacts, AppendFacts DEF h, FollowInv, LogInv
  <2>3. ASSUME NEW n \in 1..Len(log'), Uttered(n) \/ n > Len(log) PROVE Uttered(n)'
    <3>1. CASE n > Len(log)
      <4>1. n \in silent'
        BY <1>1, <2>1, <2>2, <2>3, <3>1 DEF h
      <4>2. QED
        BY <4>1 DEF Uttered
    <3>2. CASE \E v \in Writers : Emit(Event(n)) \in ToSet(todo[v])
      <4>1. step # Emit(Event(n))
        BY <1>11 DEF Emit
      <4>2. \E v \in Writers : Emit(Event(n)) \in ToSet(todo'[v])
        BY <1>5, <2>1, <3>2, <4>1
      <4>3. QED
        BY <4>2 DEF Uttered
    <3>3. QED
      BY <2>1, <2>3, <3>1, <3>2 DEF Uttered, busVars
  <2>4. QED
    BY <1>3, <1>4, <2>3, WritersAccount
<1>12. CASE step.do = "emit"
  <2>1. Broadcast(step.msg) /\ Then(rest) /\ UNCHANGED <<log, silent>>
    BY <1>12 DEF WriterSteps, step, rest
  <2>2. step.msg \in Messages(h)
    BY <1>1, <1>2, <1>12, StepFacts
  <2>3. \A n : step = Emit(Event(n)) => step.msg = Event(n)
    BY DEF Emit
  <2>4. QED
    BY <1>8, <2>1, <2>2, <2>3
<1>13. CASE step.do = "hold"
  <2>1. Broadcast(Ask(step.prompt)) /\ Then(rest) /\ UNCHANGED <<log, silent>>
    BY <1>13 DEF WriterSteps, step, rest
  <2>2. Ask(step.prompt) \in Messages(h)
    BY <1>1, <1>2, <1>13, StepFacts DEF Messages
  <2>3. \A n : step # Emit(Event(n))
    BY <1>13 DEF Emit
  <2>4. QED
    BY <1>8, <2>1, <2>2, <2>3
<1>14. CASE step.do \in {"serve", "leave"}
  <2>1. Then(rest) /\ UNCHANGED <<log, busVars, silent>>
    BY <1>14 DEF WriterSteps, step, rest
  <2>2. \A n : step # Emit(Event(n))
    BY <1>14 DEF Emit
  <2>3. QED
    BY <1>7, <2>1, <2>2 DEF busVars, h
<1>15. QED
  BY <1>9, <1>10, <1>11, <1>12, <1>13, <1>14 DEF WriterSteps, step

(* The page connects, from its cursor on.                                  *)
LEMMA ConnectAccounts == ASSUME FollowInv, Connect PROVE AccountInv'
<1>1. PICK k \in {1, 2} : inbox' = [i \in 1..k |-> ReconnectCursor]
  BY DEF Connect
<1>2. ReconnectCursor \in ToSet(inbox')
  <2>1. 1 \in DOMAIN inbox' /\ inbox'[1] = ReconnectCursor
    BY <1>1
  <2>2. QED
    BY <2>1 DEF ToSet
<1>3. ReconnectCursor \in {Tail0, contiguous}
  BY DEF ReconnectCursor
<1>4. contiguous \in Nat /\ floor \in Nat /\ \A n \in floor + 1..contiguous : n \in seen
  BY DEF FollowInv, LogInv, PageInv
<1>5. UNCHANGED <<log, floor, seen, contiguous>>
  BY DEF Connect, agentVars, pageVars
<1>6. \E c \in ToSet(inbox') : Resumes(c)'
  BY <1>2, <1>3, <1>4, <1>5 DEF Resumes, Tail0, MaxRows
<1>7. \A n \in (floor + 1..Len(log))' : Brought(n)'
  <2> SUFFICES ASSUME NEW n \in floor + 1..Len(log) PROVE Brought(n)'
    BY <1>5
  <2>1. n \in Int /\ n > floor
    BY <1>4
  <2>2. CASE n \in seen
    BY <1>5, <2>2 DEF Brought
  <2>3. CASE n \notin seen
    <3>1. n > contiguous
      BY <1>4, <2>1, <2>3
    <3>2. InboxBrings(n)'
      BY <1>2, <1>3, <3>1 DEF InboxBrings, Tail0, MaxRows
    <3>3. QED
      BY <3>2 DEF Brought
  <2>4. QED
    BY <2>2, <2>3
<1>8. QED
  BY <1>6, <1>7 DEF AccountInv

LEMMA Above ==
  ASSUME NEW f \in Nat, NEW h \in Nat, NEW n \in f + 1..h PROVE n \in 1..h /\ n > f
OBVIOUS

(* The socket moves: what was uttered or brought still is, and there is    *)
(* still a subscription to take until one is taken.                        *)
LEMMA SocketAccount ==
  ASSUME FollowInv, AccountInv, UNCHANGED <<agentVars, missed, silent, pageVars, link>>,
         floor' \in Nat, floor <= floor',
         ASSUME NEW n \in 1..Len(log), n > floor', link = "up", n \notin seen,
                Event(n) \in ToSet(bus) \/ Brought(n)
         PROVE  n \in missed' \/ Event(n) \in ToSet(bus') \/ Brought(n)',
         ASSUME link = "up" PROVE subscribed' \/ (subscribed' = subscribed /\ inbox' = inbox)
  PROVE  AccountInv'
<1> SUFFICES ASSUME link = "up"
             PROVE  /\ \A n \in 1..Len(log) : n > floor' => Uttered(n)' \/ Brought(n)'
                    /\ subscribed' \/ \E c \in ToSet(inbox') : Resumes(c)'
  <2>1. ASSUME NEW n \in floor' + 1..Len(log) PROVE n \in 1..Len(log) /\ n > floor'
    <3>1. Len(log) \in Nat
      BY DEF FollowInv, LogInv
    <3>2. QED
      BY <2>1, <3>1, Above, Zenon
  <2>2. QED
    BY <2>1 DEF AccountInv, agentVars
<1>1. subscribed' \/ \E c \in ToSet(inbox') : Resumes(c)'
  BY DEF AccountInv, pageVars, Resumes
<1>2. ASSUME NEW n \in 1..Len(log), n > floor' PROVE Uttered(n)' \/ Brought(n)'
  <2>1. Uttered(n) \/ Brought(n)
    <3>1. floor \in Nat /\ Len(log) \in Nat
      BY DEF FollowInv, LogInv
    <3>2. n \in floor + 1..Len(log)
      BY <3>1, <1>2
    <3>3. QED
      BY <3>2 DEF AccountInv
  <2>2. CASE n \in seen
    BY <2>2 DEF Brought, pageVars
  <2>3. CASE n \notin seen /\ (Event(n) \in ToSet(bus) \/ Brought(n))
    BY <1>2, <2>3 DEF Uttered
  <2>4. CASE Uttered(n) /\ Event(n) \notin ToSet(bus)
    BY <2>4 DEF Uttered, agentVars
  <2>5. QED
    BY <2>1, <2>2, <2>3, <2>4
<1>3. QED
  BY <1>1, <1>2

LEMMA TakesSubscribeAccounts ==
  ASSUME FollowInv, AccountInv, TakesSubscribe PROVE AccountInv'
<1>1. /\ inbox \in Seq(Starts \union {Tail0}) /\ inbox # <<>> /\ reading = NoReading
      /\ subscribed' = TRUE /\ inbox' = Tail(inbox)
      /\ UNCHANGED <<agentVars, busVars, link, out, pageVars, floor, silent>>
  BY DEF FollowInv, SocketInv, TakesSubscribe, aside
<1>2. ToSet(inbox) = {Head(inbox)} \union ToSet(inbox')
  BY <1>1, ToSetTail
<1>3. reading' = IF Head(inbox) = Tail0 THEN [at |-> "tail"]
                 ELSE [at |-> "events", after |-> Head(inbox)]
  BY DEF TakesSubscribe
<1>4. floor' \in Nat /\ floor <= floor'
  BY <1>1 DEF FollowInv, LogInv
<1>5. ASSUME NEW n \in 1..Len(log), n > floor', Event(n) \in ToSet(bus) \/ Brought(n)
      PROVE  Event(n) \in ToSet(bus') \/ Brought(n)'
  <2>1. CASE InboxBrings(n)
    <3>1. PICK c \in ToSet(inbox) : c = Tail0 \/ n > c
      BY <2>1 DEF InboxBrings
    <3>2. CASE c = Head(inbox)
      <4>1. ReadingBrings(n)'
        BY <1>3, <3>1, <3>2 DEF ReadingBrings
      <4>2. QED
        BY <4>1 DEF Brought
    <3>3. CASE c \in ToSet(inbox')
      <4>1. InboxBrings(n)'
        BY <3>1, <3>3 DEF InboxBrings, Tail0
      <4>2. QED
        BY <4>1 DEF Brought
    <3>4. QED
      BY <1>2, <3>1, <3>2, <3>3
  <2>2. ~ReadingBrings(n)
    BY <1>1 DEF NoReading, ReadingBrings
  <2>3. QED
    BY <1>1, <1>5, <2>1, <2>2 DEF Brought, busVars, pageVars
<1>6. QED
  BY <1>1, <1>4, <1>5, SocketAccount DEF busVars

(* The tail is found: the rows below it are given up.                      *)
LEMMA ReadsTailAccounts == ASSUME FollowInv, AccountInv, ReadsTail PROVE AccountInv'
<1>1. Len(log) \in Nat /\ floor \in Nat /\ TailCursor \in Nat
  BY LengthFacts, TailCursorFacts DEF FollowInv, LogInv
<1>2. /\ Max({floor, TailCursor}) \in {floor, TailCursor}
      /\ Max({floor, TailCursor}) >= floor /\ Max({floor, TailCursor}) >= TailCursor
  <2>1. floor \in Int /\ TailCursor \in Int
    BY <1>1
  <2>2. QED
    BY <2>1, MaxOfTwo, Zenon
<1>3. /\ floor' = Max({floor, TailCursor})
      /\ reading' = [at |-> "events", after |-> TailCursor]
      /\ UNCHANGED <<agentVars, busVars, link, subscribed, inbox, out, pageVars, silent>>
  BY DEF ReadsTail, aside
<1>4. floor' \in Nat /\ floor <= floor' /\ TailCursor <= floor'
  BY <1>1, <1>2, <1>3
<1>5. ASSUME NEW n \in 1..Len(log), n > floor' PROVE Brought(n)'
  <2>1. n > TailCursor
    BY <1>1, <1>4, <1>5
  <2>2. ReadingBrings(n)'
    BY <1>3, <2>1 DEF ReadingBrings
  <2>3. QED
    BY <2>2 DEF Brought
<1>6. QED
  BY <1>3, <1>4, <1>5, SocketAccount DEF busVars

(* A page that is read goes on past its beginning, if the log does.        *)
LEMMA LastOfPageGoesOn ==
  ASSUME Len(log) \in Nat, NEW after \in 0..Len(log), NEW n \in 1..Len(log), n > after
  PROVE  LastOfPage(after) > after
<1>1. Window \in Nat /\ Window >= 1
  BY WsReplayAssumption
<1> DEFINE m == Min({after + Window, Len(log)})
<1>2. after + Window \in Int /\ Len(log) \in Int /\ after \in Int
  BY <1>1
<1>3. m \in {after + Window, Len(log)}
  BY <1>2, MinOfTwo, Zenon
<1>4. m \in Int /\ m > after
  BY <1>1, <1>3
<1> HIDE DEF m
<1>5. Max({after, m}) \in {after, m} /\ Max({after, m}) >= m
  BY <1>2, <1>4, MaxOfTwo, Zenon
<1>6. LastOfPage(after) = Max({after, m})
  BY DEF LastOfPage, m
<1>7. QED
  BY <1>2, <1>4, <1>5, <1>6

LEMMA ReplayReadsAccount ==
  ASSUME FollowInv, AccountInv, ReadsEvents \/ ReadsRunning \/ ReadsPending PROVE AccountInv'
<1>1. /\ Len(log) \in Nat /\ reading \in Readings /\ floor \in Nat
      /\ UNCHANGED <<agentVars, bus, missed, link, subscribed, inbox, out, pageVars, floor, silent>>
  BY LengthFacts DEF FollowInv, LogInv, SocketInv, ReadsEvents, ReadsRunning, ReadsPending,
                     busVars, aside
<1>2. ASSUME NEW n \in 1..Len(log), n > floor', ReadingBrings(n) PROVE ReadingBrings(n)'
  <2>1. n \in 1..Len(log)
    BY <1>1
  <2>2. CASE ReadsEvents
    <3>1. /\ reading.at = "events" /\ n > reading.after /\ reading.after \in 0..Len(log)
          /\ reading' = [at |-> "running", after |-> reading.after,
                         cursor |-> LastOfPage(reading.after)]
      BY <1>1, <1>2, <2>2, ReadingFacts DEF ReadsEvents, ReadingBrings, Starts
    <3>2. LastOfPage(reading.after) > reading.after
      BY <1>1, <2>1, <3>1, LastOfPageGoesOn
    <3>3. QED
      BY <3>1, <3>2 DEF ReadingBrings
  <2>3. CASE ReadsRunning \/ ReadsPending
    <3>1. reading.at \in {"running", "pending"}
      BY <2>3 DEF ReadsRunning, ReadsPending
    <3>2. reading \in [at : {"running", "pending"}, after : Starts, cursor : 0..Len(log)]
      BY <1>1, <3>1 DEF Readings, NoReading
    <3>3. /\ reading'.at \in {"pending", "head"} /\ reading'.after = reading.after
          /\ reading'.cursor = reading.cursor
      BY <2>3, <3>2 DEF ReadsRunning, ReadsPending
    <3>4. QED
      BY <1>2, <3>1, <3>3 DEF ReadingBrings
  <2>4. QED
    BY <2>2, <2>3
<1>3. ASSUME NEW n \in 1..Len(log), n > floor', Brought(n) PROVE Brought(n)'
  BY <1>1, <1>2, <1>3 DEF Brought, InboxBrings, pageVars
<1>4. floor' \in Nat /\ floor <= floor'
  BY <1>1
<1>5. QED
  BY <1>1, <1>3, <1>4, SocketAccount

(* The page goes out, and says whether there is more.                      *)
LEMMA RepliesAccounts == ASSUME FollowInv, AccountInv, Replies PROVE AccountInv'
<1> DEFINE h == Len(log)
           m == [msg |-> "replay", after |-> reading.after, cursor |-> reading.cursor,
                 pending |-> reading.pending, more |-> HasMore(reading.cursor)]
<1>1. /\ h \in Nat /\ reading \in Readings /\ out \in Seq(Messages(h) \union Pages)
      /\ floor \in Nat /\ reading.at = "head" /\ out' = Append(out, m)
      /\ UNCHANGED <<agentVars, busVars, link, subscribed, inbox, pageVars, floor, silent>>
  BY LengthFacts DEF FollowInv, LogInv, SocketInv, Replies, Sends, aside
<1>2. /\ reading.after \in Starts /\ reading.cursor \in 0..h
      /\ reading.pending \in SUBSET Prompts /\ HasMore(reading.cursor) \in BOOLEAN
  BY <1>1, ReadingFacts DEF HasMore
<1>3. m \in Messages(h) \union Pages
  BY <1>2 DEF Pages
<1>4. ASSUME NEW n \in 1..Len(log), n > floor', ReadingBrings(n) PROVE ReplyBrings(m, n)
  <2>1. n > reading.after /\ (n <= reading.cursor \/ reading.cursor > reading.after)
    BY <1>1, <1>4 DEF ReadingBrings
  <2>2. n > reading.cursor => HasMore(reading.cursor)
    BY <1>1, <1>2 DEF HasMore
  <2>3. n \in Int /\ reading.cursor \in Int
    BY <1>1, <1>2
  <2>4. QED
    BY <2>1, <2>2, <2>3 DEF ReplyBrings
<1> HIDE DEF h, m
<1>5. ToSet(out') = ToSet(out) \union {m}
  BY <1>1, <1>3, ToSetAppend
<1>6. ASSUME NEW n \in 1..Len(log), n > floor', Brought(n) PROVE Brought(n)'
  BY <1>1, <1>4, <1>5, <1>6 DEF Brought, InboxBrings, pageVars
<1>7. floor' \in Nat /\ floor <= floor'
  BY <1>1
<1>8. QED
  BY <1>1, <1>6, <1>7, SocketAccount DEF busVars

(* A broadcast is passed on, unless the socket has yet to subscribe, and   *)
(* then the subscription reaches it or the page has it.                    *)
LEMMA TakesBroadcastAccounts ==
  ASSUME FollowInv, AccountInv, TakesBroadcast PROVE AccountInv'
<1> DEFINE h == Len(log)
<1>1. /\ h \in Nat /\ bus \in Seq(Messages(h)) /\ out \in Seq(Messages(h) \union Pages)
      /\ inbox \in Seq(Starts \union {Tail0})
      /\ floor \in Nat /\ bus # <<>> /\ bus' = Tail(bus) /\ link = "up"
      /\ contiguous \in Nat /\ \A n \in floor + 1..contiguous : n \in seen
      /\ UNCHANGED <<agentVars, missed, link, subscribed, inbox, reading, pageVars, floor, silent>>
  BY LengthFacts DEF FollowInv, LogInv, PageInv, SocketInv, TakesBroadcast, aside
<1>2. Head(bus) \in Messages(h) /\ ToSet(bus) = {Head(bus)} \union ToSet(bus')
  BY <1>1, TailFacts, ToSetTail
<1> HIDE DEF h
<1>3. ASSUME NEW n \in 1..Len(log), n > floor', n \notin seen, Event(n) = Head(bus), ~subscribed
      PROVE  InboxBrings(n)
  <2>1. PICK c \in ToSet(inbox) : Resumes(c)
    BY <1>1, <1>3 DEF AccountInv
  <2>2. PICK i \in DOMAIN inbox : c = inbox[i]
    BY DEF ToSet
  <2>3. c = Tail0 \/ c \in Nat
    BY <1>1, <2>2 DEF Starts
  <2>4. n \in Int /\ n > floor
    BY <1>1, <1>3
  <2>5. n > contiguous
    BY <1>1, <1>3, <2>4
  <2>6. c = Tail0 \/ n > c
    BY <1>1, <2>1, <2>3, <2>4, <2>5 DEF Resumes
  <2>7. QED
    BY <2>6 DEF InboxBrings
<1>4. \/ ToSet(out') = ToSet(out) \union {Head(bus)}
      \/ ToSet(out') = ToSet(out) /\ Head(bus).msg = "event" /\ ~subscribed
  <2>1. CASE Head(bus).msg # "event" \/ subscribed
    <3>1. out' = Append(out, Head(bus))
      BY <2>1 DEF TakesBroadcast, Sends
    <3>2. Head(bus) \in Messages(h) \union Pages /\ out \in Seq(Messages(h) \union Pages)
      BY <1>1, <1>2
    <3>3. ToSet(Append(out, Head(bus))) = ToSet(out) \union {Head(bus)}
      BY <3>2, ToSetAppend
    <3>4. QED
      BY <3>1, <3>3
  <2>2. CASE ~(Head(bus).msg # "event" \/ subscribed)
    BY <2>2 DEF TakesBroadcast
  <2>3. QED
    BY <2>1, <2>2
<1>5. ASSUME NEW n \in 1..Len(log), n > floor', n \notin seen, Event(n) \in ToSet(bus) \/ Brought(n)
      PROVE  Event(n) \in ToSet(bus') \/ Brought(n)'
  <2>1. CASE Brought(n)
    BY <1>1, <1>4, <2>1 DEF Brought, InboxBrings, ReadingBrings, pageVars
  <2>2. CASE Event(n) \in ToSet(bus')
    BY <2>2
  <2>3. CASE Event(n) = Head(bus)
    BY <1>1, <1>3, <1>4, <1>5, <2>3 DEF Brought, InboxBrings
  <2>4. QED
    BY <1>2, <1>5, <2>1, <2>2, <2>3
<1>6. floor' \in Nat /\ floor <= floor'
  BY <1>1
<1>7. QED
  BY <1>1, <1>5, <1>6, SocketAccount

LEMMA TakesLaggedAccounts == ASSUME FollowInv, AccountInv, TakesLagged PROVE AccountInv'
<1>1. UNCHANGED <<agentVars, bus, missed, silent, pageVars, floor, link, subscribed, inbox,
                  reading, out>>
  BY DEF TakesLagged, socketVars, aside
<1>2. floor' \in Nat /\ floor <= floor'
  BY <1>1 DEF FollowInv, LogInv
<1>3. ASSUME NEW n, Brought(n) PROVE Brought(n)'
  BY <1>1, <1>3 DEF Brought, InboxBrings, ReadingBrings, pageVars
<1>4. QED
  BY <1>1, <1>2, <1>3, SocketAccount

(* The page takes what is first on its way.                                *)
LEMMA PageAccount ==
  ASSUME FollowInv, AccountInv, PageActs,
         UNCHANGED <<agentVars, busVars, link, subscribed, reading, floor, silent>>,
         out # <<>>, out' = Tail(out), seen \subseteq seen',
         contiguous' \in Nat, contiguous <= contiguous', ToSet(inbox) \subseteq ToSet(inbox'),
         ASSUME NEW n \in 1..Len(log), Event(n) = Head(out) \/ ReplyBrings(Head(out), n)
         PROVE  n \in seen' \/ InboxBrings(n)'
  PROVE  AccountInv'
<1>1. /\ Len(log) \in Nat /\ floor \in Nat /\ contiguous \in Nat
      /\ inbox \in Seq(Starts \union {Tail0}) /\ out \in Seq(Messages(Len(log)) \union Pages)
  BY DEF FollowInv, LogInv, PageInv, SocketInv
<1>2. ToSet(out) = {Head(out)} \union ToSet(out')
  BY <1>1, ToSetTail
<1> SUFFICES ASSUME link = "up"
             PROVE  /\ \A n \in floor + 1..Len(log) : Uttered(n)' \/ Brought(n)'
                    /\ subscribed' \/ \E c \in ToSet(inbox') : Resumes(c)'
  BY DEF AccountInv, agentVars
<1>3. subscribed' \/ \E c \in ToSet(inbox') : Resumes(c)'
  <2>1. CASE subscribed
    BY <2>1
  <2>2. CASE ~subscribed
    <3>1. PICK c \in ToSet(inbox) : Resumes(c)
      BY <2>2 DEF AccountInv
    <3>2. PICK i \in DOMAIN inbox : c = inbox[i]
      BY DEF ToSet
    <3>3. c = Tail0 \/ c \in Nat
      BY <1>1, <3>2 DEF Starts
    <3>4. Resumes(c)'
      BY <1>1, <3>1, <3>3 DEF Resumes, Tail0
    <3>5. QED
      BY <3>1, <3>4
  <2>3. QED
    BY <2>1, <2>2
<1>4. ASSUME NEW n \in floor + 1..Len(log) PROVE Uttered(n)' \/ Brought(n)'
  <2>1. n \in 1..Len(log)
    BY <1>1, <1>4
  <2>2. CASE Uttered(n)
    BY <2>2 DEF Uttered, agentVars, busVars
  <2>3. CASE Event(n) = Head(out) \/ ReplyBrings(Head(out), n)
    BY <2>1, <2>3 DEF Brought
  <2>4. CASE Brought(n) /\ ~(Event(n) = Head(out) \/ ReplyBrings(Head(out), n))
    <3>1. InboxBrings(n) => InboxBrings(n)'
      BY DEF InboxBrings
    <3>2. ReadingBrings(n) => ReadingBrings(n)'
      BY DEF ReadingBrings
    <3>3. QED
      BY <1>2, <2>4, <3>1, <3>2 DEF Brought
  <2>5. Uttered(n) \/ Brought(n)
    BY <1>4 DEF AccountInv
  <2>6. QED
    BY <2>2, <2>3, <2>4, <2>5
<1>5. QED
  BY <1>3, <1>4

(* A replay page: what it does not hold the next one will.                 *)
LEMMA PageTakesReplayAccounts ==
  ASSUME FollowInv, AccountInv, PageTakesReplay PROVE AccountInv'
<1> DEFINE h == Len(log)
           m == Head(out)
           Mail == Starts' \union {Tail0}
<1>1. /\ h \in Nat /\ out # <<>> /\ m.msg = "replay" /\ out \in Seq(Messages(h) \union Pages)
      /\ inbox \in Seq(Starts \union {Tail0})
  BY LengthFacts DEF FollowInv, LogInv, SocketInv, PageTakesReplay
<1>2. m \in Pages
  <2>1. m \in Messages(h) \union Pages
    BY <1>1, TailFacts
  <2>2. m \notin Messages(h)
    BY <1>1 DEF Messages, Event, Ask, Resolve
  <2>3. QED
    BY <2>1, <2>2
<1>3. m.after \in 0..h /\ m.cursor \in 0..h /\ m.cursor \in Starts'
  <2>1. log' = log /\ seeded' = TRUE
    BY DEF PageTakesReplay, agentVars
  <2>2. QED
    BY <1>2, <2>1 DEF Pages, Starts
<1>4. /\ seen' = seen \union (m.after + 1..m.cursor) /\ inbox' = inbox \o NextWalk(m)
      /\ out' = Tail(out)
      /\ UNCHANGED <<agentVars, busVars, link, subscribed, reading, floor, silent>>
  BY DEF PageTakesReplay, aside
<1>5. contiguous' \in Nat /\ contiguous \in Nat /\ contiguous <= contiguous'
  BY PageTakesReplayFacts DEF FollowInv, PageInv
<1> HIDE DEF m
<1>6. ToSet(inbox') = ToSet(inbox) \union ToSet(NextWalk(m))
  <2>1. NextWalk(m) \in Seq(Starts \union {Tail0} \union {m.cursor})
    <3> DEFINE T == Starts \union {Tail0} \union {m.cursor}
    <3>1. m.cursor \in T
      OBVIOUS
    <3> HIDE DEF T
    <3>2. <<m.cursor>> \in Seq(T) /\ <<>> \in Seq(T)
      BY <3>1
    <3>3. NextWalk(m) = <<m.cursor>> \/ NextWalk(m) = <<>>
      BY DEF NextWalk
    <3>4. QED
      BY <3>2, <3>3 DEF T
  <2>2. inbox \in Seq(Starts \union {Tail0} \union {m.cursor})
    BY <1>1
  <2>3. QED
    BY <1>4, <2>1, <2>2, ToSetConcat
<1>7. ASSUME NEW n \in 1..Len(log), Event(n) = m \/ ReplyBrings(m, n)
      PROVE  n \in seen' \/ InboxBrings(n)'
  <2>1. ReplyBrings(m, n)
    BY <1>1, <1>7 DEF Event, m
  <2>2. CASE n <= m.cursor
    BY <1>3, <1>4, <2>1, <2>2 DEF ReplyBrings
  <2>3. CASE n > m.cursor
    <3>1. m.more /\ m.cursor > m.after
      BY <1>3, <2>1, <2>3 DEF ReplyBrings
    <3>2. NextWalk(m) = <<m.cursor>>
      BY <3>1 DEF NextWalk
    <3>3. m.cursor \in ToSet(NextWalk(m))
      BY <3>2 DEF ToSet
    <3>4. QED
      BY <1>6, <2>3, <3>3 DEF InboxBrings
  <2>4. QED
    BY <1>3, <2>2, <2>3
<1>8. PageActs
  BY DEF PageActs
<1>9. QED
  BY <1>1, <1>4, <1>5, <1>6, <1>7, <1>8, PageAccount DEF m

LEMMA PageTakesNewsAccounts ==
  ASSUME FollowInv, AccountInv, PageTakesEvent \/ PageTakesPrompt PROVE AccountInv'
<1>1. /\ out # <<>> /\ out' = Tail(out) /\ inbox' = inbox /\ PageActs
      /\ UNCHANGED <<agentVars, busVars, link, subscribed, reading, floor, silent>>
  BY DEF PageTakesEvent, PageTakesPrompt, PageActs, aside
<1>2. contiguous' \in Nat /\ contiguous \in Nat /\ contiguous <= contiguous'
  BY PageTakesNewsFacts DEF FollowInv, PageInv
<1>3. seen \subseteq seen'
  BY DEF PageTakesEvent, PageTakesPrompt
<1>4. ASSUME NEW n \in 1..Len(log), Event(n) = Head(out) \/ ReplyBrings(Head(out), n)
      PROVE  n \in seen'
  <2>1. CASE PageTakesEvent
    <3>1. Head(out).msg = "event" /\ seen' = seen \union {Head(out).seq}
      BY <2>1 DEF PageTakesEvent
    <3>2. QED
      BY <1>4, <3>1 DEF ReplyBrings, Event
  <2>2. CASE PageTakesPrompt
    <3>1. Head(out).msg \in {"ask", "resolve"}
      BY <2>2 DEF PageTakesPrompt
    <3>2. QED
      BY <1>4, <3>1 DEF ReplyBrings, Event
  <2>3. QED
    BY <2>1, <2>2
<1>5. QED
  BY <1>1, <1>2, <1>3, <1>4, PageAccount

(* Any step.                                                               *)
LEMMA StepAccounts == ASSUME FollowInv, AccountInv, [Next]_vars PROVE AccountInv'
<1>1. CASE UNCHANGED vars
  <2>1. /\ UNCHANGED <<agentVars, bus, missed, silent, pageVars, floor, link, subscribed, inbox,
                       reading, out>>
    BY <1>1 DEF vars, busVars, socketVars, aside
  <2>2. floor' \in Nat /\ floor <= floor'
    BY <2>1 DEF FollowInv, LogInv
  <2>3. ASSUME NEW n, Brought(n) PROVE Brought(n)'
    BY <2>1, <2>3 DEF Brought, InboxBrings, ReadingBrings, pageVars
  <2>4. QED
    BY <2>1, <2>2, <2>3, SocketAccount
<1>2. CASE RunnerActs \/ Launch \/ RequestLogs
  BY <1>2, WriterBeginsAccount
<1>3. CASE \E w \in Writers : WriterSteps(w)
  BY <1>3, WriterStepsAccount
<1>4. CASE Connect
  BY <1>4, ConnectAccounts
<1>5. CASE TakesSubscribe \/ TakesBroadcast \/ TakesLagged
  BY <1>5, TakesSubscribeAccounts, TakesBroadcastAccounts, TakesLaggedAccounts
<1>6. CASE SocketReads
  BY <1>6, ReadsTailAccounts, ReplayReadsAccount, RepliesAccounts DEF SocketReads
<1>7. CASE PageActs
  BY <1>7, PageTakesReplayAccounts, PageTakesNewsAccounts DEF PageActs
<1>8. CASE ConnectionLost \/ ServerRestarts \/ Refused
  BY <1>8 DEF ConnectionLost, ServerRestarts, Cut, Refused, socketVars, AccountInv
<1>9. CASE LaunchDropped \/ RequestDropped
  BY <1>9, DroppedAccount
<1>10. QED
  BY <1>1, <1>2, <1>3, <1>4, <1>5, <1>6, <1>7, <1>8, <1>9 DEF Next

--------------------------------------------------------------------------------
(* The page shows the prompts that are held.                               *)

(* What the runner has still to do: raise a prompt, or other things, and   *)
(* then whatever it says of a prompt is that it is closed.                 *)
Task == todo["runner"]
Asks(p) ==
  /\ running
  /\ \/ Task = <<Write(Asked(p)), Hold(p)>>
     \/ /\ p \in Pending
        /\ Task = <<Hold(p)>> \/ \E n \in 1..Len(log) : Task = <<Emit(Event(n)), Hold(p)>>
Closing(p) ==
  Close(p) \in ToSet(Task) \/ WriteOnly(Closed(p)) \in ToSet(Task)
    \/ Emit(Resolve(p)) \in ToSet(Task)
RowsFirst(s) == \A i, j \in DOMAIN s : i < j /\ s[j].do = "write_only" => s[i].do = "write_only"
Chores(h) ==
  {Write(Line), Serve, Leave} \union {Emit(Event(n)) : n \in 1..h} \union {Close(p) : p \in Prompts}
    \union {WriteOnly(Closed(p)) : p \in Prompts} \union {Emit(Resolve(p)) : p \in Prompts}
Closes ==
  /\ ToSet(Task) \subseteq Chores(Len(log)) /\ RowsFirst(Task)
  /\ \A p \in Prompts :
       /\ Closing(p) => p \notin held
       /\ WriteOnly(Closed(p)) \in ToSet(Task) => Emit(Resolve(p)) \in ToSet(Task)
       /\ Emit(Resolve(p)) \in ToSet(Task) =>
            \/ Close(p) \in ToSet(Task) \/ WriteOnly(Closed(p)) \in ToSet(Task)
            \/ p \notin Pending
  /\ ~running \/ Leave \in ToSet(Task) => held = {}
RequestChores(h) == {Write(Line)} \union {Emit(Event(n)) : n \in 1..h}
TaskInv ==
  /\ ToSet(todo["request"]) \subseteq RequestChores(Len(log))
  /\ (\E p \in Prompts : Asks(p)) \/ Closes

(* Nothing more is to be said of the prompt for now; the log then tells    *)
(* whether it is held, while there is a runner and to a replay that found  *)
(* there was one.                                                          *)
Settled(p) == Hold(p) \notin ToSet(Task) /\ ~Closing(p)
LogTells ==
  running \/ reading.at = "pending" =>
    \A p \in Prompts : Settled(p) => (p \in Pending <=> p \in held)

(* Messages that say whether a prompt is open, and the last of them.       *)
Tells(m, p) == m.msg = "replay" \/ (m.msg \in {"ask", "resolve"} /\ m.prompt = p)
Says(m, p) == (m.msg = "replay" /\ p \in m.pending) \/ m.msg = "ask"
Mute(s, p) == \A i \in DOMAIN s : ~Tells(s[i], p)
LastSays(s, p, open) ==
  \E i \in DOMAIN s :
    /\ Tells(s[i], p) /\ (Says(s[i], p) <=> p \in open)
    /\ \A j \in DOMAIN s : j > i => ~Tells(s[j], p)

(* The prompts are still to be read.                                       *)
Refreshing == inbox # <<>> \/ reading.at \in {"tail", "events", "running", "pending"}

(* The last word on a settled prompt is the truth, be it on the bus, in    *)
(* the prompts a replay has read, on its way to the page, or at the page.  *)
BusTells(p) == Mute(bus, p) \/ LastSays(bus, p, held)
PageTells(p) ==
  Mute(bus, p) =>
    IF reading.at = "head" THEN p \in reading.pending <=> p \in held
    ELSE LastSays(out, p, held) \/ (Mute(out, p) /\ (p \in cards <=> p \in held))
NewsInv ==
  /\ cards \subseteq Prompts /\ link \in {"up", "down"} /\ (link = "down" => bus = <<>>)
  /\ \A p \in Prompts : Settled(p) =>
       BusTells(p) /\ (link = "up" /\ ~blind /\ ~Refreshing => PageTells(p))

TendedInv == TaskInv /\ LogTells /\ NewsInv
PromptInv == cards \subseteq Prompts /\ (untended \/ TendedInv)

LEMMA NewsTail ==
  ASSUME NEW S, NEW s \in Seq(S), s # <<>>, NEW p, NEW open
  PROVE  /\ Mute(s, p) <=> ~Tells(Head(s), p) /\ Mute(Tail(s), p)
         /\ LastSays(s, p, open) <=>
              \/ LastSays(Tail(s), p, open)
              \/ /\ Mute(Tail(s), p) /\ Tells(Head(s), p)
                 /\ Says(Head(s), p) <=> p \in open
<1> DEFINE t == Tail(s)
<1>1. /\ 1 \in DOMAIN s /\ Head(s) = s[1]
      /\ \A i \in DOMAIN t : i \in Nat /\ i >= 1 /\ i + 1 \in DOMAIN s /\ t[i] = s[i + 1]
      /\ \A i \in DOMAIN s : i \in Nat /\ (i = 1 \/ (i > 1 /\ i - 1 \in DOMAIN t /\ s[i] = t[i - 1]))
  OBVIOUS
<1> HIDE DEF t
<1>2. Mute(s, p) <=> ~Tells(Head(s), p) /\ Mute(t, p)
  BY <1>1 DEF Mute
<1>3. ASSUME LastSays(t, p, open) PROVE LastSays(s, p, open)
  <2>1. PICK i \in DOMAIN t : /\ Tells(t[i], p) /\ (Says(t[i], p) <=> p \in open)
                              /\ \A j \in DOMAIN t : j > i => ~Tells(t[j], p)
    BY <1>3 DEF LastSays
  <2>2. \A j \in DOMAIN s : j > i + 1 => ~Tells(s[j], p)
    <3> SUFFICES ASSUME NEW j \in DOMAIN s, j > i + 1 PROVE ~Tells(s[j], p)
      OBVIOUS
    <3>1. j - 1 \in DOMAIN t /\ s[j] = t[j - 1] /\ j - 1 > i
      BY <1>1
    <3>2. QED
      BY <2>1, <3>1
  <2>3. QED
    BY <1>1, <2>1, <2>2 DEF LastSays
<1>4. ASSUME Mute(t, p), Tells(Head(s), p), Says(Head(s), p) <=> p \in open
      PROVE  LastSays(s, p, open)
  <2>1. \A j \in DOMAIN s : j > 1 => ~Tells(s[j], p)
    <3> SUFFICES ASSUME NEW j \in DOMAIN s, j > 1 PROVE ~Tells(s[j], p)
      OBVIOUS
    <3>1. j - 1 \in DOMAIN t /\ s[j] = t[j - 1]
      BY <1>1
    <3>2. QED
      BY <1>4, <3>1 DEF Mute
  <2>2. QED
    BY <1>1, <1>4, <2>1 DEF LastSays
<1>5. ASSUME LastSays(s, p, open)
      PROVE  LastSays(t, p, open)
               \/ (Mute(t, p) /\ Tells(Head(s), p) /\ (Says(Head(s), p) <=> p \in open))
  <2>1. PICK i \in DOMAIN s : /\ Tells(s[i], p) /\ (Says(s[i], p) <=> p \in open)
                              /\ \A j \in DOMAIN s : j > i => ~Tells(s[j], p)
    BY <1>5 DEF LastSays
  <2>2. \A j \in DOMAIN t : j + 1 > i => ~Tells(t[j], p)
    BY <1>1, <2>1
  <2>3. CASE i = 1
    <3>1. Mute(t, p)
      <4>1. \A j \in DOMAIN t : j + 1 > 1
        BY <1>1
      <4>2. QED
        BY <2>2, <2>3, <4>1 DEF Mute
    <3>2. QED
      BY <1>1, <2>1, <2>3, <3>1
  <2>4. CASE i # 1
    <3>1. i - 1 \in DOMAIN t /\ s[i] = t[i - 1]
      BY <1>1, <2>4
    <3>2. \A j \in DOMAIN t : j > i - 1 => ~Tells(t[j], p)
      BY <1>1, <2>2
    <3>3. LastSays(t, p, open)
      BY <2>1, <3>1, <3>2 DEF LastSays
    <3>4. QED
      BY <3>3
  <2>5. QED
    BY <2>3, <2>4
<1>6. QED
  BY <1>2, <1>3, <1>4, <1>5 DEF t

LEMMA NewsAppend ==
  ASSUME NEW S, NEW s \in Seq(S), NEW m \in S, NEW p, NEW open
  PROVE  /\ Tells(m, p) /\ (Says(m, p) <=> p \in open) => LastSays(Append(s, m), p, open)
         /\ ~Tells(m, p) => /\ Mute(Append(s, m), p) <=> Mute(s, p)
                            /\ LastSays(s, p, open) => LastSays(Append(s, m), p, open)
<1> DEFINE t == Append(s, m)
<1>1. /\ \A i \in DOMAIN s : i \in Nat /\ i \in DOMAIN t /\ t[i] = s[i] /\ i < Len(s) + 1
      /\ Len(s) + 1 \in DOMAIN t /\ t[Len(s) + 1] = m
      /\ \A i \in DOMAIN t : i \in Nat /\ (i = Len(s) + 1 \/ i \in DOMAIN s) /\ i <= Len(s) + 1
  OBVIOUS
<1> HIDE DEF t
<1>2. ASSUME Tells(m, p), Says(m, p) <=> p \in open PROVE LastSays(t, p, open)
  <2>1. \A j \in DOMAIN t : ~(j > Len(s) + 1)
    BY <1>1
  <2>2. QED
    BY <1>1, <1>2, <2>1 DEF LastSays
<1>3. ASSUME ~Tells(m, p) PROVE Mute(t, p) <=> Mute(s, p)
  BY <1>1, <1>3 DEF Mute
<1>4. ASSUME ~Tells(m, p), LastSays(s, p, open) PROVE LastSays(t, p, open)
  <2>1. PICK i \in DOMAIN s : /\ Tells(s[i], p) /\ (Says(s[i], p) <=> p \in open)
                              /\ \A j \in DOMAIN s : j > i => ~Tells(s[j], p)
    BY <1>4 DEF LastSays
  <2>2. \A j \in DOMAIN t : j > i => ~Tells(t[j], p)
    BY <1>1, <1>4, <2>1
  <2>3. QED
    BY <1>1, <2>1, <2>2 DEF LastSays
<1>5. QED
  BY <1>2, <1>3, <1>4 DEF t

LEMMA LastIsNotMute ==
  ASSUME NEW s, NEW p, NEW open, LastSays(s, p, open) PROVE ~Mute(s, p)
BY DEF LastSays, Mute

(* What is said of other prompts says nothing of this one.                 *)
LEMMA TellsFacts ==
  ASSUME NEW p, NEW q, NEW n
  PROVE  /\ ~Tells(Event(n), p)
         /\ Tells(Ask(q), p) <=> q = p
         /\ Tells(Resolve(q), p) <=> q = p
         /\ Says(Ask(q), p) /\ ~Says(Resolve(q), p)
BY DEF Tells, Says, Event, Ask, Resolve

(* A broadcast is the last word on its prompt; of others it may push the   *)
(* only word out, and then the page is blind.                              *)
LEMMA BroadcastTells ==
  ASSUME FollowInv, NEW m \in Messages(Len(log)), Broadcast(m), NEW p, NEW open
  PROVE  /\ link = "up" /\ Tells(m, p) /\ (Says(m, p) <=> p \in open) => LastSays(bus', p, open)
         /\ link = "down" => UNCHANGED busVars
         /\ ~Tells(m, p) =>
              /\ Mute(bus, p) \/ LastSays(bus, p, open) => Mute(bus', p) \/ LastSays(bus', p, open)
              /\ ~blind' => ~blind /\ (Mute(bus', p) => Mute(bus, p))
<1>1. CASE link = "down"
  BY <1>1 DEF Broadcast, busVars
<1>2. CASE link # "down"
  <2> DEFINE lost == IF Len(bus) = BusCap THEN {Head(bus)} ELSE {}
             kept == IF Len(bus) = BusCap THEN Tail(bus) ELSE bus
  <2>1. bus \in Seq(Messages(Len(log)))
    BY DEF FollowInv, LogInv
  <2>2. bus' = Append(kept, m) /\ blind' = (blind \/ \E x \in lost : x.msg # "event")
    BY <1>2 DEF Broadcast
  <2>3. ASSUME Len(bus) = BusCap
        PROVE  /\ bus # <<>> /\ Tail(bus) \in Seq(Messages(Len(log)))
               /\ Head(bus) \in Messages(Len(log))
    <3>1. bus # <<>>
      BY <2>3, WsReplayAssumption
    <3>2. QED
      BY <2>1, <3>1, TailFacts
  <2>4. kept \in Seq(Messages(Len(log)))
    BY <2>1, <2>3
  <2>5. ASSUME Mute(bus, p) \/ LastSays(bus, p, open)
        PROVE  Mute(kept, p) \/ LastSays(kept, p, open)
    <3>1. CASE Len(bus) = BusCap
      BY <2>1, <2>3, <2>5, <3>1, NewsTail
    <3>2. CASE Len(bus) # BusCap
      BY <2>5, <3>2
    <3>3. QED
      BY <3>1, <3>2
  <2>6. ASSUME ~blind' PROVE ~blind /\ (Mute(kept, p) => Mute(bus, p))
    <3>1. CASE Len(bus) = BusCap
      <4>1. Head(bus).msg = "event"
        BY <2>2, <2>6, <3>1
      <4>2. ~Tells(Head(bus), p)
        BY <4>1 DEF Tells
      <4>3. QED
        BY <2>1, <2>2, <2>3, <2>6, <3>1, <4>2, NewsTail
    <3>2. CASE Len(bus) # BusCap
      BY <2>2, <2>6, <3>2
    <3>3. QED
      BY <3>1, <3>2
  <2> HIDE DEF lost, kept
  <2>7. /\ Tells(m, p) /\ (Says(m, p) <=> p \in open) => LastSays(bus', p, open)
        /\ ~Tells(m, p) => /\ Mute(bus', p) <=> Mute(kept, p)
                           /\ LastSays(kept, p, open) => LastSays(bus', p, open)
    BY <2>2, <2>4, NewsAppend
  <2>8. QED
    BY <1>2, <2>5, <2>6, <2>7
<1>3. QED
  BY <1>1, <1>2

LEMMA SetToSeqOnto ==
  ASSUME NEW S \in SUBSET Prompts PROVE ToSet(SetToSeq(S)) = S
<1>1. IsFiniteSet(S)
  BY WsReplayAssumption, FS_Subset
<1>2. Cardinality(S) \in Nat /\ ExistsBijection(1..Cardinality(S), S)
  BY <1>1, FS_CardinalityType
<1>3. PICK f : f \in Bijection(1..Cardinality(S), S)
  BY <1>2 DEF ExistsBijection
<1>4. f \in [1..Cardinality(S) -> S] /\ IsInjective(f)
  BY <1>3 DEF Bijection, Injection, IsInjective
<1>5. SetToSeq(S) \in [1..Cardinality(S) -> S] /\ IsInjective(SetToSeq(S))
  BY <1>4 DEF SetToSeq
<1>6. SetToSeq(S) \in Injection(1..Cardinality(S), S)
  BY <1>5 DEF Injection
<1>7. Cardinality(1..Cardinality(S)) = Cardinality(S)
  BY <1>2, FS_Interval
<1>8. SetToSeq(S) \in Surjection(1..Cardinality(S), S)
  BY <1>1, <1>6, <1>7, FS_Injection
<1>9. QED
  BY <1>5, <1>8 DEF Surjection, ToSet

(* What is open once a row is added to the log.                            *)
LEMMA PendingAppend ==
  ASSUME NEW row, log \in Seq(Row), row \in Row, log' = Append(log, row), NEW p \in Prompts
  PROVE  (p \in Pending)' <=> row = Asked(p) \/ (p \in Pending /\ row # Closed(p))
<1> DEFINE h == Len(log)
<1>1. /\ h \in Nat /\ Len(log') = h + 1 /\ log'[h + 1] = row
      /\ \A i \in DOMAIN log : i \in DOMAIN log' /\ log'[i] = log[i] /\ i \in 1..h
      /\ \A i \in DOMAIN log' : i \in 1..h + 1 /\ (i = h + 1 \/ i \in DOMAIN log)
      /\ h + 1 \in DOMAIN log'
  OBVIOUS
<1> HIDE DEF h
<1>2. Asked(p) # Closed(p)
  BY DEF Asked, Closed
<1>3. ASSUME row = Asked(p) PROVE (p \in Pending)'
  <2>1. \A j \in (h + 1) + 1..Len(log') : FALSE
    BY <1>1
  <2>2. QED
    BY <1>1, <1>3, <2>1 DEF Pending
<1>4. ASSUME p \in Pending, row # Closed(p) PROVE (p \in Pending)'
  <2>1. PICK i \in DOMAIN log : log[i] = Asked(p) /\ \A j \in i + 1..Len(log) : log[j] # Closed(p)
    BY <1>4 DEF Pending
  <2>2. \A j \in i + 1..Len(log') : log'[j] # Closed(p)
    <3> SUFFICES ASSUME NEW j \in i + 1..Len(log') PROVE log'[j] # Closed(p)
      OBVIOUS
    <3>1. j \in Int /\ j >= i + 1 /\ j <= h + 1 /\ i \in 1..h
      BY <1>1
    <3>2. CASE j = h + 1
      BY <1>1, <1>4, <3>2
    <3>3. CASE j # h + 1
      <4>1. j \in i + 1..h /\ j \in 1..h
        BY <1>1, <3>1, <3>3
      <4>2. j \in DOMAIN log
        BY <1>1, <4>1 DEF h
      <4>3. QED
        BY <1>1, <2>1, <4>1, <4>2 DEF h
    <3>4. QED
      BY <3>2, <3>3
  <2>3. QED
    BY <1>1, <2>1, <2>2 DEF Pending
<1>5. ASSUME (p \in Pending)', row # Asked(p) PROVE p \in Pending /\ row # Closed(p)
  <2>1. PICK i \in DOMAIN log' :
          log'[i] = Asked(p) /\ \A j \in i + 1..Len(log') : log'[j] # Closed(p)
    BY <1>5 DEF Pending
  <2>2. i \in DOMAIN log /\ log[i] = Asked(p) /\ i \in 1..h
    BY <1>1, <1>5, <2>1
  <2>3. \A j \in i + 1..h : log[j] # Closed(p)
    <3> SUFFICES ASSUME NEW j \in i + 1..h PROVE log[j] # Closed(p)
      OBVIOUS
    <3>1. j \in i + 1..h + 1 /\ j \in 1..h
      BY <1>1, <2>2
    <3>2. j \in DOMAIN log
      BY <1>1, <3>1 DEF h
    <3>3. QED
      BY <1>1, <2>1, <3>1, <3>2
  <2>4. row # Closed(p)
    <3>1. h + 1 \in i + 1..h + 1
      BY <1>1, <2>2
    <3>2. QED
      BY <1>1, <2>1, <3>1
  <2>5. QED
    BY <2>2, <2>3, <2>4 DEF Pending, h
<1>6. QED
  BY <1>2, <1>3, <1>4, <1>5

(* The steps differ.                                                       *)
LEMMA StepsDiffer ==
  /\ Write(Line).do = "write" /\ Serve.do = "serve" /\ Leave.do = "leave"
  /\ \A p : /\ Write(Asked(p)).do = "write" /\ WriteOnly(Closed(p)).do = "write_only"
            /\ Close(p).do = "close" /\ Hold(p).do = "hold" /\ Emit(Resolve(p)).do = "emit"
  /\ \A n : Emit(Event(n)).do = "emit"
  /\ \A p, q : /\ Close(p) = Close(q) => p = q
               /\ Hold(p) = Hold(q) => p = q
               /\ WriteOnly(Closed(p)) = WriteOnly(Closed(q)) => p = q
               /\ Emit(Resolve(p)) = Emit(Resolve(q)) => p = q
  /\ \A p, n : Emit(Resolve(p)) # Emit(Event(n))
BY DEF Write, WriteOnly, Serve, Leave, Close, Hold, Emit, Asked, Closed, Line, Resolve, Event

(* Nothing is on its way, and nothing is said or unsaid.                   *)
LEMMA NewsKept ==
  ASSUME NewsInv, UNCHANGED <<busVars, socketVars, pageVars>>,
         ASSUME NEW p \in Prompts, Settled(p)' PROVE Settled(p) /\ (p \in held' <=> p \in held)
  PROVE  NewsInv'
<1>1. ASSUME NEW p \in Prompts, Settled(p)'
      PROVE  BusTells(p)' /\ ((link = "up" /\ ~blind /\ ~Refreshing)' => PageTells(p)')
  <2>1. Settled(p) /\ (p \in held' <=> p \in held)
    BY <1>1
  <2>2. BusTells(p) /\ (link = "up" /\ ~blind /\ ~Refreshing => PageTells(p))
    BY <2>1 DEF NewsInv
  <2>3. BusTells(p)'
    BY <2>1, <2>2 DEF BusTells, LastSays, busVars
  <2>4. PageTells(p) => PageTells(p)'
    BY <2>1 DEF PageTells, LastSays, busVars, socketVars, pageVars
  <2>5. (link = "up" /\ ~blind /\ ~Refreshing)' <=> link = "up" /\ ~blind /\ ~Refreshing
    BY DEF Refreshing, busVars, socketVars
  <2>6. QED
    BY <2>2, <2>3, <2>4, <2>5
<1>2. cards' \subseteq Prompts /\ link' \in {"up", "down"} /\ (link' = "down" => bus' = <<>>)
  BY DEF NewsInv, busVars, socketVars, pageVars
<1>3. QED
  BY <1>1, <1>2 DEF NewsInv

(* A writer that has nothing to do.                                        *)
LEMMA IdleFacts ==
  ASSUME Task = <<>>, TaskInv
  PROVE  /\ Closes /\ (~running => held = {})
         /\ \A p : Settled(p)
<1>1. ToSet(<<>>) = {}
  BY DEF ToSet
<1>2. ASSUME NEW p PROVE ~Asks(p)
  BY DEF Asks
<1>3. QED
  BY <1>1, <1>2 DEF TaskInv, Closes, Settled, Closing

LEMMA RowsFirstFacts ==
  ASSUME NEW S, NEW s \in Seq(S), s # <<>>, RowsFirst(s)
  PROVE  /\ RowsFirst(Tail(s))
         /\ Head(s).do # "write_only" => \A x \in ToSet(s) : x.do # "write_only"
<1> DEFINE t == Tail(s)
<1>1. /\ 1 \in DOMAIN s /\ Head(s) = s[1]
      /\ \A i \in DOMAIN t : i \in Int /\ i + 1 \in DOMAIN s /\ t[i] = s[i + 1]
      /\ \A i \in DOMAIN s : i \in Int /\ (i = 1 \/ 1 < i)
  OBVIOUS
<1> HIDE DEF t
<1>2. RowsFirst(t)
  <2> SUFFICES ASSUME NEW i \in DOMAIN t, NEW j \in DOMAIN t, i < j, t[j].do = "write_only"
               PROVE  t[i].do = "write_only"
    BY DEF RowsFirst
  <2>1. i + 1 < j + 1
    BY <1>1
  <2>2. QED
    BY <1>1, <2>1 DEF RowsFirst
<1>3. ASSUME Head(s).do # "write_only", NEW i \in DOMAIN s PROVE s[i].do # "write_only"
  BY <1>1, <1>3 DEF RowsFirst
<1>4. QED
  BY <1>2, <1>3 DEF t, ToSet

LEMMA NoRows ==
  ASSUME NEW s, \A x \in ToSet(s) : x.do # "write_only" PROVE RowsFirst(s)
BY DEF RowsFirst, ToSet

LEMMA RowsFirstConcat ==
  ASSUME NEW S, NEW s \in Seq(S), NEW t \in Seq(S), RowsFirst(s),
         \A x \in ToSet(t) : x.do # "write_only"
  PROVE  RowsFirst(s \o t)
<1> SUFFICES ASSUME NEW i \in DOMAIN (s \o t), NEW j \in DOMAIN (s \o t), i < j,
                    (s \o t)[j].do = "write_only"
             PROVE  (s \o t)[i].do = "write_only"
  BY DEF RowsFirst
<1>1. CASE j <= Len(s)
  <2>1. i \in DOMAIN s /\ j \in DOMAIN s /\ (s \o t)[i] = s[i] /\ (s \o t)[j] = s[j]
    BY <1>1
  <2>2. QED
    BY <2>1 DEF RowsFirst
<1>2. CASE j > Len(s)
  <2>1. j - Len(s) \in DOMAIN t /\ (s \o t)[j] = t[j - Len(s)]
    BY <1>2
  <2>2. QED
    BY <2>1 DEF ToSet
<1>3. QED
  BY <1>1, <1>2

(* The runner, or a launch, begins.                                        *)
LEMMA RunnerBeginsNews ==
  ASSUME FollowInv, TendedInv, RunnerActs \/ Launch PROVE TendedInv'
<1>1. /\ UNCHANGED <<log, busVars, socketVars, pageVars>> /\ Task = <<>>
      /\ todo'["request"] = todo["request"] /\ todo \in [Writers -> Seq(Steps(Len(log)))]
  BY DEF RunnerActs, RunnerLine, RunnerAsks, PromptCloses, RunnerExits, Launch, Begins, Task,
         FollowInv, LogInv, Writers
<1>2. Closes /\ (~running => held = {}) /\ \A p : Settled(p)
  BY <1>1, IdleFacts DEF TendedInv
<1>3. \A steps : todo' = [todo EXCEPT !["runner"] = steps] => Task' = steps
  BY <1>1 DEF Task, Writers
<1>4. Pending' = Pending
  BY <1>1 DEF Pending
<1>5. ToSet(todo'["request"]) \subseteq RequestChores(Len(log'))
  BY <1>1 DEF TendedInv, TaskInv
<1>7. ASSUME (\E p \in Prompts : Asks(p))' \/ Closes',
             ASSUME NEW p \in Prompts, Settled(p)'
             PROVE  /\ p \in held' <=> p \in held
                    /\ running' \/ reading.at = "pending" => (p \in Pending <=> p \in held)
      PROVE  TendedInv'
  <2>1. TaskInv'
    BY <1>5, <1>7 DEF TaskInv
  <2>2. LogTells'
    BY <1>1, <1>4, <1>7 DEF LogTells, socketVars
  <2>3. NewsInv'
    BY <1>1, <1>2, <1>7, NewsKept DEF TendedInv
  <2>4. QED
    BY <2>1, <2>2, <2>3 DEF TendedInv
<1>8. \A p \in Prompts : running \/ reading.at = "pending" => (p \in Pending <=> p \in held)
  BY <1>2 DEF TendedInv, LogTells
<1>9. CASE RunnerLine
  <2>1. Task' = <<Write(Line)>> /\ running /\ UNCHANGED <<running, held>>
    BY <1>3, <1>9 DEF Served, RunnerLine, Begins
  <2>2. ToSet(Task') = {Write(Line)} /\ RowsFirst(Task')
    BY <2>1 DEF ToSet, RowsFirst
  <2>3. ASSUME NEW p PROVE ~Closing(p)' /\ Emit(Resolve(p)) \notin ToSet(Task')
                           /\ WriteOnly(Closed(p)) \notin ToSet(Task')
    BY <2>2, StepsDiffer DEF Closing
  <2>4. Leave \notin ToSet(Task')
    BY <2>2, StepsDiffer
  <2>5. Closes'
    BY <2>1, <2>2, <2>3, <2>4 DEF Closes, Chores
  <2>6. QED
    BY <1>7, <1>8, <2>1, <2>5
<1>10. CASE \E p \in Prompts : RunnerAsks(p)
  <2>1. PICK p \in Prompts : RunnerAsks(p)
    BY <1>10
  <2>2. Task' = <<Write(Asked(p)), Hold(p)>> /\ running /\ UNCHANGED <<running, held>>
    BY <1>3, <2>1 DEF Served, RunnerAsks, Begins
  <2>3. Asks(p)'
    BY <2>2 DEF Asks
  <2>4. QED
    BY <1>7, <1>8, <2>2, <2>3
<1>11. CASE \E p \in Prompts : PromptCloses(p)
  <2>1. PICK p \in Prompts : PromptCloses(p)
    BY <1>11
  <2>2. Task' = <<Close(p)>> /\ running /\ UNCHANGED running /\ held' = held \ {p}
    BY <1>3, <2>1 DEF Served, PromptCloses, Begins
  <2>3. ToSet(Task') = {Close(p)} /\ RowsFirst(Task')
    BY <2>2 DEF ToSet, RowsFirst
  <2>4. ASSUME NEW q PROVE /\ Closing(q)' <=> q = p
                           /\ Emit(Resolve(q)) \notin ToSet(Task')
                           /\ WriteOnly(Closed(q)) \notin ToSet(Task')
    BY <2>3, StepsDiffer DEF Closing
  <2>5. Leave \notin ToSet(Task')
    BY <2>3, StepsDiffer
  <2>6. Closes'
    BY <2>2, <2>3, <2>4, <2>5 DEF Closes, Chores
  <2>7. QED
    BY <1>7, <1>8, <2>2, <2>4, <2>6 DEF Settled
<1>12. CASE RunnerExits
  <2> DEFINE open == SetToSeq(held)
             closes == [i \in DOMAIN open |-> Close(open[i])]
             end == <<Write(Line), Leave>>
  <2>1. held \in SUBSET Prompts
    BY DEF FollowInv, LogInv
  <2>2. open \in Seq(held) /\ ToSet(open) = held
    BY <2>1, SetToSeqFacts, SetToSeqOnto
  <2>3. Task' = closes \o end /\ running /\ UNCHANGED running /\ held' = {}
    BY <1>3, <1>12 DEF Served, RunnerExits, Begins
  <2> HIDE DEF open
  <2>4. ToSet(closes) = {Close(p) : p \in held} /\ Len(closes) = Len(open)
    BY <2>2 DEF ToSet
  <2>5. closes \in Seq({Close(p) : p \in held} \union {Write(Line), Leave})
    BY <2>2
  <2>6. end \in Seq({Close(p) : p \in held} \union {Write(Line), Leave}) /\ ToSet(end) = {Write(Line), Leave}
    BY DEF ToSet
  <2> HIDE DEF closes, end
  <2>7. ToSet(Task') = {Close(p) : p \in held} \union {Write(Line), Leave}
    BY <2>3, <2>4, <2>5, <2>6, ToSetConcat
  <2>8. \A s \in ToSet(Task') : s.do # "write_only"
    BY <2>7, StepsDiffer
  <2>9. RowsFirst(Task')
    BY <2>8 DEF RowsFirst, ToSet
  <2>10. ASSUME NEW p PROVE /\ Closing(p)' <=> p \in held
                            /\ Emit(Resolve(p)) \notin ToSet(Task')
                            /\ WriteOnly(Closed(p)) \notin ToSet(Task')
    BY <2>7, StepsDiffer DEF Closing
  <2>11. Closes'
    BY <2>1, <2>3, <2>7, <2>9, <2>10 DEF Closes, Chores
  <2>12. QED
    BY <1>7, <1>8, <2>3, <2>10, <2>11 DEF Settled
<1>13. CASE Launch
  <2> DEFINE left == SetToSeq(Pending)
             rows == [i \in DOMAIN left |-> WriteOnly(Closed(left[i]))]
             news == [i \in DOMAIN left |-> Emit(Resolve(left[i]))]
             Rows == {WriteOnly(Closed(p)) : p \in Pending}
             Later == {Emit(Resolve(p)) : p \in Pending} \union {Write(Line), Serve}
  <2>1. Pending \in SUBSET Prompts
    BY DEF Pending
  <2>2. left \in Seq(Pending) /\ ToSet(left) = Pending
    BY <2>1, SetToSeqFacts, SetToSeqOnto
  <2>3. PICK first \in {<<>>, <<Write(Line)>>} :
          /\ Task' = rows \o news \o first \o <<Serve>>
          /\ held' = held /\ held = {} /\ running' = TRUE
    BY <1>2, <1>3, <1>13 DEF Launch, Begins
  <2> HIDE DEF left
  <2>4. /\ ToSet(rows) = Rows /\ rows \in Seq(Rows \union Later)
        /\ \A i \in DOMAIN rows : rows[i].do = "write_only"
    BY <2>2, StepsDiffer DEF ToSet
  <2>5. ToSet(news) = {Emit(Resolve(p)) : p \in Pending} /\ news \in Seq(Rows \union Later)
    BY <2>2 DEF ToSet
  <2> HIDE DEF rows, news
  <2>6. /\ ToSet(first) \subseteq {Write(Line)} /\ first \in Seq(Rows \union Later)
        /\ ToSet(<<Serve>>) = {Serve} /\ <<Serve>> \in Seq(Rows \union Later)
    <3>1. first \in Seq(Rows \union Later) /\ <<Serve>> \in Seq(Rows \union Later)
      BY SingleFacts
    <3>2. ToSet(<<>>) = {} /\ ToSet(<<Write(Line)>>) = {Write(Line)} /\ ToSet(<<Serve>>) = {Serve}
      BY DEF ToSet
    <3>3. QED
      BY <3>1, <3>2
  <2>7. /\ \A x \in Later : x.do # "write_only"
        /\ ToSet(news) \subseteq Later /\ ToSet(first) \subseteq Later /\ ToSet(<<Serve>>) \subseteq Later
    BY <2>5, <2>6, StepsDiffer
  <2> HIDE DEF Later
  <2>8. /\ ToSet(rows \o news) = ToSet(rows) \union ToSet(news)
        /\ RowsFirst(rows \o news) /\ rows \o news \in Seq(Rows \union Later)
    <3>1. RowsFirst(rows)
      BY <2>4 DEF RowsFirst
    <3>2. QED
      BY <2>4, <2>5, <2>7, <3>1, ToSetConcat, RowsFirstConcat, ConcatFacts
  <2> DEFINE S == Rows \union Later
             closings == rows \o news
             sayings == closings \o first
  <2> HIDE DEF S, closings, sayings
  <2>9. ToSet(sayings) = ToSet(closings) \union ToSet(first) /\ RowsFirst(sayings) /\ sayings \in Seq(S)
    <3>1. closings \in Seq(S) /\ RowsFirst(closings) /\ first \in Seq(S)
      BY <2>6, <2>8 DEF S, closings
    <3>2. \A x \in ToSet(first) : x.do # "write_only"
      BY <2>7
    <3>3. QED
      BY <3>1, <3>2, ToSetConcat, RowsFirstConcat, ConcatFacts DEF sayings
  <2>10. ToSet(Task') = ToSet(sayings) \union {Serve} /\ RowsFirst(Task')
    <3> DEFINE last == <<Serve>>
    <3>1. Task' = sayings \o last /\ last \in Seq(S) /\ ToSet(last) = {Serve}
      BY <2>3, <2>6 DEF S, closings, sayings
    <3>2. \A x \in ToSet(last) : x.do # "write_only"
      BY <2>7
    <3> HIDE DEF last
    <3>3. RowsFirst(sayings \o last) /\ ToSet(sayings \o last) = ToSet(sayings) \union ToSet(last)
      BY <2>9, <3>1, <3>2, RowsFirstConcat, ToSetConcat
    <3>4. QED
      BY <3>1, <3>3
  <2>11. /\ Rows \union {Emit(Resolve(p)) : p \in Pending} \subseteq ToSet(Task')
         /\ ToSet(Task') \subseteq Rows \union {Emit(Resolve(p)) : p \in Pending} \union {Write(Line), Serve}
    BY <2>4, <2>5, <2>6, <2>8, <2>9, <2>10 DEF closings
  <2>12. ASSUME NEW p PROVE /\ Closing(p)' <=> p \in Pending
                            /\ Emit(Resolve(p)) \in ToSet(Task') <=> p \in Pending
                            /\ WriteOnly(Closed(p)) \in ToSet(Task') <=> p \in Pending
    BY <2>11, StepsDiffer DEF Closing
  <2>13. Closes'
    BY <2>1, <2>3, <2>10, <2>11, <2>12 DEF Closes, Chores
  <2>14. QED
    BY <1>7, <2>3, <2>12, <2>13 DEF Settled
<1>14. QED
  BY <1>9, <1>10, <1>11, <1>12, <1>13 DEF RunnerActs

(* A broadcast: what it says of a prompt is the truth, if it settles it.   *)
LEMMA NewsBroadcast ==
  ASSUME FollowInv, NewsInv, NEW m \in Messages(Len(log)), Broadcast(m),
         UNCHANGED <<socketVars, pageVars>>,
         ASSUME NEW p \in Prompts, Settled(p)'
         PROVE  \/ Tells(m, p) /\ (Says(m, p) <=> p \in held')
                \/ ~Tells(m, p) /\ Settled(p) /\ (p \in held' <=> p \in held)
  PROVE  NewsInv'
<1>1. cards' \subseteq Prompts /\ link' \in {"up", "down"} /\ (link' = "down" => bus' = <<>>)
  BY BroadcastTells DEF NewsInv, busVars, socketVars, pageVars
<1>2. ASSUME NEW p \in Prompts, Settled(p)'
      PROVE  BusTells(p)' /\ ((link = "up" /\ ~blind /\ ~Refreshing)' => PageTells(p)')
  <2>1. CASE Tells(m, p) /\ (Says(m, p) <=> p \in held') /\ link = "up"
    <3>1. LastSays(bus', p, held')
      BY <2>1, BroadcastTells
    <3>2. ~Mute(bus', p)
      BY <3>1, LastIsNotMute
    <3>3. QED
      BY <3>1, <3>2 DEF BusTells, PageTells
  <2>2. CASE link # "up" /\ Tells(m, p)
    <3>1. link' = "down" /\ bus' = <<>>
      BY <1>1, <2>2 DEF NewsInv, socketVars
    <3>2. BusTells(p)'
      BY <3>1 DEF BusTells, Mute
    <3>3. QED
      BY <3>1, <3>2
  <2>3. CASE ~Tells(m, p) /\ Settled(p) /\ (p \in held' <=> p \in held)
    <3>1. BusTells(p) /\ (link = "up" /\ ~blind /\ ~Refreshing => PageTells(p))
      BY <2>3 DEF NewsInv
    <3>2. Mute(bus, p) \/ LastSays(bus, p, held')
      BY <2>3, <3>1 DEF BusTells, LastSays
    <3>3. BusTells(p)'
      BY <2>3, <3>2, BroadcastTells DEF BusTells
    <3>4. ASSUME (link = "up" /\ ~blind /\ ~Refreshing)', Mute(bus', p)
          PROVE  PageTells(p)'
      <4>1. ~blind /\ Mute(bus, p)
        BY <2>3, <3>4, BroadcastTells
      <4>2. link = "up" /\ ~Refreshing
        BY <3>4 DEF Refreshing, socketVars
      <4>3. PageTells(p)
        BY <3>1, <4>1, <4>2
      <4>4. QED
        BY <2>3, <4>1, <4>3 DEF PageTells, LastSays, socketVars, pageVars
    <3>5. ~Mute(bus', p) => PageTells(p)'
      BY DEF PageTells
    <3>6. QED
      BY <3>3, <3>4, <3>5
  <2>4. QED
    BY <1>2, <2>1, <2>2, <2>3
<1>3. QED
  BY <1>1, <1>2 DEF NewsInv

LEMMA ChoresGrow ==
  ASSUME NEW h \in Nat
  PROVE  Chores(h) \subseteq Chores(h + 1) /\ RequestChores(h) \subseteq RequestChores(h + 1)
<1>1. 1..h \subseteq 1..h + 1
  OBVIOUS
<1>2. QED
  BY <1>1 DEF Chores, RequestChores

(* The request's task, which never speaks of a prompt.                     *)
LEMMA RequestNews ==
  ASSUME FollowInv, TendedInv, RequestLogs \/ RequestDropped \/ WriterSteps("request")
  PROVE  TendedInv'
<1> DEFINE h == Len(log)
           mine == todo["request"]
<1>1. /\ h \in Nat /\ log \in Seq(Row) /\ mine \in Seq(Steps(h))
      /\ ToSet(mine) \subseteq RequestChores(h)
      /\ todo \in [Writers -> Seq(Steps(h))] /\ Writers = {"runner", "request"}
  BY LengthFacts DEF FollowInv, LogInv, TendedInv, TaskInv, Writers
<1>2. /\ Task' = Task /\ UNCHANGED <<socketVars, pageVars>>
  BY <1>1 DEF RequestLogs, Begins, RequestDropped, WriterSteps, Task
<1>3. ASSUME UNCHANGED <<running, held>>, log' = log \/ log' = Append(log, Line),
             ToSet(todo'["request"]) \subseteq RequestChores(Len(log'))
      PROVE  TaskInv' /\ LogTells'
  <2>1. Len(log') \in {h, h + 1}
    BY <1>1, <1>3, RowFacts, AppendFacts
  <2>2. \A p \in Prompts : (p \in Pending)' <=> p \in Pending
    <3>1. CASE log' = log
      BY <3>1 DEF Pending
    <3>2. CASE log' = Append(log, Line)
      <4>1. \A p : Line # Asked(p) /\ Line # Closed(p)
        BY DEF Line, Asked, Closed
      <4>2. QED
        BY <1>1, <3>2, <4>1, RowFacts, PendingAppend
    <3>3. QED
      BY <1>3, <3>1, <3>2
  <2>3. 1..h \subseteq 1..Len(log') /\ Chores(h) \subseteq Chores(Len(log'))
    BY <1>1, <2>1, ChoresGrow
  <2>4. ASSUME NEW p \in Prompts, Asks(p) PROVE Asks(p)'
    <3>1. running' <=> running
      BY <1>3
    <3>2. QED
      BY <1>2, <2>2, <2>3, <2>4, <3>1 DEF Asks
  <2>5. ASSUME Closes PROVE Closes'
    BY <1>2, <1>3, <2>2, <2>3, <2>5 DEF Closes, Closing
  <2>6. TaskInv'
    BY <1>3, <2>4, <2>5 DEF TendedInv, TaskInv
  <2>7. LogTells'
    BY <1>2, <1>3, <2>2 DEF TendedInv, LogTells, Settled, Closing, socketVars
  <2>8. QED
    BY <2>6, <2>7
<1>4. \A p : Settled(p)' <=> Settled(p)
  BY <1>2 DEF Settled, Closing
<1>5. CASE RequestLogs
  <2>1. UNCHANGED <<log, running, held, busVars>> /\ todo'["request"] = <<Write(Line)>>
    BY <1>1, <1>5 DEF RequestLogs, Begins
  <2>2. ToSet(<<Write(Line)>>) = {Write(Line)}
    BY DEF ToSet
  <2>3. ToSet(todo'["request"]) \subseteq RequestChores(Len(log'))
    BY <2>1, <2>2 DEF RequestChores
  <2>4. NewsInv'
    BY <1>2, <1>4, <2>1, NewsKept DEF TendedInv
  <2>5. QED
    BY <1>3, <2>1, <2>3, <2>4 DEF TendedInv
<1>6. CASE WriterSteps("request")
  <2> DEFINE step == Head(mine)
             rest == Tail(mine)
  <2>1. /\ mine # <<>> /\ rest \in Seq(Steps(h))
        /\ ToSet(mine) = {step} \union ToSet(rest)
    BY <1>1, <1>6, TailFacts, ToSetTail DEF WriterSteps
  <2>2. step \in RequestChores(h) /\ ToSet(rest) \subseteq RequestChores(h)
    BY <1>1, <2>1
  <2>3. CASE step = Write(Line)
    <3>1. step.do = "write" /\ step.row = Line
      BY <2>3 DEF Write
    <3>2. /\ log' = Append(log, Line) /\ todo'["request"] = <<Emit(Event(h + 1))>> \o rest
          /\ UNCHANGED <<running, held, busVars>>
      BY <1>1, <1>6, <3>1 DEF WriterSteps
    <3>3. Len(log') = h + 1
      BY <1>1, <3>2, RowFacts, AppendFacts
    <3>4. ToSet(todo'["request"]) = {Emit(Event(h + 1))} \union ToSet(rest)
      <4> DEFINE S == Steps(h) \union {Emit(Event(h + 1))}
      <4>1. <<Emit(Event(h + 1))>> \in Seq(S) /\ rest \in Seq(S)
        BY <2>1
      <4>2. ToSet(<<Emit(Event(h + 1))>>) = {Emit(Event(h + 1))}
        BY DEF ToSet
      <4> HIDE DEF S
      <4>3. ToSet(<<Emit(Event(h + 1))>> \o rest)
              = ToSet(<<Emit(Event(h + 1))>>) \union ToSet(rest)
        BY <4>1, ToSetConcat
      <4>4. QED
        BY <3>2, <4>2, <4>3
    <3>5. h + 1 \in 1..h + 1 /\ RequestChores(h) \subseteq RequestChores(h + 1)
      BY <1>1, ChoresGrow
    <3>6. Emit(Event(h + 1)) \in RequestChores(h + 1)
      BY <3>5 DEF RequestChores
    <3>7. ToSet(todo'["request"]) \subseteq RequestChores(Len(log'))
      BY <2>2, <3>3, <3>4, <3>5, <3>6
    <3>8. NewsInv'
      BY <1>2, <1>4, <3>2, NewsKept DEF TendedInv
    <3>9. QED
      BY <1>3, <3>2, <3>7, <3>8 DEF TendedInv
  <2>4. CASE \E n \in 1..h : step = Emit(Event(n))
    <3>1. PICK n \in 1..h : step = Emit(Event(n))
      BY <2>4
    <3>2. step.do = "emit" /\ step.msg = Event(n)
      BY <3>1 DEF Emit
    <3>3. /\ Broadcast(Event(n)) /\ todo'["request"] = rest
          /\ UNCHANGED <<log, running, held>>
      BY <1>1, <1>6, <3>2 DEF WriterSteps
    <3>4. Event(n) \in Messages(h)
      BY DEF Messages
    <3>5. NewsInv'
      BY <1>2, <1>4, <3>3, <3>4, TellsFacts, NewsBroadcast DEF TendedInv
    <3>6. QED
      BY <1>3, <2>2, <3>3, <3>5 DEF TendedInv
  <2>5. QED
    BY <2>2, <2>3, <2>4 DEF RequestChores
<1>7. CASE RequestDropped
  <2>1. UNCHANGED <<log, running, held, busVars>> /\ todo'["request"] = <<>>
    BY <1>1, <1>7 DEF RequestDropped
  <2>2. ToSet(<<>>) = {}
    BY DEF ToSet
  <2>3. NewsInv'
    BY <1>2, <1>4, <2>1, NewsKept DEF TendedInv
  <2>4. QED
    BY <1>3, <2>1, <2>2, <2>3 DEF TendedInv
<1>8. QED
  BY <1>5, <1>6, <1>7

LEMMA PairFacts == ASSUME NEW a, NEW b PROVE <<a>> \o <<b>> = <<a, b>>
<1> DEFINE s == <<a>> \o <<b>>
           t == <<a, b>>
<1>1. s \in Seq({a, b}) /\ Len(s) = 2 /\ s[1] = a /\ s[2] = b
  OBVIOUS
<1>2. t \in Seq({a, b}) /\ Len(t) = 2 /\ t[1] = a /\ t[2] = b
  OBVIOUS
<1> HIDE DEF s, t
<1>3. s = [i \in 1..2 |-> s[i]] /\ t = [i \in 1..2 |-> t[i]]
  BY <1>1, <1>2
<1>4. \A i \in 1..2 : s[i] = t[i]
  BY <1>1, <1>2
<1>5. s = t
  BY <1>3, <1>4
<1>6. QED
  BY <1>5 DEF s, t

(* The runner raises a prompt: the row, its event, and the prompt is held. *)
LEMMA RaisingNews ==
  ASSUME FollowInv, TendedInv, WriterSteps("runner"), NEW p \in Prompts, Asks(p)
  PROVE  TendedInv'
<1> DEFINE h == Len(log)
           step == Head(Task)
           rest == Tail(Task)
<1>1. /\ h \in Nat /\ log \in Seq(Row) /\ todo \in [Writers -> Seq(Steps(h))]
      /\ "runner" \in Writers /\ ToSet(todo["request"]) \subseteq RequestChores(h)
  BY LengthFacts DEF FollowInv, LogInv, TendedInv, TaskInv, Writers
<1>2. /\ UNCHANGED <<socketVars, pageVars>>
      /\ \A steps : todo' = [todo EXCEPT !["runner"] = steps] =>
                      Task' = steps /\ todo'["request"] = todo["request"]
  BY <1>1 DEF WriterSteps, Task, Writers
<1>3. \A q : ~Settled(q)' \/ Task' = <<>> \/ Hold(q) \notin ToSet(Task')
  BY DEF Settled
<1>4. ASSUME NEW q \in Prompts, q # p, Task \in {<<Write(Asked(p)), Hold(p)>>, <<Hold(p)>>}
                 \/ \E n : Task = <<Emit(Event(n)), Hold(p)>>
      PROVE  Settled(q)
  <2>1. \A s \in ToSet(Task) : s \in {Write(Asked(p)), Hold(p)} \/ \E n : s = Emit(Event(n))
    <3>1. CASE Task = <<Write(Asked(p)), Hold(p)>>
      BY <3>1 DEF ToSet
    <3>2. CASE Task = <<Hold(p)>>
      BY <3>2 DEF ToSet
    <3>3. CASE \E n : Task = <<Emit(Event(n)), Hold(p)>>
      <4>1. PICK n : Task = <<Emit(Event(n)), Hold(p)>>
        BY <3>3
      <4>2. QED
        BY <4>1 DEF ToSet
    <3>4. QED
      BY <1>4, <3>1, <3>2, <3>3
  <2>2. QED
    BY <1>4, <2>1, StepsDiffer DEF Settled, Closing
<1>5. CASE Task = <<Write(Asked(p)), Hold(p)>>
  <2>1. step = Write(Asked(p)) /\ rest = <<Hold(p)>>
    BY <1>5
  <2> HIDE DEF step, rest
  <2>2. /\ log' = Append(log, Asked(p)) /\ UNCHANGED <<running, held, busVars>>
        /\ todo' = [todo EXCEPT !["runner"] = <<Emit(Event(h + 1))>> \o rest]
    BY <2>1 DEF WriterSteps, Task, Write, step, rest
  <2>3. Task' = <<Emit(Event(h + 1)), Hold(p)>> /\ todo'["request"] = todo["request"]
    <3>1. <<Emit(Event(h + 1))>> \o <<Hold(p)>> = <<Emit(Event(h + 1)), Hold(p)>>
      BY PairFacts
    <3>2. QED
      BY <1>2, <2>1, <2>2, <3>1
  <2>4. Asked(p) \in Row /\ Len(log') = h + 1
    BY <1>1, <2>2, RowFacts, AppendFacts
  <2>5. \A q \in Prompts : (q \in Pending)' <=> q = p \/ q \in Pending
    <3>1. \A q : Asked(p) = Asked(q) <=> q = p
      BY DEF Asked
    <3>2. \A q : Asked(p) # Closed(q)
      BY DEF Asked, Closed
    <3>3. QED
      BY <1>1, <2>2, <2>4, <3>1, <3>2, PendingAppend
  <2>6. h + 1 \in 1..Len(log') /\ RequestChores(h) \subseteq RequestChores(Len(log'))
    BY <1>1, <2>4, ChoresGrow
  <2>7. Asks(p)'
    BY <2>2, <2>3, <2>5, <2>6 DEF Asks
  <2>8. TaskInv'
    BY <1>1, <2>2, <2>3, <2>6, <2>7 DEF TaskInv
  <2>9. ASSUME NEW q \in Prompts, Settled(q)' PROVE q # p /\ Settled(q)
    <3>1. Hold(p) \in ToSet(Task')
      BY <2>3 DEF ToSet
    <3>2. q # p
      BY <2>9, <3>1 DEF Settled
    <3>3. QED
      BY <1>4, <1>5, <3>2
  <2>10. LogTells'
    BY <1>2, <2>2, <2>5, <2>9 DEF TendedInv, LogTells, socketVars
  <2>11. NewsInv'
    BY <1>2, <2>2, <2>9, NewsKept DEF TendedInv
  <2>12. QED
    BY <2>8, <2>10, <2>11 DEF TendedInv
<1>6. CASE p \in Pending /\ \E n \in 1..h : Task = <<Emit(Event(n)), Hold(p)>>
  <2>1. PICK n \in 1..h : Task = <<Emit(Event(n)), Hold(p)>>
    BY <1>6
  <2>2. step = Emit(Event(n)) /\ rest = <<Hold(p)>>
    BY <2>1
  <2> HIDE DEF step, rest
  <2>3. /\ Broadcast(Event(n)) /\ UNCHANGED <<log, running, held>>
        /\ todo' = [todo EXCEPT !["runner"] = rest]
    BY <2>2 DEF WriterSteps, Task, Emit, step, rest
  <2>4. Task' = <<Hold(p)>> /\ todo'["request"] = todo["request"] /\ Pending' = Pending
    BY <1>2, <2>2, <2>3 DEF Pending
  <2>5. TaskInv'
    BY <1>1, <1>6, <2>3, <2>4 DEF TaskInv, Asks
  <2>6. ASSUME NEW q \in Prompts, Settled(q)' PROVE q # p /\ Settled(q)
    <3>1. Hold(p) \in ToSet(Task')
      BY <2>4 DEF ToSet
    <3>2. q # p
      BY <2>6, <3>1 DEF Settled
    <3>3. QED
      BY <1>4, <2>1, <3>2
  <2>7. LogTells'
    BY <1>2, <2>3, <2>4, <2>6 DEF TendedInv, LogTells, socketVars
  <2>8. Event(n) \in Messages(h)
    BY DEF Messages
  <2>9. NewsInv'
    BY <1>2, <2>3, <2>6, <2>8, TellsFacts, NewsBroadcast DEF TendedInv
  <2>10. QED
    BY <2>5, <2>7, <2>9 DEF TendedInv
<1>7. CASE p \in Pending /\ Task = <<Hold(p)>>
  <2>1. step = Hold(p) /\ rest = <<>>
    BY <1>7
  <2> HIDE DEF step, rest
  <2>2. /\ Broadcast(Ask(p)) /\ UNCHANGED <<log, running>> /\ held' = held \union {p}
        /\ todo' = [todo EXCEPT !["runner"] = rest]
    BY <2>1 DEF WriterSteps, Task, Hold, step, rest
  <2>3. Task' = <<>> /\ todo'["request"] = todo["request"] /\ Pending' = Pending
    BY <1>2, <2>1, <2>2 DEF Pending
  <2>4. ToSet(Task') = {}
    BY <2>3 DEF ToSet
  <2>5. Closes'
    <3>1. running'
      BY <2>2 DEF Asks
    <3>2. RowsFirst(Task')
      BY <2>4, NoRows
    <3>3. QED
      BY <2>4, <3>1, <3>2 DEF Closes, Closing
  <2>6. TaskInv'
    BY <1>1, <2>2, <2>3, <2>5 DEF TaskInv
  <2>7. \A q \in Prompts : q # p => Settled(q)
    BY <1>4, <1>7
  <2>8. LogTells'
    BY <1>2, <1>7, <2>2, <2>3, <2>7 DEF TendedInv, LogTells, socketVars
  <2>9. Ask(p) \in Messages(h)
    BY DEF Messages
  <2>10. NewsInv'
    <3>1. ASSUME NEW q \in Prompts
          PROVE  \/ Tells(Ask(p), q) /\ (Says(Ask(p), q) <=> q \in held')
                 \/ ~Tells(Ask(p), q) /\ Settled(q) /\ (q \in held' <=> q \in held)
      BY <2>2, <2>7, TellsFacts
    <3>2. QED
      BY <1>2, <2>2, <2>9, <3>1, NewsBroadcast DEF TendedInv
  <2>11. QED
    BY <2>6, <2>8, <2>10 DEF TendedInv
<1>8. QED
  BY <1>5, <1>6, <1>7 DEF Asks

(* The runner closes prompts, or does what has nothing to do with them.    *)
LEMMA ClosingNews ==
  ASSUME FollowInv, TendedInv, WriterSteps("runner"), Closes PROVE TendedInv'
<1> DEFINE h == Len(log)
           step == Head(Task)
           rest == Tail(Task)
           Then(steps) == todo' = [todo EXCEPT !["runner"] = steps]
<1>1. /\ h \in Nat /\ log \in Seq(Row) /\ todo \in [Writers -> Seq(Steps(h))]
      /\ "runner" \in Writers /\ ToSet(todo["request"]) \subseteq RequestChores(h)
      /\ Task \in Seq(Steps(h)) /\ Task # <<>>
  BY LengthFacts DEF FollowInv, LogInv, TendedInv, TaskInv, Writers, Task, WriterSteps
<1>2. /\ UNCHANGED <<socketVars, pageVars>>
      /\ \A steps : Then(steps) => Task' = steps /\ todo'["request"] = todo["request"]
  BY <1>1 DEF WriterSteps, Task, Writers
<1>3. rest \in Seq(Steps(h)) /\ ToSet(Task) = {step} \union ToSet(rest)
  BY <1>1, TailFacts, ToSetTail
<1>4. /\ RowsFirst(rest) /\ step \in Chores(h) /\ ToSet(rest) \subseteq Chores(h)
      /\ step.do # "write_only" => \A s \in ToSet(Task) : s.do # "write_only"
  BY <1>1, <1>3, RowsFirstFacts DEF Closes
<1>5. \A p \in Prompts : Hold(p) \notin ToSet(Task)
  BY StepsDiffer DEF Closes, Chores
<1> HIDE DEF h, step, rest
<1>6. ASSUME NEW n, Then(<<Emit(Event(n))>> \o rest)
      PROVE  ToSet(Task') = {Emit(Event(n))} \union ToSet(rest)
  <2> DEFINE S == Steps(h) \union {Emit(Event(n))}
  <2>1. <<Emit(Event(n))>> \in Seq(S) /\ rest \in Seq(S)
    BY <1>3
  <2>2. ToSet(<<Emit(Event(n))>>) = {Emit(Event(n))}
    BY DEF ToSet
  <2> HIDE DEF S
  <2>3. ToSet(<<Emit(Event(n))>> \o rest) = ToSet(<<Emit(Event(n))>>) \union ToSet(rest)
    BY <2>1, ToSetConcat
  <2>4. QED
    BY <1>2, <1>6, <2>2, <2>3
<1>7. ASSUME Closes', LogTells', NewsInv', todo'["request"] = todo["request"],
             Len(log') \in {h, h + 1}
      PROVE  TendedInv'
  BY <1>1, <1>7, ChoresGrow DEF TendedInv, TaskInv
<1>8. CASE step = Write(Line)
  <2>1. /\ log' = Append(log, Line) /\ UNCHANGED <<running, held, busVars>>
        /\ Then(<<Emit(Event(h + 1))>> \o rest)
    BY <1>8 DEF WriterSteps, Task, Write, h, step, rest
  <2>2. ToSet(Task') = {Emit(Event(h + 1))} \union ToSet(rest)
    BY <1>6, <2>1
  <2>3. Len(log') = h + 1
    BY <1>1, <2>1, RowFacts, AppendFacts DEF h
  <2>4. \A p \in Prompts : (p \in Pending)' <=> p \in Pending
    <3>1. \A p : Line # Asked(p) /\ Line # Closed(p)
      BY DEF Line, Asked, Closed
    <3>2. QED
      BY <1>1, <2>1, <3>1, RowFacts, PendingAppend
  <2>5. ASSUME NEW p
        PROVE  /\ Close(p) \in ToSet(Task') <=> Close(p) \in ToSet(Task)
               /\ WriteOnly(Closed(p)) \in ToSet(Task') <=> WriteOnly(Closed(p)) \in ToSet(Task)
               /\ Emit(Resolve(p)) \in ToSet(Task') <=> Emit(Resolve(p)) \in ToSet(Task)
               /\ Hold(p) \notin ToSet(Task') \/ Hold(p) \in ToSet(Task)
    BY <1>3, <1>8, <2>2, StepsDiffer
  <2>6. RowsFirst(Task')
    BY <1>3, <1>4, <1>8, <2>2, NoRows, StepsDiffer
  <2>7. Leave \in ToSet(Task') <=> Leave \in ToSet(Task)
    BY <1>3, <1>8, <2>2, StepsDiffer
  <2>8. ToSet(Task') \subseteq Chores(h + 1)
    <3>1. h + 1 \in 1..h + 1
      BY <1>1
    <3>2. Emit(Event(h + 1)) \in Chores(h + 1)
      BY <3>1 DEF Chores
    <3>3. QED
      BY <1>1, <1>4, <2>2, <3>2, ChoresGrow
  <2>9. Closes'
    BY <2>1, <2>3, <2>4, <2>5, <2>6, <2>7, <2>8 DEF Closes, Closing
  <2>10. \A p \in Prompts : Settled(p)' => Settled(p)
    BY <1>5, <2>5 DEF Settled, Closing
  <2>11. LogTells'
    BY <1>2, <2>1, <2>4, <2>10 DEF TendedInv, LogTells, socketVars
  <2>12. NewsInv'
    BY <1>2, <2>1, <2>10, NewsKept DEF TendedInv
  <2>13. QED
    BY <1>2, <1>7, <2>1, <2>3, <2>9, <2>11, <2>12
<1>9. CASE step = Leave
  <2>1. /\ running' = FALSE /\ UNCHANGED <<log, held, busVars>> /\ Then(rest)
    BY <1>9 DEF WriterSteps, Task, Leave, step, rest
  <2>2. Task' = rest /\ Pending' = Pending /\ held = {}
    BY <1>2, <1>3, <1>9, <2>1 DEF Pending, Closes
  <2>3. ASSUME NEW p
        PROVE  /\ Close(p) \in ToSet(Task') <=> Close(p) \in ToSet(Task)
               /\ WriteOnly(Closed(p)) \in ToSet(Task') <=> WriteOnly(Closed(p)) \in ToSet(Task)
               /\ Emit(Resolve(p)) \in ToSet(Task') <=> Emit(Resolve(p)) \in ToSet(Task)
    BY <1>3, <1>9, <2>2, StepsDiffer
  <2>4. Closes'
    BY <1>4, <2>1, <2>2, <2>3 DEF Closes, Closing, h
  <2>5. \A p \in Prompts : Settled(p)' => Settled(p)
    BY <1>5, <2>3 DEF Settled, Closing
  <2>6. LogTells'
    BY <1>2, <2>1, <2>2, <2>5 DEF TendedInv, LogTells, socketVars
  <2>7. NewsInv'
    BY <1>2, <2>1, <2>5, NewsKept DEF TendedInv
  <2>8. QED
    BY <1>1, <1>2, <1>7, <2>1, <2>4, <2>6, <2>7 DEF h
<1>10. CASE \E n \in 1..h : step = Emit(Event(n))
  <2>1. PICK n \in 1..h : step = Emit(Event(n))
    BY <1>10
  <2>2. Broadcast(Event(n)) /\ UNCHANGED <<log, running, held>> /\ Then(rest)
    BY <2>1 DEF WriterSteps, Task, Emit, step, rest
  <2>3. Task' = rest /\ Pending' = Pending
    BY <1>2, <2>2 DEF Pending
  <2>4. ASSUME NEW p
        PROVE  /\ Close(p) \in ToSet(Task') <=> Close(p) \in ToSet(Task)
               /\ WriteOnly(Closed(p)) \in ToSet(Task') <=> WriteOnly(Closed(p)) \in ToSet(Task)
               /\ Emit(Resolve(p)) \in ToSet(Task') <=> Emit(Resolve(p)) \in ToSet(Task)
    BY <1>3, <2>1, <2>3, StepsDiffer
  <2>5. Closes'
    BY <1>3, <1>4, <2>2, <2>3, <2>4 DEF Closes, Closing, h
  <2>6. \A p \in Prompts : Settled(p)' => Settled(p)
    BY <1>5, <2>4 DEF Settled, Closing
  <2>7. LogTells'
    BY <1>2, <2>2, <2>3, <2>6 DEF TendedInv, LogTells, socketVars
  <2>8. NewsInv'
    <3>1. Event(n) \in Messages(Len(log))
      BY DEF Messages, h
    <3>2. QED
      BY <1>2, <2>2, <2>6, <3>1, TellsFacts, NewsBroadcast DEF TendedInv
  <2>9. QED
    BY <1>1, <1>2, <1>7, <2>2, <2>5, <2>7, <2>8 DEF h
<1>11. CASE \E p \in Prompts : step = Close(p)
  <2>1. PICK p \in Prompts : step = Close(p)
    BY <1>11
  <2> DEFINE first == <<Emit(Event(h + 1)), Emit(Resolve(p))>>
  <2>2. /\ log' = Append(log, Closed(p)) /\ UNCHANGED <<running, held, busVars>>
        /\ Then(first \o rest)
    BY <2>1 DEF WriterSteps, Task, Close, h, step, rest
  <2>3. ToSet(Task') = {Emit(Event(h + 1)), Emit(Resolve(p))} \union ToSet(rest)
    <3> DEFINE S == Steps(h) \union {Emit(Event(h + 1)), Emit(Resolve(p))}
    <3>1. first \in Seq(S) /\ rest \in Seq(S)
      BY <1>3
    <3>2. ToSet(first) = {Emit(Event(h + 1)), Emit(Resolve(p))}
      BY DEF ToSet
    <3> HIDE DEF S, first
    <3>3. ToSet(first \o rest) = ToSet(first) \union ToSet(rest)
      BY <3>1, ToSetConcat
    <3>4. QED
      BY <1>2, <2>2, <3>2, <3>3
  <2> HIDE DEF first
  <2>4. Len(log') = h + 1
    BY <1>1, <2>2, RowFacts, AppendFacts DEF h
  <2>5. \A q \in Prompts : (q \in Pending)' <=> q \in Pending /\ q # p
    <3>1. \A q : Closed(p) # Asked(q) /\ (Closed(p) = Closed(q) <=> q = p)
      BY DEF Asked, Closed
    <3>2. QED
      BY <1>1, <2>2, <3>1, RowFacts, PendingAppend
  <2>6. ASSUME NEW q
        PROVE  /\ Close(q) \in ToSet(Task) <=> Close(q) \in ToSet(Task') \/ q = p
               /\ WriteOnly(Closed(q)) \notin ToSet(Task')
               /\ Emit(Resolve(q)) \in ToSet(Task') <=> Emit(Resolve(q)) \in ToSet(Task) \/ q = p
    <3>1. WriteOnly(Closed(q)) \notin ToSet(Task)
      BY <1>4, <2>1, StepsDiffer
    <3>2. QED
      BY <1>3, <2>1, <2>3, <3>1, StepsDiffer
  <2>7. RowsFirst(Task')
    BY <1>3, <1>4, <2>1, <2>3, NoRows, StepsDiffer
  <2>8. Leave \in ToSet(Task') <=> Leave \in ToSet(Task)
    BY <1>3, <2>1, <2>3, StepsDiffer
  <2>9. ToSet(Task') \subseteq Chores(h + 1)
    <3>1. h + 1 \in 1..h + 1
      BY <1>1
    <3>2. Emit(Event(h + 1)) \in Chores(h + 1) /\ Emit(Resolve(p)) \in Chores(h + 1)
      BY <3>1 DEF Chores
    <3>3. QED
      BY <1>1, <1>4, <2>3, <3>2, ChoresGrow
  <2>10. Closes'
    <3>1. \A q \in Prompts : Closing(q)' => Closing(q)
      BY <2>6 DEF Closing
    <3>2. \A q \in Prompts : Emit(Resolve(q)) \in ToSet(Task') =>
            Close(q) \in ToSet(Task') \/ (q \notin Pending)'
      BY <1>4, <2>1, <2>5, <2>6, StepsDiffer DEF Closes
    <3>3. QED
      BY <2>2, <2>4, <2>6, <2>7, <2>8, <2>9, <3>1, <3>2 DEF Closes
  <2>11. \A q \in Prompts : Settled(q)' => Settled(q) /\ q # p
    BY <1>5, <2>6 DEF Settled, Closing, Closes
  <2>12. LogTells'
    BY <1>2, <2>2, <2>5, <2>11 DEF TendedInv, LogTells, socketVars
  <2>13. NewsInv'
    BY <1>2, <2>2, <2>11, NewsKept DEF TendedInv
  <2>14. QED
    BY <1>2, <1>7, <2>2, <2>4, <2>10, <2>12, <2>13
<1>12. CASE \E p \in Prompts : step = WriteOnly(Closed(p))
  <2>1. PICK p \in Prompts : step = WriteOnly(Closed(p))
    BY <1>12
  <2>2. /\ log' = Append(log, Closed(p)) /\ UNCHANGED <<running, held, busVars>>
        /\ Then(rest)
    BY <2>1 DEF WriterSteps, Task, WriteOnly, step, rest
  <2>3. Task' = rest
    BY <1>2, <2>2
  <2>4. Len(log') = h + 1
    BY <1>1, <2>2, RowFacts, AppendFacts DEF h
  <2>5. \A q \in Prompts : (q \in Pending)' <=> q \in Pending /\ q # p
    <3>1. \A q : Closed(p) # Asked(q) /\ (Closed(p) = Closed(q) <=> q = p)
      BY DEF Asked, Closed
    <3>2. QED
      BY <1>1, <2>2, <3>1, RowFacts, PendingAppend
  <2>6. ASSUME NEW q
        PROVE  /\ Close(q) \in ToSet(Task') <=> Close(q) \in ToSet(Task)
               /\ WriteOnly(Closed(q)) \in ToSet(Task) <=>
                    WriteOnly(Closed(q)) \in ToSet(Task') \/ q = p
               /\ Emit(Resolve(q)) \in ToSet(Task') <=> Emit(Resolve(q)) \in ToSet(Task)
    BY <1>3, <2>1, <2>3, StepsDiffer
  <2>7. Leave \in ToSet(Task') <=> Leave \in ToSet(Task)
    BY <1>3, <2>1, <2>3, StepsDiffer
  <2>8. Closes'
    <3>1. \A q \in Prompts : Closing(q)' => Closing(q)
      BY <2>6 DEF Closing
    <3>2. \A q \in Prompts : Emit(Resolve(q)) \in ToSet(Task') =>
            \/ Close(q) \in ToSet(Task') \/ WriteOnly(Closed(q)) \in ToSet(Task')
            \/ q \notin Pending'
      BY <2>5, <2>6 DEF Closes
    <3>3. ToSet(Task') \subseteq Chores(h + 1)
      BY <1>1, <1>4, <2>3, ChoresGrow
    <3>4. QED
      BY <1>4, <2>2, <2>3, <2>4, <2>6, <2>7, <3>1, <3>2, <3>3 DEF Closes
  <2>9. \A q \in Prompts : Settled(q)' => Settled(q) /\ q # p
    BY <1>5, <2>6 DEF Settled, Closing, Closes
  <2>10. LogTells'
    BY <1>2, <2>2, <2>5, <2>9 DEF TendedInv, LogTells, socketVars
  <2>11. NewsInv'
    BY <1>2, <2>2, <2>9, NewsKept DEF TendedInv
  <2>12. QED
    BY <1>2, <1>7, <2>2, <2>4, <2>8, <2>10, <2>11
<1>13. CASE \E p \in Prompts : step = Emit(Resolve(p))
  <2>1. PICK p \in Prompts : step = Emit(Resolve(p))
    BY <1>13
  <2>2. Broadcast(Resolve(p)) /\ UNCHANGED <<log, running, held>> /\ Then(rest)
    BY <2>1 DEF WriterSteps, Task, Emit, step, rest
  <2>3. Task' = rest /\ Pending' = Pending /\ p \notin held
    BY <1>2, <1>3, <2>1, <2>2 DEF Pending, Closes, Closing
  <2>4. ASSUME NEW q
        PROVE  /\ Close(q) \in ToSet(Task') <=> Close(q) \in ToSet(Task)
               /\ WriteOnly(Closed(q)) \notin ToSet(Task)
               /\ WriteOnly(Closed(q)) \notin ToSet(Task')
               /\ Emit(Resolve(q)) \in ToSet(Task) <=> Emit(Resolve(q)) \in ToSet(Task') \/ q = p
    <3>1. WriteOnly(Closed(q)) \notin ToSet(Task)
      BY <1>4, <2>1, StepsDiffer
    <3>2. QED
      BY <1>3, <2>1, <2>3, <3>1, StepsDiffer
  <2>5. Leave \in ToSet(Task') <=> Leave \in ToSet(Task)
    BY <1>3, <2>1, <2>3, StepsDiffer
  <2>6. Closes'
    BY <1>4, <2>2, <2>3, <2>4, <2>5 DEF Closes, Closing, h
  <2>7. \A q \in Prompts : Settled(q)' => Settled(q) \/ q = p
    BY <1>5, <2>4 DEF Settled, Closing
  <2>8. Settled(p)' => p \notin Pending
    BY <1>3, <2>1, <2>4 DEF Settled, Closing, Closes
  <2>9. LogTells'
    BY <1>2, <2>2, <2>3, <2>7, <2>8 DEF TendedInv, LogTells, socketVars
  <2>10. NewsInv'
    <3>1. Resolve(p) \in Messages(Len(log))
      BY DEF Messages
    <3>2. ASSUME NEW q \in Prompts, Settled(q)'
          PROVE  \/ Tells(Resolve(p), q) /\ (Says(Resolve(p), q) <=> q \in held')
                 \/ ~Tells(Resolve(p), q) /\ Settled(q) /\ (q \in held' <=> q \in held)
      BY <2>2, <2>3, <2>7, <3>2, TellsFacts
    <3>3. QED
      BY <1>2, <2>2, <3>1, <3>2, NewsBroadcast DEF TendedInv
  <2>11. QED
    BY <1>1, <1>2, <1>7, <2>2, <2>6, <2>9, <2>10 DEF h
<1>14. CASE step = Serve
  <2>1. UNCHANGED <<log, running, held, busVars>> /\ Then(rest)
    BY <1>14 DEF WriterSteps, Task, Serve, step, rest
  <2>2. Task' = rest /\ Pending' = Pending
    BY <1>2, <2>1 DEF Pending
  <2>3. ASSUME NEW p
        PROVE  /\ Close(p) \in ToSet(Task') <=> Close(p) \in ToSet(Task)
               /\ WriteOnly(Closed(p)) \in ToSet(Task') <=> WriteOnly(Closed(p)) \in ToSet(Task)
               /\ Emit(Resolve(p)) \in ToSet(Task') <=> Emit(Resolve(p)) \in ToSet(Task)
    BY <1>3, <1>14, <2>2, StepsDiffer
  <2>4. Leave \in ToSet(Task') <=> Leave \in ToSet(Task)
    BY <1>3, <1>14, <2>2, StepsDiffer
  <2>5. Closes'
    BY <1>4, <2>1, <2>2, <2>3, <2>4 DEF Closes, Closing, h
  <2>6. \A p \in Prompts : Settled(p)' => Settled(p)
    BY <1>5, <2>3 DEF Settled, Closing
  <2>7. LogTells'
    BY <1>2, <2>1, <2>2, <2>6 DEF TendedInv, LogTells, socketVars
  <2>8. NewsInv'
    BY <1>2, <2>1, <2>6, NewsKept DEF TendedInv
  <2>9. QED
    BY <1>1, <1>2, <1>7, <2>1, <2>5, <2>7, <2>8 DEF h
<1>15. QED
  BY <1>4, <1>8, <1>9, <1>10, <1>11, <1>12, <1>13, <1>14 DEF Chores

(* The writers rest.                                                       *)
LEMMA WritersRest ==
  ASSUME TendedInv, UNCHANGED agentVars, reading'.at = "pending" => running \/ reading.at = "pending"
  PROVE  TaskInv' /\ LogTells' /\ Pending' = Pending /\ \A p : Settled(p)' <=> Settled(p)
<1>1. log' = log /\ held' = held /\ todo' = todo /\ (running' <=> running)
  BY DEF agentVars
<1>2. Pending' = Pending /\ \A p : (Settled(p)' <=> Settled(p)) /\ (Asks(p)' <=> Asks(p))
  BY <1>1 DEF Pending, Settled, Closing, Asks, Task
<1>3. Closes' <=> Closes
  BY <1>1 DEF Closes, Closing, Task, Pending
<1>4. TaskInv'
  BY <1>1, <1>2, <1>3 DEF TendedInv, TaskInv
<1>5. LogTells'
  BY <1>1, <1>2 DEF TendedInv, LogTells
<1>6. QED
  BY <1>2, <1>4, <1>5

(* The prompts are to be read, again or still.                             *)
LEMMA RefreshNews ==
  ASSUME FollowInv, TendedInv,
         Connect \/ TakesSubscribe \/ ReadsTail \/ ReadsEvents \/ (ReadsRunning /\ running)
  PROVE  TendedInv'
<1>1. /\ UNCHANGED agentVars /\ bus' = bus /\ cards' = cards
      /\ link' = link \/ link' = "up"
  BY DEF Connect, TakesSubscribe, ReadsTail, ReadsEvents, ReadsRunning, busVars, pageVars
<1>2. Refreshing' /\ (reading'.at = "pending" => running \/ reading.at = "pending")
  <2>1. CASE Connect
    <3>1. inbox' # <<>> /\ reading' = reading
      <4>1. PICK n \in {1, 2} : inbox' = [i \in 1..n |-> ReconnectCursor]
        BY <2>1 DEF Connect
      <4>2. 1 \in DOMAIN inbox'
        BY <4>1
      <4>3. QED
        BY <2>1, <4>2 DEF Connect
    <3>2. QED
      BY <3>1 DEF Refreshing
  <2>2. CASE TakesSubscribe
    BY <2>2 DEF TakesSubscribe, Refreshing
  <2>3. CASE ReadsTail \/ ReadsEvents
    BY <2>3 DEF ReadsTail, ReadsEvents, Refreshing
  <2>4. CASE ReadsRunning /\ running
    <3>1. reading.at = "running" /\ reading' = [reading EXCEPT !.at = "pending"]
      BY <2>4 DEF ReadsRunning
    <3>2. reading \in [at : {"running", "pending"}, after : Starts, cursor : 0..Len(log)]
      BY <3>1 DEF FollowInv, SocketInv, Readings, NoReading
    <3>3. reading'.at = "pending"
      BY <3>1, <3>2
    <3>4. QED
      BY <2>4, <3>3 DEF Refreshing
  <2>5. QED
    BY <2>1, <2>2, <2>3, <2>4
<1>3. TaskInv' /\ LogTells' /\ \A p : Settled(p)' <=> Settled(p)
  BY <1>1, <1>2, WritersRest
<1>4. \A p \in Prompts : Settled(p)' => BusTells(p)'
  BY <1>1, <1>3 DEF TendedInv, NewsInv, BusTells, LastSays, agentVars
<1>5. NewsInv'
  BY <1>1, <1>2, <1>4 DEF TendedInv, NewsInv
<1>6. QED
  BY <1>3, <1>5 DEF TendedInv

(* The prompts are read.                                                   *)
LEMMA PromptsReadNews ==
  ASSUME FollowInv, TendedInv, (ReadsRunning /\ ~running) \/ ReadsPending
  PROVE  TendedInv'
<1>1. /\ UNCHANGED agentVars /\ UNCHANGED <<bus, cards, link>> /\ reading'.at = "head"
  BY DEF ReadsRunning, ReadsPending, pageVars
<1>2. TaskInv' /\ LogTells' /\ \A p : Settled(p)' <=> Settled(p)
  BY <1>1, WritersRest
<1>3. ASSUME NEW p \in Prompts, Settled(p) PROVE p \in reading'.pending <=> p \in held
  <2>1. CASE ReadsRunning /\ ~running
    <3>1. reading'.pending = {}
      BY <2>1 DEF ReadsRunning
    <3>2. held = {}
      BY <2>1 DEF TendedInv, TaskInv, Asks, Closes
    <3>3. QED
      BY <3>1, <3>2
  <2>2. CASE ReadsPending
    <3>1. reading.at = "pending" /\ reading'.pending = Pending
      BY <2>2 DEF ReadsPending
    <3>2. QED
      BY <1>3, <3>1 DEF TendedInv, LogTells
  <2>3. QED
    BY <2>1, <2>2
<1>4. ASSUME NEW p \in Prompts, Settled(p)' PROVE BusTells(p)' /\ PageTells(p)'
  <2>1. Settled(p) /\ held' = held
    BY <1>1, <1>2, <1>4 DEF agentVars
  <2>2. BusTells(p)'
    BY <1>1, <2>1 DEF TendedInv, NewsInv, BusTells, LastSays
  <2>3. PageTells(p)'
    BY <1>1, <1>3, <2>1 DEF PageTells
  <2>4. QED
    BY <2>2, <2>3
<1>5. NewsInv'
  BY <1>1, <1>4 DEF TendedInv, NewsInv
<1>6. QED
  BY <1>2, <1>5 DEF TendedInv

LEMMA RepliesNews == ASSUME FollowInv, TendedInv, Replies PROVE TendedInv'
<1> DEFINE m == [msg |-> "replay", after |-> reading.after, cursor |-> reading.cursor,
                 pending |-> reading.pending, more |-> HasMore(reading.cursor)]
           Sent == Messages(Len(log)) \union Pages
<1>1. /\ UNCHANGED <<agentVars, busVars, link, inbox, pageVars>> /\ reading' = NoReading
      /\ reading.at = "head" /\ out' = Append(out, m) /\ out \in Seq(Sent)
  BY DEF Replies, Sends, FollowInv, SocketInv
<1>2. m \in Sent
  <2>1. /\ reading.after \in Starts /\ reading.cursor \in 0..Len(log)
        /\ reading.pending \in SUBSET Prompts
    BY <1>1, ReadingFacts DEF FollowInv, SocketInv
  <2>2. HasMore(reading.cursor) \in BOOLEAN
    BY DEF HasMore
  <2>3. QED
    BY <2>1, <2>2 DEF Pages
<1>3. ASSUME NEW p PROVE Tells(m, p) /\ (Says(m, p) <=> p \in reading.pending)
  BY DEF Tells, Says
<1> HIDE DEF m, Sent
<1>4. reading'.at = "no" /\ reading'.at # "pending"
  BY <1>1 DEF NoReading
<1>5. TaskInv' /\ LogTells' /\ \A p : Settled(p)' <=> Settled(p)
  BY <1>1, <1>4, WritersRest
<1>6. ASSUME NEW p \in Prompts, Settled(p)'
      PROVE  BusTells(p)' /\ ((link = "up" /\ ~blind /\ ~Refreshing)' => PageTells(p)')
  <2>1. Settled(p) /\ held' = held /\ bus' = bus
    BY <1>1, <1>5, <1>6 DEF agentVars, busVars
  <2>2. BusTells(p)'
    BY <2>1 DEF TendedInv, NewsInv, BusTells, LastSays
  <2>3. ASSUME (link = "up" /\ ~blind /\ ~Refreshing)', Mute(bus', p)
        PROVE  LastSays(out', p, held')
    <3>1. link = "up" /\ ~blind /\ ~Refreshing
      BY <1>1, <2>3 DEF Refreshing, busVars
    <3>2. p \in reading.pending <=> p \in held
      BY <1>1, <2>1, <2>3, <3>1 DEF TendedInv, NewsInv, PageTells
    <3>3. Says(m, p) <=> p \in held'
      BY <1>3, <2>1, <3>2
    <3>4. QED
      BY <1>1, <1>2, <1>3, <3>3, NewsAppend
  <2>4. QED
    BY <1>4, <2>2, <2>3 DEF PageTells
<1>7. NewsInv'
  BY <1>1, <1>6 DEF TendedInv, NewsInv, busVars, pageVars
<1>8. QED
  BY <1>5, <1>7 DEF TendedInv

LEMMA TakesBroadcastNews == ASSUME FollowInv, TendedInv, TakesBroadcast PROVE TendedInv'
<1> DEFINE h == Len(log)
           m == Head(bus)
           Sent == Messages(h) \union Pages
<1>1. /\ UNCHANGED <<agentVars, blind, link, inbox, reading, pageVars>> /\ reading = NoReading
      /\ bus # <<>> /\ bus' = Tail(bus) /\ link = "up"
      /\ bus \in Seq(Messages(h)) /\ out \in Seq(Sent)
  BY DEF TakesBroadcast, FollowInv, LogInv, SocketInv
<1>2. m \in Sent
  BY <1>1, TailFacts
<1>3. out' = Append(out, m) \/ (out' = out /\ \A p : ~Tells(m, p))
  <2>1. CASE m.msg # "event" \/ subscribed
    BY <2>1 DEF TakesBroadcast, Sends
  <2>2. CASE ~(m.msg # "event" \/ subscribed)
    <3>1. \A p : ~Tells(m, p)
      BY <2>2 DEF Tells
    <3>2. QED
      BY <2>2, <3>1 DEF TakesBroadcast
  <2>3. QED
    BY <2>1, <2>2
<1>4. TaskInv' /\ LogTells' /\ \A p : Settled(p)' <=> Settled(p)
  BY <1>1, WritersRest
<1>5. ASSUME NEW p
      PROVE  /\ Mute(bus, p) <=> ~Tells(m, p) /\ Mute(bus', p)
             /\ LastSays(bus, p, held) <=>
                  \/ LastSays(bus', p, held)
                  \/ Mute(bus', p) /\ Tells(m, p) /\ (Says(m, p) <=> p \in held)
  BY <1>1, NewsTail
<1> HIDE DEF m, Sent, h
<1>6. ASSUME NEW p
      PROVE  /\ Tells(m, p) /\ (Says(m, p) <=> p \in held) => LastSays(out', p, held)
             /\ ~Tells(m, p) => /\ Mute(out', p) <=> Mute(out, p)
                                /\ LastSays(out, p, held) => LastSays(out', p, held)
  <2>1. /\ Tells(m, p) /\ (Says(m, p) <=> p \in held) => LastSays(Append(out, m), p, held)
        /\ ~Tells(m, p) => /\ Mute(Append(out, m), p) <=> Mute(out, p)
                           /\ LastSays(out, p, held) => LastSays(Append(out, m), p, held)
    BY <1>1, <1>2, NewsAppend
  <2>2. QED
    BY <1>3, <2>1
<1>7. ASSUME NEW p \in Prompts, Settled(p)'
      PROVE  BusTells(p)' /\ ((link = "up" /\ ~blind /\ ~Refreshing)' => PageTells(p)')
  <2>1. Settled(p) /\ held' = held /\ cards' = cards
    BY <1>1, <1>4, <1>7 DEF agentVars, pageVars
  <2>2. Mute(bus, p) \/ LastSays(bus, p, held)
    BY <2>1 DEF TendedInv, NewsInv, BusTells
  <2>3. BusTells(p)'
    BY <1>5, <2>1, <2>2 DEF BusTells
  <2>4. ASSUME (link = "up" /\ ~blind /\ ~Refreshing)', Mute(bus', p)
        PROVE  PageTells(p)'
    <3>1. link = "up" /\ ~blind /\ ~Refreshing
      BY <1>1, <2>4 DEF Refreshing
    <3>2. reading.at # "head" /\ reading'.at # "head"
      BY <1>1 DEF NoReading
    <3>3. ~LastSays(bus', p, held)
      BY <2>4, LastIsNotMute
    <3>4. CASE Tells(m, p)
      <4>1. LastSays(out', p, held)
        BY <1>5, <1>6, <2>2, <3>3, <3>4
      <4>2. QED
        BY <2>1, <3>2, <4>1 DEF PageTells
    <3>5. CASE ~Tells(m, p)
      <4>1. Mute(bus, p)
        BY <1>5, <2>4, <3>5
      <4>2. LastSays(out, p, held) \/ (Mute(out, p) /\ (p \in cards <=> p \in held))
        BY <2>1, <3>1, <3>2, <4>1 DEF TendedInv, NewsInv, PageTells
      <4>3. LastSays(out', p, held) \/ (Mute(out', p) /\ (p \in cards <=> p \in held))
        BY <1>6, <3>5, <4>2
      <4>4. QED
        BY <2>1, <3>2, <4>3 DEF PageTells
    <3>6. QED
      BY <3>4, <3>5
  <2>5. ~Mute(bus', p) => PageTells(p)'
    BY DEF PageTells
  <2>6. QED
    BY <2>3, <2>4, <2>5
<1>8. NewsInv'
  BY <1>1, <1>7 DEF TendedInv, NewsInv, pageVars
<1>9. QED
  BY <1>4, <1>8 DEF TendedInv

(* The page takes what is first on its way: if that speaks of a prompt,    *)
(* the page now shows what it said.                                        *)
LEMMA PageNews ==
  ASSUME FollowInv, TendedInv, UNCHANGED <<agentVars, busVars, link, reading>>,
         out # <<>>, out' = Tail(out), inbox' = <<>> => inbox = <<>>, cards' \subseteq Prompts,
         ASSUME NEW p \in Prompts
         PROVE  IF Tells(Head(out), p) THEN p \in cards' <=> Says(Head(out), p)
                ELSE p \in cards' <=> p \in cards
  PROVE  TendedInv'
<1>1. TaskInv' /\ LogTells' /\ \A p : Settled(p)' <=> Settled(p)
  BY WritersRest
<1>2. ASSUME NEW p \in Prompts, Settled(p)'
      PROVE  BusTells(p)' /\ ((link = "up" /\ ~blind /\ ~Refreshing)' => PageTells(p)')
  <2>1. Settled(p) /\ held' = held /\ bus' = bus /\ reading' = reading
    BY <1>1, <1>2 DEF agentVars, busVars
  <2>2. BusTells(p)'
    BY <2>1 DEF TendedInv, NewsInv, BusTells
  <2>3. ASSUME (link = "up" /\ ~blind /\ ~Refreshing)', Mute(bus, p), reading.at # "head"
        PROVE  LastSays(out', p, held) \/ (Mute(out', p) /\ (p \in cards' <=> p \in held))
    <3>1. link = "up" /\ ~blind /\ ~Refreshing
      BY <2>3 DEF Refreshing, busVars
    <3>2. LastSays(out, p, held) \/ (Mute(out, p) /\ (p \in cards <=> p \in held))
      BY <2>1, <2>3, <3>1 DEF TendedInv, NewsInv, PageTells
    <3>3. out \in Seq(Messages(Len(log)) \union Pages)
      BY DEF FollowInv, SocketInv
    <3>4. /\ Mute(out, p) <=> ~Tells(Head(out), p) /\ Mute(out', p)
          /\ LastSays(out, p, held) <=>
               \/ LastSays(out', p, held)
               \/ /\ Mute(out', p) /\ Tells(Head(out), p)
                  /\ Says(Head(out), p) <=> p \in held
      BY <3>3, NewsTail
    <3>5. IF Tells(Head(out), p) THEN p \in cards' <=> Says(Head(out), p)
          ELSE p \in cards' <=> p \in cards
      OBVIOUS
    <3>6. QED
      BY <3>2, <3>4, <3>5
  <2>4. ASSUME (link = "up" /\ ~blind /\ ~Refreshing)' PROVE PageTells(p)'
    <3>1. CASE reading.at = "head"
      <4>1. ~Refreshing /\ link = "up" /\ ~blind
        BY <2>4 DEF Refreshing, busVars
      <4>2. PageTells(p)
        BY <2>1, <4>1 DEF TendedInv, NewsInv
      <4>3. QED
        BY <2>1, <3>1, <4>2 DEF PageTells
    <3>2. CASE reading.at # "head"
      BY <2>1, <2>3, <2>4, <3>2 DEF PageTells
    <3>3. QED
      BY <3>1, <3>2
  <2>5. QED
    BY <2>2, <2>4
<1>3. NewsInv'
  BY <1>2 DEF TendedInv, NewsInv, busVars
<1>4. QED
  BY <1>1, <1>3 DEF TendedInv

(* The page shows what the last message that tells of a prompt says of it. *)
LEMMA CardsFacts ==
  ASSUME FollowInv, cards \subseteq Prompts, PageActs
  PROVE  /\ cards' \subseteq Prompts
         /\ \A p \in Prompts : IF Tells(Head(out), p) THEN p \in cards' <=> Says(Head(out), p)
                               ELSE p \in cards' <=> p \in cards
<1> DEFINE m == Head(out)
<1>1. /\ out # <<>> /\ out \in Seq(Messages(Len(log)) \union Pages) /\ Len(log) \in Nat
  BY LengthFacts DEF PageActs, PageTakesReplay, PageTakesEvent, PageTakesPrompt, FollowInv,
                     SocketInv
<1>2. m \in Messages(Len(log)) \union Pages
  BY <1>1, TailFacts
<1> HIDE DEF m
<1>3. /\ cards' \subseteq Prompts
      /\ \A p \in Prompts : IF Tells(m, p) THEN p \in cards' <=> Says(m, p)
                            ELSE p \in cards' <=> p \in cards
  <2>1. CASE PageTakesReplay
    <3>1. m.msg = "replay" /\ cards' = m.pending
      BY <2>1 DEF PageTakesReplay, m
    <3>2. m \notin Messages(Len(log))
      BY <3>1 DEF Messages, Event, Ask, Resolve
    <3>3. m.pending \subseteq Prompts
      BY <1>2, <3>2 DEF Pages
    <3>4. QED
      BY <3>1, <3>3 DEF Tells, Says
  <2>2. CASE PageTakesEvent
    <3>1. m.msg = "event" /\ cards' = cards
      BY <2>2 DEF PageTakesEvent, m
    <3>2. QED
      BY <1>1, <3>1 DEF Tells
  <2>3. CASE PageTakesPrompt
    <3>1. \/ m.msg = "ask" /\ cards' = cards \union {m.prompt}
          \/ m.msg = "resolve" /\ cards' = cards \ {m.prompt}
      BY <2>3 DEF PageTakesPrompt, m
    <3>2. m \notin Pages
      BY <3>1 DEF Pages
    <3>3. m.prompt \in Prompts
      BY <1>1, <1>2, <3>1, <3>2, PromptFacts
    <3>4. QED
      BY <1>1, <3>1, <3>3 DEF Tells, Says
  <2>4. QED
    BY <2>1, <2>2, <2>3 DEF PageActs
<1>4. QED
  BY <1>3 DEF m

LEMMA PageActsNews == ASSUME FollowInv, TendedInv, PageActs PROVE TendedInv'
<1> DEFINE m == Head(out)
<1>1. /\ UNCHANGED <<agentVars, busVars, link, reading>> /\ out # <<>> /\ out' = Tail(out)
      /\ cards \subseteq Prompts
  BY DEF PageActs, PageTakesReplay, PageTakesEvent, PageTakesPrompt, TendedInv, NewsInv
<1> HIDE DEF m
<1>2. ASSUME inbox' = <<>> PROVE inbox = <<>>
  <2>1. CASE PageTakesReplay
    <3>1. inbox' = inbox \o NextWalk(m)
      BY <2>1 DEF PageTakesReplay, m
    <3>2. inbox \in Seq(Starts \union {Tail0})
      BY DEF FollowInv, SocketInv
    <3>3. NextWalk(m) \in Seq({m.cursor})
      <4> DEFINE T == {m.cursor}
      <4>1. m.cursor \in T
        OBVIOUS
      <4> HIDE DEF T
      <4>2. <<m.cursor>> \in Seq(T) /\ <<>> \in Seq(T)
        BY <4>1
      <4>3. NextWalk(m) = <<m.cursor>> \/ NextWalk(m) = <<>>
        BY DEF NextWalk
      <4>4. NextWalk(m) \in Seq(T)
        BY <4>2, <4>3
      <4>5. QED
        BY <4>4 DEF T
    <3>4. Len(inbox \o NextWalk(m)) = Len(inbox) + Len(NextWalk(m))
      BY <3>2, <3>3
    <3>5. QED
      BY <1>2, <3>1, <3>2, <3>3, <3>4
  <2>2. CASE PageTakesEvent \/ PageTakesPrompt
    BY <1>2, <2>2 DEF PageTakesEvent, PageTakesPrompt
  <2>3. QED
    BY <2>1, <2>2 DEF PageActs
<1>3. QED
  BY <1>1, <1>2, CardsFacts, PageNews

(* A server that begins anew has no runner, and its page no connection.    *)
LEMMA RestartNews == ASSUME cards \subseteq Prompts, ServerRestarts PROVE TendedInv'
<1>1. /\ bus' = <<>> /\ link' = "down" /\ cards' = cards /\ reading' = NoReading /\ ~running'
      /\ held' = {} /\ todo' = [w \in Writers |-> <<>>]
  BY DEF ServerRestarts, Cut, pageVars
<1>2. Task' = <<>> /\ todo'["request"] = <<>>
  BY <1>1 DEF Task, Writers
<1>3. ToSet(<<>>) = {} /\ RowsFirst(<<>>) /\ \A p : Mute(<<>>, p)
  BY DEF ToSet, RowsFirst, Mute
<1>4. TaskInv'
  BY <1>1, <1>2, <1>3 DEF TaskInv, Closes, Closing
<1>5. LogTells'
  BY <1>1 DEF LogTells, NoReading
<1>6. NewsInv'
  BY <1>1, <1>3 DEF NewsInv, BusTells
<1>7. QED
  BY <1>4, <1>5, <1>6 DEF TendedInv

(* The connection is lost.                                                 *)
LEMMA CutNews == ASSUME FollowInv, TendedInv, ConnectionLost PROVE TendedInv'
<1>1. /\ bus' = <<>> /\ link' = "down" /\ cards' = cards /\ reading' = NoReading /\ UNCHANGED agentVars
  BY DEF ConnectionLost, Cut, pageVars
<1>2. NewsInv'
  <2>1. \A p : BusTells(p)'
    BY <1>1 DEF BusTells, Mute
  <2>2. QED
    BY <1>1, <2>1 DEF TendedInv, NewsInv
<1>3. QED
  BY <1>1, <1>2, WritersRest DEF NoReading, TendedInv

(* Any step but the one that leaves the slot untended.                     *)
LEMMA TendedNews ==
  ASSUME FollowInv, TendedInv, [Next]_vars, ~LaunchDropped PROVE TendedInv'
<1>1. CASE UNCHANGED vars \/ TakesLagged \/ Refused
  <2>1. UNCHANGED <<agentVars, bus, blind, link, inbox, reading, out, cards>>
    BY <1>1 DEF vars, TakesLagged, Refused, busVars, socketVars, pageVars
  <2>2. TaskInv' /\ LogTells' /\ \A p : Settled(p)' <=> Settled(p)
    BY <2>1, WritersRest
  <2>3. \A p : (BusTells(p)' <=> BusTells(p)) /\ (PageTells(p)' <=> PageTells(p))
    BY <2>1 DEF BusTells, PageTells, agentVars
  <2>4. NewsInv'
    BY <2>1, <2>2, <2>3 DEF TendedInv, NewsInv, Refreshing
  <2>5. QED
    BY <2>2, <2>4 DEF TendedInv
<1>2. CASE RunnerActs \/ Launch
  BY <1>2, RunnerBeginsNews
<1>3. CASE RequestLogs \/ RequestDropped
  BY <1>3, RequestNews
<1>4. CASE \E w \in Writers : WriterSteps(w)
  BY <1>4, RequestNews, RaisingNews, ClosingNews DEF Writers, TendedInv, TaskInv
<1>5. CASE Connect \/ TakesSubscribe
  BY <1>5, RefreshNews
<1>6. CASE SocketReads
  BY <1>6, RefreshNews, PromptsReadNews, RepliesNews DEF SocketReads
<1>7. CASE TakesBroadcast
  BY <1>7, TakesBroadcastNews
<1>8. CASE PageActs
  BY <1>8, PageActsNews
<1>9. CASE ConnectionLost \/ ServerRestarts
  BY <1>9, CutNews, RestartNews DEF TendedInv, NewsInv
<1>10. QED
  BY <1>1, <1>2, <1>3, <1>4, <1>5, <1>6, <1>7, <1>8, <1>9 DEF Next

(* Any step.  A slot left untended stays so until the server restarts, and *)
(* there is no runner then to agree with.                                  *)
LEMMA StepNews == ASSUME FollowInv, PromptInv, [Next]_vars PROVE PromptInv'
<1>1. cards' \subseteq Prompts
  <2>1. CASE PageActs
    BY <2>1, CardsFacts DEF PromptInv
  <2>2. CASE ~PageActs
    <3>1. cards' = cards
      BY <2>2 DEF Next, vars, RunnerActs, RunnerLine, RunnerExits, RunnerAsks, PromptCloses, Launch,
                  LaunchDropped, RequestLogs, RequestDropped, WriterSteps, Connect, Refused,
                  TakesSubscribe, SocketReads, ReadsTail, ReadsEvents, ReadsRunning, ReadsPending,
                  Replies, TakesBroadcast, TakesLagged, ConnectionLost, ServerRestarts, Cut, pageVars
    <3>2. QED
      BY <3>1 DEF PromptInv
  <2>3. QED
    BY <2>1, <2>2
<1>2. untended' \/ TendedInv'
  <2>1. CASE LaunchDropped
    BY <2>1 DEF LaunchDropped
  <2>2. CASE ~LaunchDropped /\ TendedInv
    BY <2>2, TendedNews
  <2>3. CASE untended /\ ServerRestarts
    BY <2>3, RestartNews DEF PromptInv
  <2>4. CASE untended /\ ~ServerRestarts /\ ~LaunchDropped
    BY <2>4 DEF Next, vars, RunnerActs, RunnerLine, RunnerExits, RunnerAsks, PromptCloses, Launch,
                RequestLogs, RequestDropped, WriterSteps, Connect, Refused, TakesSubscribe,
                SocketReads, ReadsTail, ReadsEvents, ReadsRunning, ReadsPending, Replies,
                TakesBroadcast, TakesLagged, PageActs, PageTakesReplay, PageTakesEvent,
                PageTakesPrompt, ConnectionLost, agentVars
  <2>5. QED
    BY <2>1, <2>2, <2>3, <2>4 DEF PromptInv
<1>3. QED
  BY <1>1, <1>2 DEF PromptInv

LEMMA InitNews == Init => PromptInv
<1> SUFFICES ASSUME Init PROVE PromptInv
  OBVIOUS
<1>1. /\ ~running /\ held = {} /\ todo = [w \in Writers |-> <<>>] /\ bus = <<>>
      /\ link = "down" /\ reading = NoReading /\ cards = {}
  BY DEF Init
<1>2. Task = <<>> /\ todo["request"] = <<>>
  BY <1>1 DEF Task, Writers
<1>3. ToSet(<<>>) = {} /\ RowsFirst(<<>>) /\ \A p : Mute(<<>>, p)
  BY DEF ToSet, RowsFirst, Mute
<1>4. TaskInv
  BY <1>1, <1>2, <1>3 DEF TaskInv, Closes, Closing
<1>5. LogTells
  BY <1>1 DEF LogTells, NoReading
<1>6. NewsInv
  BY <1>1, <1>3 DEF NewsInv, BusTells
<1>7. QED
  BY <1>1, <1>4, <1>5, <1>6 DEF PromptInv, TendedInv

--------------------------------------------------------------------------------
(* The theorems.                                                           *)

LEMMA InitFollows == Init => FollowInv
<1> SUFFICES ASSUME Init PROVE FollowInv
  OBVIOUS
<1>1. Written \in Nat
  BY WsReplayAssumption
<1>2. log \in Seq(Row) /\ PageInv
  <2>1. CASE log = <<>> /\ seeded = FALSE /\ seen = {} /\ contiguous = 0
    <3>1. log \in Seq(Row) /\ Len(log) = 0
      BY <2>1
    <3>2. seeded \in BOOLEAN
      BY <2>1
    <3>3. seen = {} /\ contiguous = 0 /\ floor = 0
      BY <2>1 DEF Init
    <3>4. PageInv
      BY <3>1, <3>2, <3>3 DEF PageInv
    <3>5. QED
      BY <3>1, <3>4
  <2>2. CASE /\ log = [i \in 1..Written |-> Line] /\ seeded = TRUE
             /\ \E n \in 1..Written : seen = 1..n /\ contiguous = n
    <3>1. PICK n \in 1..Written : seen = 1..n /\ contiguous = n
      BY <2>2
    <3>2. log \in Seq(Row) /\ Len(log) = Written
      <4>1. log \in [1..Written -> Row]
        BY <2>2, RowFacts
      <4>2. QED
        BY <1>1, <4>1
    <3>3. PageInv
      BY <1>1, <2>2, <3>1, <3>2 DEF Init, PageInv
    <3>4. QED
      BY <3>2, <3>3
  <2>3. QED
    BY <2>1, <2>2 DEF Init
<1>3. PageInv
  BY <1>2
<1>4. LogInv
  BY <1>2 DEF Init, LogInv
<1>5. SocketInv
  BY DEF Init, SocketInv, Readings
<1>6. QED
  BY <1>3, <1>4, <1>5 DEF FollowInv

(* Whatever is on the bus, owed or on its way to the page is of rows that  *)
(* are written, and the page's cursor stands on rows it has.               *)
THEOREM FollowInvHolds == Spec => []FollowInv
<1>1. FollowInv /\ [Next]_vars => FollowInv'
  BY StepFollows
<1>2. QED
  BY <1>1, InitFollows, PTL DEF Spec

(* The cursor a page comes back with passes over no row it was not given,  *)
(* however replays, broadcasts and lost connections cross.                 *)
THEOREM CursorIsSafeHolds == Spec => []CursorIsSafe
<1>1. FollowInv => CursorIsSafe
  BY DEF FollowInv, PageInv, CursorIsSafe
<1>2. QED
  BY <1>1, FollowInvHolds, PTL

(* Every row above the tail a connected page began at has been seen, will  *)
(* be heard of, or is excused, between any two steps of a replay.          *)
THEOREM AccountInvHolds == Spec => []AccountInv
<1>1. Init => AccountInv
  BY DEF Init, AccountInv
<1>2. FollowInv /\ AccountInv /\ [Next]_vars => AccountInv'
  BY StepAccounts
<1>3. QED
  BY <1>1, <1>2, FollowInvHolds, PTL DEF Spec

THEOREM AccountedHolds == Spec => []Accounted
<1>1. FollowInv /\ AccountInv => Accounted
  <2> SUFFICES ASSUME FollowInv, AccountInv, link = "up", NEW n \in floor + 1..Len(log)
               PROVE  \/ n \in seen \union missed \union silent
                      \/ Owed(n) \/ Contains(bus, Event(n)) \/ Contains(out, Event(n))
                      \/ Covered(n)
    BY DEF Accounted
  <2>1. /\ bus \in Seq(Messages(Len(log))) /\ out \in Seq(Messages(Len(log)) \union Pages)
        /\ todo \in [Writers -> Seq(Steps(Len(log)))]
    BY DEF FollowInv, LogInv, SocketInv
  <2>2. Uttered(n) \/ Brought(n)
    BY DEF AccountInv
  <2>3. ASSUME Uttered(n)
        PROVE  n \in missed \union silent \/ Owed(n) \/ Contains(bus, Event(n))
    BY <2>1, <2>3, ContainsFacts DEF Uttered, Owed
  <2>4. ASSUME InboxBrings(n) PROVE Covered(n)
    BY <2>4 DEF InboxBrings, Covered, ToSet
  <2>5. ASSUME ReadingBrings(n) PROVE Covered(n)
    BY <2>5 DEF ReadingBrings, Covered, ReadingCovers
  <2>6. ASSUME NEW m \in ToSet(out), ReplyBrings(m, n) PROVE Covered(n)
    BY <2>6 DEF ReplyBrings, ReplyCovers, Covered, ToSet
  <2>7. Event(n) \in ToSet(out) => Contains(out, Event(n))
    BY <2>1, ContainsFacts
  <2>8. QED
    BY <2>2, <2>3, <2>4, <2>5, <2>6, <2>7 DEF Brought
<1>2. QED
  BY <1>1, FollowInvHolds, AccountInvHolds, PTL

(* Of every prompt the runner says no more of, the last word on its way to *)
(* the page is the truth, unless the page is blind or about to ask, or the *)
(* slot is left untended.                                                  *)
THEOREM PromptInvHolds == Spec => []PromptInv
<1>1. FollowInv /\ PromptInv /\ [Next]_vars => PromptInv'
  BY StepNews
<1>2. QED
  BY <1>1, InitNews, FollowInvHolds, PTL DEF Spec

(* When all is quiet the page shows the prompts the runner holds, and no   *)
(* other, whoever asked or answered while it was away.                     *)
THEOREM PromptsAgreeHolds == Spec => []PromptsAgree
<1>1. FollowInv /\ PromptInv => PromptsAgree
  <2> SUFFICES ASSUME FollowInv, TendedInv, Quiet, ~blind PROVE cards = held
    BY DEF PromptsAgree, PromptInv
  <2>1. /\ link = "up" /\ inbox = <<>> /\ reading = NoReading /\ out = <<>> /\ bus = <<>>
        /\ Task = <<>>
    BY DEF Quiet, Task, Writers
  <2>2. cards \subseteq Prompts /\ held \subseteq Prompts
    BY DEF FollowInv, LogInv, TendedInv, NewsInv
  <2>3. \A p : Settled(p)
    BY <2>1, IdleFacts DEF TendedInv
  <2>4. ~Refreshing /\ reading.at # "head"
    BY <2>1 DEF Refreshing, NoReading
  <2>5. \A p : Mute(bus, p) /\ Mute(out, p)
    BY <2>1 DEF Mute
  <2>6. \A p \in Prompts : PageTells(p)
    BY <2>1, <2>3, <2>4 DEF TendedInv, NewsInv
  <2>7. \A p \in Prompts : p \in cards <=> p \in held
    BY <2>4, <2>5, <2>6, LastIsNotMute DEF PageTells
  <2>8. QED
    BY <2>2, <2>7
<1>2. QED
  BY <1>1, FollowInvHolds, PromptInvHolds, PTL

LEMMA StoppedForGood == ASSUME [Next]_vars, stopped PROVE stopped'
BY DEF Next, vars, RunnerActs, RunnerLine, RunnerExits, RunnerAsks, PromptCloses, Launch,
       LaunchDropped, RequestLogs, RequestDropped, WriterSteps, Connect, Refused, TakesSubscribe,
       SocketReads, ReadsTail, ReadsEvents, ReadsRunning, ReadsPending, Replies, TakesBroadcast,
       TakesLagged, PageActs, PageTakesReplay, PageTakesEvent, PageTakesPrompt, ConnectionLost,
       ServerRestarts, Cut, pageVars

(* The replay and the live stream do nothing a follower of the log may     *)
(* not: each step adds a row at most, and to what the page has or is       *)
(* excused from nothing but rows that are written, for good.               *)
THEOREM FollowsSafely == Spec => Followed!Init /\ [][Followed!Next]_(Followed!vars)
<1>1. ASSUME Init PROVE Followed!Init
  <2>1. /\ Len(log) \in Nat /\ Len(log) <= MaxRows /\ MaxRows \in Nat
        /\ missed = {} /\ silent = {} /\ floor = 0 /\ ~stopped
    BY <1>1, WsReplayAssumption DEF Init, MaxRows
  <2>2. seen \subseteq 1..Len(log)
    BY <1>1, InitFollows DEF FollowInv, PageInv
  <2>3. QED
    BY <2>1, <2>2 DEF Followed!Init
<1>2. ASSUME FollowInv, [Next]_vars PROVE [Followed!Next]_(Followed!vars)
  <2>1. FollowInv' /\ Onward
    BY <1>2, StepFollows
  <2>2. Len(log) \in Nat /\ floor \in Nat /\ floor' \in 0..Len(log')
        /\ Len(log') \in Nat
    BY <1>2, <2>1, LengthFacts DEF FollowInv, LogInv, Onward
  <2> DEFINE end == IF stopped THEN Len(log) ELSE floor
  <2>3. 1..end \subseteq 1..end' /\ 1..end' \subseteq 1..Len(log')
    BY <1>2, <2>1, <2>2, StoppedForGood DEF Onward
  <2>4. /\ seen' \subseteq 1..Len(log') /\ missed' \subseteq 1..Len(log')
        /\ silent' \subseteq 1..Len(log')
    BY <2>1 DEF FollowInv, LogInv, PageInv
  <2>5. Followed!Next
    BY <2>1, <2>3, <2>4 DEF Onward, Followed!Next
  <2>6. QED
    BY <2>5
<1>3. QED
  BY <1>1, <1>2, FollowInvHolds, PTL DEF Spec
================================================================================
