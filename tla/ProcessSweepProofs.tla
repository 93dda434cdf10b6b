-------------------------- MODULE ProcessSweepProofs ---------------------------
(***************************************************************************)
(* Why what the sweep finds to signal is the agent's, whatever the slacks, *)
(* the processes and the ids: under the assumption of ProcessSweep, and    *)
(* but for the groups that a process entered after it was started.         *)
(***************************************************************************)
EXTENDS ProcessSweep, TLAPS

--------------------------------------------------------------------------------
(* The inductive invariant.                                                *)

Births == \A p \in Ids : proc[p].born <= now

(* A process's parent is there, or is init; both are the agent's or not.   *)
Kin ==
  \A p \in Ids :
    Alive(p) /\ proc[p].ppid \in Ids =>
      Alive(proc[p].ppid) /\ (proc[proc[p].ppid].ours => proc[p].ours)

(* A process of the agent's leads a group of the agent's.                  *)
Leads == \A g \in Ids : Alive(g) /\ proc[g].ours /\ Group(g) # {} => g \in mine

(* The child is there until the runner knows that it is not.               *)
ChildIsThere == exited \/ (Alive(Cli) /\ proc[Cli].ours)

(* A record is of a time that was, and its witness was started no later    *)
(* than the process that last had the group's id.                          *)
Dated(r, g) ==
  /\ r.proven <= now + Lag
  /\ r.witness_started <= proc[g].born + Lag + Coarse

(* If the group is not the agent's any more, what is in it is younger than *)
(* the record, by what the ownership test allows for.                      *)
Outlived(r, g) ==
  g \notin mine =>
    /\ \A p \in Group(g) : proc[p].born + Lag >= r.proven
    /\ Alive(g) /\ proc[g].pgid = g =>
         proc[g].born + Lag + Coarse >= r.witness_started + PidWrap

RecordsHold ==
  \A g \in Ids : sweep[g] # None =>
    Dated(sweep[g], g) /\ (misled \/ g \in joined \/ Outlived(sweep[g], g))

Inv ==
  /\ TypeOK /\ Births /\ Kin /\ Leads /\ ChildIsThere /\ RecordsHold /\ OnlyOurs

--------------------------------------------------------------------------------
(* The operators.                                                          *)

(* The walk of the tree reaches processes of the agent's only.             *)
LEMMA WalkIsOurs ==
  ASSUME TypeOK, Kin, ChildIsThere, ~Reused, NEW g \in Descendants
  PROVE  proc[g].ours
<1> DEFINE S == {Cli} \union {p \in Ids : proc[p].ours}
<1>1. Cli \in Ids /\ S \subseteq Ids /\ g \in Ids /\ g # Cli
  BY DEF Ids, Descendants
<1>2. Closed(S)
  <2> SUFFICES ASSUME NEW p \in Ids, Alive(p), proc[p].ppid \in S PROVE p \in S
    BY DEF Closed
  <2>1. proc[p].ppid \in Ids
    BY <1>1
  <2>2. Alive(proc[p].ppid) /\ (proc[proc[p].ppid].ours => proc[p].ours)
    BY <2>1 DEF Kin
  <2>3. CASE proc[p].ppid = Cli
    BY <2>2, <2>3 DEF ChildIsThere, Reused
  <2>4. CASE proc[proc[p].ppid].ours
    BY <2>2, <2>4
  <2> QED
    BY <2>3, <2>4
<1>3. g \in S
  BY <1>1, <1>2 DEF Descendants
<1> QED
  BY <1>1, <1>3

LEMMA TargetsAreOurs ==
  ASSUME TypeOK, Kin, Leads, ChildIsThere, ~Reused, NEW g \in Targets
  PROVE  g \in mine /\ g \in Ids
<1>1. g \in Descendants /\ Alive(g) /\ proc[g].pgid = g /\ g \in Ids
  BY DEF Targets, Descendants
<1>2. proc[g].ours
  BY <1>1, WalkIsOurs
<1>3. g \in Group(g)
  BY <1>1 DEF Group
<1> QED
  BY <1>1, <1>2, <1>3 DEF Leads

(* The ownership test: a group that passes it is the agent's.              *)
LEMMA OwnedIsOurs ==
  ASSUME TypeOK, NEW g \in Ids, NEW r \in Record, Outlived(r, g),
         NEW lag \in 0..Lag, NEW round \in Rounding, Owns(r, g, lag, round)
  PROVE  g \in mine
<1> SUFFICES ASSUME g \notin mine PROVE FALSE
  OBVIOUS
<1>0. ClockSlack \in Nat /\ ProofSlack \in Nat /\ Lag \in Nat /\ Coarse \in Nat
      /\ PidWrap \in Nat /\ Lag < ProofSlack /\ ClockSlack + Lag + Coarse < PidWrap
  BY ProcessSweepAssumption
<1>1. r.witness_started \in Nat /\ r.proven \in Nat
  BY DEF Record
<1>2. CASE Alive(g) /\ proc[g].pgid = g
           /\ Started(g, lag, round) - r.witness_started <= ClockSlack
  <2>1. proc[g].born \in Nat /\ round[g] \in Nat /\ lag \in Nat
    BY <1>0 DEF TypeOK, Process, Rounding
  <2>2. proc[g].born + Lag + Coarse >= r.witness_started + PidWrap
    BY <1>2 DEF Outlived
  <2> QED
    BY <1>0, <1>1, <1>2, <2>1, <2>2 DEF Started
<1>3. CASE \E p \in Ids : Alive(p) /\ proc[p].pgid = g
                          /\ Started(p, lag, round) + ProofSlack <= r.proven
  <2>1. PICK p \in Ids : Alive(p) /\ proc[p].pgid = g
                         /\ Started(p, lag, round) + ProofSlack <= r.proven
    BY <1>3
  <2>2. proc[p].born \in Nat /\ round[p] \in Nat /\ lag \in Nat
    BY <1>0 DEF TypeOK, Process, Rounding
  <2>3. p \in Group(g)
    BY <2>1 DEF Group
  <2>4. proc[p].born + Lag >= r.proven
    BY <2>3 DEF Outlived
  <2> QED
    BY <1>0, <1>1, <2>1, <2>2, <2>4 DEF Started
<1> QED
  BY <1>2, <1>3 DEF Owns

LEMMA NoRecord == \A r \in Record : r # None
<1> SUFFICES ASSUME NEW r \in Record PROVE r # None
  OBVIOUS
<1>1. r.proven \in Nat
  BY DEF Record
<1>2. None.proven = -1
  BY DEF None
<1> QED
  BY <1>1, <1>2

(* One group's part in a sweep: it yields no record, or one that is well   *)
(* typed and dated and was owned as merged.                                *)
LEMMA MergedIsRecord ==
  ASSUME TypeOK, NEW g \in Ids, NEW lag \in 0..Lag, NEW round \in Rounding,
         sweep[g] # None => Dated(sweep[g], g), Births,
         Merged(sweep[g], g, Targets, lag, round) # None
  PROVE  /\ Merged(sweep[g], g, Targets, lag, round) \in Record
         /\ Dated(Merged(sweep[g], g, Targets, lag, round), g)
<1>0. Lag \in Nat /\ Coarse \in Nat /\ now \in Nat /\ lag \in Nat /\ lag <= Lag
  BY ProcessSweepAssumption DEF TypeOK
<1>1. round[g] \in Nat /\ round[g] <= Coarse /\ proc[g].born \in Nat
  BY <1>0 DEF TypeOK, Process, Rounding
<1>2. sweep[g] # None => sweep[g] \in Record
  BY DEF TypeOK, Sweeps
<1>3. CASE g \notin Targets
  BY <1>2, <1>3 DEF Merged
<1>4. CASE g \in Targets /\ sweep[g] = None
  <2>1. Merged(sweep[g], g, Targets, lag, round)
          = [witness_started |-> proc[g].born + lag + round[g], proven |-> now + lag]
    BY <1>4 DEF Merged, Started
  <2> QED
    BY <1>0, <1>1, <2>1 DEF Record, Dated
<1>5. CASE g \in Targets /\ sweep[g] # None
  <2>1. Merged(sweep[g], g, Targets, lag, round)
          = [sweep[g] EXCEPT !.proven = Later(@, now + lag)]
    BY <1>5 DEF Merged
  <2>2. sweep[g] \in Record /\ sweep[g].proven \in Nat /\ sweep[g].witness_started \in Nat
    BY <1>2, <1>5 DEF Record
  <2>3. Later(sweep[g].proven, now + lag) \in Nat
        /\ Later(sweep[g].proven, now + lag) <= now + Lag
    BY <1>0, <1>5, <2>2 DEF Later, Dated
  <2> QED
    BY <1>5, <2>1, <2>2, <2>3 DEF Record, Dated
<1> QED
  BY <1>3, <1>4, <1>5

(* What a sweep leaves recorded is the agent's.                            *)
LEMMA SweptIsOurs ==
  ASSUME TypeOK, Births, Kin, Leads, ChildIsThere, RecordsHold,
         NEW lag \in 0..Lag, NEW round \in Rounding,
         NEW s \in Refreshed(sweep, lag, round), NEW g \in Ids, s[g] # None
  PROVE  /\ s[g] \in Record /\ Dated(s[g], g)
         /\ misled \/ Reused \/ g \in joined \/ g \in mine
<1> DEFINE m == Merged(sweep[g], g, Targets, lag, round)
<1>0. Lag \in Nat /\ now \in Nat /\ lag \in Nat /\ lag <= Lag
  BY ProcessSweepAssumption DEF TypeOK
<1>1. s[g] = Confirmed(m, g, lag, round)
  BY DEF Refreshed, Capped, Cut, Cycled
<1>2. m # None /\ Owns(m, g, lag, round) /\ s[g] = [m EXCEPT !.proven = Later(@, now + lag)]
  BY <1>1 DEF Confirmed
<1>3. sweep[g] # None => Dated(sweep[g], g)
  BY DEF RecordsHold
<1>4. m \in Record /\ Dated(m, g)
  BY <1>2, <1>3, MergedIsRecord
<1>5. s[g] \in Record /\ Dated(s[g], g)
  <2>1. m.proven \in Nat /\ m.witness_started \in Nat
    BY <1>4 DEF Record
  <2>2. Later(m.proven, now + lag) \in Nat /\ Later(m.proven, now + lag) <= now + Lag
    BY <1>0, <1>4, <2>1 DEF Later, Dated
  <2> QED
    BY <1>2, <1>4, <2>1, <2>2 DEF Record, Dated
<1>6. ASSUME ~misled, ~Reused, g \notin joined PROVE g \in mine
  <2>1. CASE g \in Targets
    BY <1>6, <2>1, TargetsAreOurs
  <2>2. CASE g \notin Targets
    <3>1. m = sweep[g]
      BY <2>2 DEF Merged
    <3>2. Outlived(m, g)
      BY <1>2, <1>6, <3>1 DEF RecordsHold
    <3> QED
      BY <1>2, <1>4, <3>2, OwnedIsOurs
  <2> QED
    BY <2>1, <2>2
<1> QED
  BY <1>5, <1>6

(* What is found to signal from the record.                                *)
LEMMA KilledIsOurs ==
  ASSUME TypeOK, RecordsHold, ~misled, NEW lag \in 0..Lag, NEW round \in Rounding
  PROVE  ToKill(sweep, lag, round) \subseteq Ids /\ ToKill(sweep, lag, round) \ mine \subseteq joined
<1> SUFFICES ASSUME NEW g \in ToKill(sweep, lag, round), g \notin joined PROVE g \in mine
  BY DEF ToKill
<1>1. g \in Ids /\ sweep[g] # None /\ Owns(sweep[g], g, lag, round)
  BY DEF ToKill
<1>2. sweep[g] \in Record /\ Outlived(sweep[g], g)
  BY <1>1 DEF TypeOK, Sweeps, RecordsHold
<1> QED
  BY <1>1, <1>2, OwnedIsOurs

--------------------------------------------------------------------------------
(* The invariant is inductive, an action at a time.                        *)

LEMMA InitHolds == Init => Inv
<1> SUFFICES ASSUME Init PROVE Inv
  OBVIOUS
<1>0. Ids \subseteq Nat \ {0, 1} /\ Cli \in Ids /\ Cli \notin Pids /\ PidWrap \in Nat
  BY ProcessSweepAssumption DEF Ids
<1>1. TypeOK
  <2>1. ASSUME NEW p \in Ids
        PROVE  [alive |-> p \notin Pids, ppid |-> 1, pgid |-> p, born |-> 0,
                ours |-> p = Cli] \in Process
    BY DEF Process
  <2>2. proc \in [Ids -> Process]
    BY <2>1 DEF Init
  <2>3. sweep \in Sweeps
    BY DEF Init, Empty, Sweeps
  <2>4. now \in Nat /\ changes \in Nat /\ exited \in BOOLEAN
        /\ teardown \in {"no", "polling", "done", "blind"}
        /\ mine \subseteq Ids /\ wrong \subseteq Ids /\ joined \subseteq Ids /\ misled \in BOOLEAN
    BY <1>0 DEF Init
  <2> QED
    BY <2>2, <2>3, <2>4 DEF TypeOK
<1>2. Births /\ Kin /\ ChildIsThere
  <2>1. \A p \in Ids : proc[p].born = 0 /\ proc[p].ppid = 1
    BY DEF Init
  <2>2. now \in Nat /\ 1 \notin Ids /\ proc[Cli].alive /\ proc[Cli].ours
    BY <1>0 DEF Init
  <2> QED
    BY <2>1, <2>2 DEF Births, Kin, ChildIsThere, Alive
<1>3. Leads
  BY <1>0 DEF Init, Leads
<1>4. RecordsHold /\ OnlyOurs
  BY DEF Init, RecordsHold, Empty, OnlyOurs
<1> QED
  BY <1>1, <1>2, <1>3, <1>4 DEF Inv

LEMMA TickHolds == Inv /\ Tick => Inv'
<1> SUFFICES ASSUME Inv, Tick PROVE Inv'
  OBVIOUS
<1>0. now \in Nat /\ now' = now + 1 /\ Lag \in Nat /\ Coarse \in Nat /\ PidWrap \in Nat
      /\ UNCHANGED <<changes, proc, mine, joined, exited, sweep, teardown, wrong, misled>>
  BY ProcessSweepAssumption DEF Inv, TypeOK, Tick
<1>1. TypeOK'
  BY <1>0 DEF Inv, TypeOK, Sweeps
<1>2. Births'
  <2> SUFFICES ASSUME NEW p \in Ids PROVE proc[p].born <= now + 1
    BY <1>0 DEF Births
  <2>1. proc[p].born \in Nat /\ proc[p].born <= now
    BY DEF Inv, TypeOK, Process, Births
  <2> QED
    BY <1>0, <2>1
<1>3. Kin' /\ ChildIsThere' /\ Leads' /\ OnlyOurs'
  BY <1>0 DEF Inv, Kin, ChildIsThere, Leads, OnlyOurs, Alive, Group
<1>4. RecordsHold'
  <2> SUFFICES ASSUME NEW g \in Ids, sweep[g] # None
               PROVE  Dated(sweep[g], g)' /\ (misled \/ g \in joined \/ Outlived(sweep[g], g)')
    BY <1>0 DEF RecordsHold
  <2>1. sweep[g].proven \in Nat /\ sweep[g].proven <= now + Lag
        /\ sweep[g].witness_started <= proc[g].born + Lag + Coarse
    BY DEF Inv, TypeOK, Sweeps, Record, RecordsHold, Dated
  <2>2. Dated(sweep[g], g)'
    BY <1>0, <2>1 DEF Dated
  <2>3. misled \/ g \in joined \/ Outlived(sweep[g], g)
    BY DEF Inv, RecordsHold
  <2>4. Outlived(sweep[g], g) => Outlived(sweep[g], g)'
    BY <1>0 DEF Outlived, Alive, Group
  <2> QED
    BY <2>2, <2>3, <2>4
<1> QED
  BY <1>1, <1>2, <1>3, <1>4 DEF Inv

LEMMA ForkHolds == ASSUME NEW p \in Ids, NEW c \in Ids, Inv, Fork(p, c) PROVE Inv'
<1>0. /\ Lag \in Nat /\ Coarse \in Nat /\ PidWrap \in Nat /\ now \in Nat /\ changes \in Nat
      /\ Cli \in Ids /\ 1 \notin Ids
      /\ \A q \in Ids : proc[q] \in Process /\ proc[q].born \in Nat /\ proc[q].born <= now
      /\ proc \in [Ids -> Process]
  BY ProcessSweepAssumption DEF Inv, TypeOK, Births, Ids, Process
<1>1. /\ Alive(p) /\ ~Alive(c) /\ Group(c) = {} /\ now >= proc[c].born + PidWrap
      /\ changes' = changes + 1
      /\ UNCHANGED <<now, joined, exited, sweep, teardown, wrong, misled>>
  BY DEF Fork
<1>2. PICK g \in {c, proc[p].pgid} \union {h \in Pids : Group(h) # {}} :
        /\ proc' = [proc EXCEPT ![c] = [alive |-> TRUE, ppid |-> p, pgid |-> g,
                                        born |-> now, ours |-> proc[p].ours]]
        /\ mine' = IF g # c THEN mine
                   ELSE IF proc[p].ours THEN mine \union {c} ELSE mine \ {c}
  BY DEF Fork
<1> DEFINE new == [alive |-> TRUE, ppid |-> p, pgid |-> g, born |-> now, ours |-> proc[p].ours]
<1>3. p # c /\ p \in Group(proc[p].pgid) /\ proc[p].pgid \in Ids
  BY <1>0, <1>1 DEF Group, Process
<1>4. g \in Ids /\ (g = c \/ Group(g) # {})
  BY <1>2, <1>3 DEF Ids
<1>5. new \in Process
  BY <1>0, <1>4 DEF Process
<1>6. proc' \in [Ids -> Process] /\ proc'[c] = new /\ \A q \in Ids \ {c} : proc'[q] = proc[q]
  BY <1>0, <1>2, <1>5
<1>7. mine' \subseteq Ids /\ (\A h \in Ids \ {c} : h \in mine' <=> h \in mine)
  BY <1>2 DEF Inv, TypeOK
<1>8. \A h \in Ids : Group(h)' = IF h = g THEN Group(h) \union {c} ELSE Group(h)
  BY <1>0, <1>1, <1>6 DEF Group, Alive
<1>9. TypeOK'
  BY <1>0, <1>1, <1>6, <1>7 DEF Inv, TypeOK, Sweeps
<1>10. Births'
  <2> SUFFICES ASSUME NEW q \in Ids PROVE proc'[q].born <= now
    BY <1>1 DEF Births
  <2> QED
    BY <1>0, <1>6
<1>11. Kin'
  <2> SUFFICES ASSUME NEW q \in Ids, proc'[q].alive, proc'[q].ppid \in Ids
               PROVE  /\ proc'[proc'[q].ppid].alive
                      /\ proc'[proc'[q].ppid].ours => proc'[q].ours
    BY DEF Kin, Alive
  <2>1. CASE q = c
    BY <1>1, <1>3, <1>6, <2>1 DEF Alive
  <2>2. CASE q # c
    <3>1. proc'[q] = proc[q] /\ Alive(proc[q].ppid)
          /\ (proc[proc[q].ppid].ours => proc[q].ours)
      BY <1>6, <2>2 DEF Inv, Kin, Alive
    <3>2. proc[q].ppid # c
      BY <1>1, <3>1
    <3> QED
      BY <1>6, <3>1, <3>2 DEF Alive
  <2> QED
    BY <2>1, <2>2
<1>12. ChildIsThere'
  BY <1>0, <1>1, <1>6 DEF Inv, ChildIsThere, Alive
<1>13. Leads'
  <2> SUFFICES ASSUME NEW h \in Ids, proc'[h].alive, proc'[h].ours, Group(h)' # {}
               PROVE  h \in mine'
    BY DEF Leads, Alive
  <2>1. CASE h = c
    <3>1. g = c
      BY <1>1, <1>8, <2>1
    <3> QED
      BY <1>2, <1>6, <2>1, <3>1
  <2>2. CASE h # c
    <3>1. Group(h) # {}
      BY <1>4, <1>8, <2>2
    <3>2. h \in mine
      BY <1>6, <2>2, <3>1 DEF Inv, Leads, Alive
    <3> QED
      BY <1>7, <2>2, <3>2
  <2> QED
    BY <2>1, <2>2
<1>14. RecordsHold'
  <2> SUFFICES ASSUME NEW h \in Ids, sweep[h] # None
               PROVE  Dated(sweep[h], h)' /\ (misled \/ h \in joined \/ Outlived(sweep[h], h)')
    BY <1>1 DEF RecordsHold
  <2>1. /\ sweep[h].proven \in Nat /\ sweep[h].proven <= now + Lag
        /\ sweep[h].witness_started \in Nat
        /\ sweep[h].witness_started <= proc[h].born + Lag + Coarse
    BY DEF Inv, TypeOK, Sweeps, Record, RecordsHold, Dated
  <2>2. Dated(sweep[h], h)'
    <3>1. sweep[h].witness_started <= proc'[h].born + Lag + Coarse
      BY <1>0, <1>6, <2>1
    <3> QED
      BY <1>1, <2>1, <3>1 DEF Dated
  <2>3. ASSUME Outlived(sweep[h], h) \/ h = c, h \notin mine'
        PROVE  /\ \A q \in Group(h)' : proc'[q].born + Lag >= sweep[h].proven
               /\ Alive(h)' /\ proc'[h].pgid = h =>
                    proc'[h].born + Lag + Coarse >= sweep[h].witness_started + PidWrap
    <3>1. CASE h = c
      <4>1. \A q \in Group(h)' : q = c
        BY <1>1, <1>8, <3>1
      <4>2. proc'[c].born = now
        BY <1>6
      <4>3. now + Lag + Coarse >= sweep[h].witness_started + PidWrap
        <5>1. proc[c].born \in Nat /\ now >= proc[c].born + PidWrap
              /\ sweep[h].witness_started <= proc[c].born + Lag + Coarse
          BY <1>0, <1>1, <2>1, <3>1
        <5> QED
          BY <1>0, <2>1, <5>1
      <4> QED
        BY <1>0, <2>1, <3>1, <4>1, <4>2, <4>3
    <3>2. CASE h # c
      <4>1. h \notin mine /\ Outlived(sweep[h], h)
        BY <1>7, <2>3, <3>2
      <4>2. ASSUME NEW q \in Group(h)' PROVE proc'[q].born + Lag >= sweep[h].proven
        <5>1. CASE q = c
          BY <1>0, <1>6, <2>1, <5>1
        <5>2. CASE q # c
          BY <1>6, <1>8, <4>1, <4>2, <5>2 DEF Outlived, Group
        <5> QED
          BY <5>1, <5>2
      <4>3. Alive(h)' /\ proc'[h].pgid = h =>
              proc'[h].born + Lag + Coarse >= sweep[h].witness_started + PidWrap
        BY <1>6, <3>2, <4>1 DEF Outlived, Alive
      <4> QED
        BY <4>2, <4>3
    <3> QED
      BY <3>1, <3>2
  <2>4. misled \/ h \in joined \/ Outlived(sweep[h], h)
    BY DEF Inv, RecordsHold
  <2>5. Outlived(sweep[h], h) => Outlived(sweep[h], h)'
    BY <1>1, <2>3 DEF Outlived
  <2> QED
    BY <2>2, <2>4, <2>5
<1>15. OnlyOurs'
  BY <1>1 DEF Inv, OnlyOurs
<1> QED
  BY <1>9, <1>10, <1>11, <1>12, <1>13, <1>14, <1>15 DEF Inv

LEMMA EntersHolds == ASSUME NEW p \in Ids, NEW g \in Ids, Inv, Enters(p, g) PROVE Inv'
<1>1. /\ Alive(p) /\ Group(g) # {} /\ joined' = joined \union {g}
      /\ proc' = [proc EXCEPT ![p].pgid = g]
      /\ changes' = changes + 1
      /\ UNCHANGED <<now, mine, exited, sweep, teardown, wrong, misled>>
  BY DEF Enters
<1>2. /\ proc \in [Ids -> Process]
      /\ \A q \in Ids : proc[q] \in Process /\ proc[q].born \in Nat
  BY DEF Inv, TypeOK, Process
<1>3. /\ proc' \in [Ids -> Process]
      /\ \A q \in Ids : /\ proc'[q].alive = proc[q].alive /\ proc'[q].ppid = proc[q].ppid
                        /\ proc'[q].born = proc[q].born /\ proc'[q].ours = proc[q].ours
                        /\ proc'[q].pgid = IF q = p THEN g ELSE proc[q].pgid
  BY <1>1, <1>2 DEF Process
<1>4. \A h \in Ids \ {g} : Group(h)' \subseteq Group(h)
  BY <1>3 DEF Group, Alive
<1>5. TypeOK'
  <2>1. changes' \in Nat
    BY <1>1 DEF Inv, TypeOK
  <2> QED
    BY <1>1, <1>3, <2>1 DEF Inv, TypeOK, Sweeps
<1>6. Births' /\ ChildIsThere'
  BY <1>1, <1>3, ProcessSweepAssumption DEF Inv, Births, ChildIsThere, Alive, Ids
<1>7. Kin'
  <2> SUFFICES ASSUME NEW q \in Ids, proc'[q].alive, proc'[q].ppid \in Ids
               PROVE  /\ proc'[proc'[q].ppid].alive
                      /\ proc'[proc'[q].ppid].ours => proc'[q].ours
    BY DEF Kin, Alive
  <2>1. proc[q].alive /\ proc[q].ppid \in Ids /\ proc'[q].ppid = proc[q].ppid
    BY <1>3
  <2>2. proc[proc[q].ppid].alive /\ (proc[proc[q].ppid].ours => proc[q].ours)
    BY <2>1 DEF Inv, Kin, Alive
  <2> QED
    BY <1>3, <2>1, <2>2
<1>8. Leads'
  <2> SUFFICES ASSUME NEW h \in Ids, proc'[h].alive, proc'[h].ours, Group(h)' # {}
               PROVE  h \in mine
    BY <1>1 DEF Leads, Alive
  <2>1. Group(h) # {}
    BY <1>1, <1>4
  <2> QED
    BY <1>3, <2>1 DEF Inv, Leads, Alive
<1>9. RecordsHold'
  <2> SUFFICES ASSUME NEW h \in Ids, sweep[h] # None
               PROVE  Dated(sweep[h], h)' /\ (misled \/ h \in joined' \/ Outlived(sweep[h], h)')
    BY <1>1 DEF RecordsHold
  <2>1. Dated(sweep[h], h) /\ (misled \/ h \in joined \/ Outlived(sweep[h], h))
    BY DEF Inv, RecordsHold
  <2>2. Dated(sweep[h], h)'
    BY <1>1, <1>3, <2>1 DEF Dated
  <2>3. ASSUME Outlived(sweep[h], h), h # g PROVE Outlived(sweep[h], h)'
    <3>1. proc'[h].alive /\ proc'[h].pgid = h => Alive(h) /\ proc[h].pgid = h
      BY <1>3, <2>3 DEF Alive
    <3>2. \A q \in Group(h)' : q \in Group(h) /\ proc'[q].born = proc[q].born
      BY <1>3, <1>4, <2>3 DEF Group
    <3> QED
      BY <1>1, <1>3, <2>3, <3>1, <3>2 DEF Outlived, Alive
  <2> QED
    BY <1>1, <2>1, <2>2, <2>3
<1>10. OnlyOurs'
  BY <1>1 DEF Inv, OnlyOurs
<1> QED
  BY <1>5, <1>6, <1>7, <1>8, <1>9, <1>10 DEF Inv

(* The end of processes, whoever ends them.                                *)
LEMMA EndHolds ==
  ASSUME Inv, NEW ps \in SUBSET Ids, End(ps), UNCHANGED <<now, changes, joined, sweep, misled>>
  PROVE  /\ proc' \in [Ids -> Process] /\ mine' \subseteq Ids /\ exited' \in BOOLEAN
         /\ Births' /\ Kin' /\ Leads' /\ ChildIsThere' /\ RecordsHold'
<1>0. 1 \notin Ids /\ Cli \in Ids
  BY ProcessSweepAssumption DEF Ids
<1>1. proc \in [Ids -> Process] /\ \A q \in Ids : proc[q] \in Process /\ proc[q].born \in Nat
  BY DEF Inv, TypeOK, Process
<1>2. proc' = Ended(ps) /\ mine' = {g \in mine : ~(Group(g) \subseteq ps)}
      /\ exited' = (exited \/ Cli \in ps)
  BY DEF End
<1>3. ASSUME NEW q \in Ids
      PROVE  /\ proc'[q] \in Process /\ proc'[q].born = proc[q].born
             /\ q \in ps => ~proc'[q].alive /\ ~proc'[q].ours
             /\ q \notin ps => /\ proc'[q].alive = proc[q].alive /\ proc'[q].ours = proc[q].ours
                               /\ proc'[q].pgid = proc[q].pgid
                               /\ proc'[q].ppid = 1 \/ (proc'[q].ppid = proc[q].ppid
                                                        /\ proc[q].ppid \notin ps)
  <2>1. CASE q \in ps
    <3>1. proc'[q] = [proc[q] EXCEPT !.alive = FALSE, !.ppid = 1, !.pgid = q, !.ours = FALSE]
      BY <1>2, <2>1 DEF Ended
    <3> QED
      BY <1>1, <2>1, <3>1 DEF Process
  <2>2. CASE q \notin ps /\ proc[q].ppid \in ps
    <3>1. proc'[q] = [proc[q] EXCEPT !.ppid = 1]
      BY <1>2, <2>2 DEF Ended
    <3> QED
      BY <1>1, <2>2, <3>1 DEF Process
  <2>3. CASE q \notin ps /\ proc[q].ppid \notin ps
    BY <1>1, <1>2, <2>3 DEF Ended
  <2> QED
    BY <2>1, <2>2, <2>3
<1>4. proc' \in [Ids -> Process]
  BY <1>2, <1>3 DEF Ended
<1>5. \A h \in Ids : Group(h)' = Group(h) \ ps
  BY <1>3 DEF Group, Alive
<1>6. mine' \subseteq Ids /\ exited' \in BOOLEAN
  BY <1>2 DEF Inv, TypeOK
<1>7. Births' /\ ChildIsThere'
  BY <1>0, <1>2, <1>3 DEF Inv, Births, ChildIsThere, Alive
<1>8. Kin'
  <2> SUFFICES ASSUME NEW q \in Ids, proc'[q].alive, proc'[q].ppid \in Ids
               PROVE  /\ proc'[proc'[q].ppid].alive
                      /\ proc'[proc'[q].ppid].ours => proc'[q].ours
    BY DEF Kin, Alive
  <2>1. q \notin ps /\ proc'[q].ppid = proc[q].ppid /\ proc[q].ppid \notin ps
    BY <1>0, <1>3
  <2>2. proc[q].alive /\ proc[q].ppid \in Ids
    BY <1>3, <2>1
  <2>3. proc[proc[q].ppid].alive /\ (proc[proc[q].ppid].ours => proc[q].ours)
    BY <2>2 DEF Inv, Kin, Alive
  <2> QED
    BY <1>3, <2>1, <2>2, <2>3
<1>9. Leads'
  <2> SUFFICES ASSUME NEW h \in Ids, proc'[h].alive, proc'[h].ours, Group(h)' # {}
               PROVE  h \in mine'
    BY DEF Leads, Alive
  <2>1. h \notin ps /\ Group(h) # {} /\ ~(Group(h) \subseteq ps)
    BY <1>3, <1>5
  <2>2. h \in mine
    BY <1>3, <2>1 DEF Inv, Leads, Alive
  <2> QED
    BY <1>2, <2>1, <2>2
<1>10. RecordsHold'
  <2> SUFFICES ASSUME NEW h \in Ids, sweep[h] # None
               PROVE  Dated(sweep[h], h)' /\ (misled \/ h \in joined \/ Outlived(sweep[h], h)')
    BY DEF RecordsHold
  <2>1. Dated(sweep[h], h) /\ (misled \/ h \in joined \/ Outlived(sweep[h], h))
    BY DEF Inv, RecordsHold
  <2>2. Dated(sweep[h], h)'
    BY <1>3, <2>1 DEF Dated
  <2>3. ASSUME Outlived(sweep[h], h), h \notin mine'
        PROVE  /\ \A q \in Group(h)' : proc'[q].born + Lag >= sweep[h].proven
               /\ proc'[h].alive /\ proc'[h].pgid = h =>
                    proc'[h].born + Lag + Coarse >= sweep[h].witness_started + PidWrap
    <3>1. proc'[h].alive /\ proc'[h].pgid = h => Alive(h) /\ proc[h].pgid = h /\ h \in Group(h)'
      BY <1>3, <1>5 DEF Alive, Group
    <3>2. CASE h \in mine
      BY <1>2, <1>5, <2>3, <3>1, <3>2
    <3>3. CASE h \notin mine
      <4>1. \A q \in Group(h)' : q \in Group(h) /\ q \in Ids
        BY <1>5 DEF Group
      <4> QED
        BY <1>3, <2>3, <3>1, <3>3, <4>1 DEF Outlived
    <3> QED
      BY <3>2, <3>3
  <2>4. Outlived(sweep[h], h) => Outlived(sweep[h], h)'
    BY <2>3 DEF Outlived, Alive
  <2> QED
    BY <2>1, <2>2, <2>4
<1> QED
  BY <1>4, <1>6, <1>7, <1>8, <1>9, <1>10

LEMMA ExitsHolds == ASSUME NEW p \in Ids, Inv, Exits(p) PROVE Inv'
<1>1. End({p}) /\ UNCHANGED <<now, changes, joined, sweep, teardown, wrong, misled>>
  BY DEF Exits
<1>2. /\ proc' \in [Ids -> Process] /\ mine' \subseteq Ids /\ exited' \in BOOLEAN
      /\ Births' /\ Kin' /\ Leads' /\ ChildIsThere' /\ RecordsHold'
  <2>1. {p} \in SUBSET Ids
    OBVIOUS
  <2> QED
    BY <1>1, <2>1, EndHolds
<1>3. TypeOK'
  BY <1>1, <1>2 DEF Inv, TypeOK, Sweeps
<1>4. OnlyOurs'
  BY <1>1 DEF Inv, OnlyOurs
<1> QED
  BY <1>2, <1>3, <1>4 DEF Inv

LEMMA RefreshHolds == Inv /\ Refresh => Inv'
<1> SUFFICES ASSUME Inv, Refresh PROVE Inv'
  OBVIOUS
<1>1. PICK lag \in 0..Lag, round \in Rounding : sweep' \in Refreshed(sweep, lag, round)
  BY DEF Refresh
<1>2. misled' = (misled \/ Reused) /\ UNCHANGED <<world, exited, teardown, wrong>>
  BY DEF Refresh
<1>3. ASSUME NEW g \in Ids, sweep'[g] # None
      PROVE  /\ sweep'[g] \in Record /\ Dated(sweep'[g], g)
             /\ misled \/ Reused \/ g \in joined \/ g \in mine
  BY <1>1, <1>3, SweptIsOurs DEF Inv
<1>4. sweep' \in Sweeps
  <2>1. sweep' = [g \in Ids |-> sweep'[g]]
    BY <1>1 DEF Refreshed, Capped, Cut
  <2>2. \A g \in Ids : sweep'[g] \in Record \union {None}
    BY <1>3
  <2> QED
    BY <2>1, <2>2 DEF Sweeps
<1>5. TypeOK'
  <2>1. misled' \in BOOLEAN
    BY <1>2 DEF Inv, TypeOK, Reused, Alive, Process
  <2> QED
    BY <1>2, <1>4, <2>1 DEF Inv, TypeOK, world
<1>6. Births' /\ Kin' /\ Leads' /\ ChildIsThere' /\ OnlyOurs'
  BY <1>2 DEF Inv, Births, Kin, Leads, ChildIsThere, OnlyOurs, Alive, Group, world
<1>7. RecordsHold'
  <2>1. ASSUME NEW g \in Ids, sweep'[g] # None
        PROVE  /\ sweep'[g].proven <= now' + Lag
               /\ sweep'[g].witness_started <= proc'[g].born + Lag + Coarse
               /\ misled' \/ g \in joined' \/ g \in mine'
    <3>1. Dated(sweep'[g], g) /\ (misled \/ Reused \/ g \in joined \/ g \in mine)
      BY <1>3, <2>1
    <3> QED
      BY <1>2, <3>1 DEF Dated, world
  <2> QED
    BY <2>1 DEF RecordsHold, Dated, Outlived
<1> QED
  BY <1>5, <1>6, <1>7 DEF Inv

(* Steps that only find groups to signal.                                  *)
LEMMA SignalsHold ==
  ASSUME Inv, NEW S, S \subseteq Ids, misled \/ S \ mine \subseteq joined, Signals(S),
         UNCHANGED <<joined, misled>>
  PROVE  wrong' \subseteq Ids /\ OnlyOurs'
BY DEF Inv, TypeOK, OnlyOurs, Signals

LEMMA StopHolds == Inv /\ Stop => Inv'
<1> SUFFICES ASSUME Inv, Stop PROVE Inv'
  OBVIOUS
<1>1. PICK lag \in 0..Lag, round \in Rounding : Signals(StopTargets(lag, round))
  BY DEF Stop
<1>2. ~exited /\ UNCHANGED <<world, exited, sweep, teardown, misled>>
  BY DEF Stop
<1>3. \A g \in Targets : g \in mine /\ g \in Ids
  BY <1>2, TargetsAreOurs DEF Inv, Reused
<1>4. misled \/ ToKill(sweep, lag, round) \ mine \subseteq joined
  BY KilledIsOurs DEF Inv
<1>5. StopTargets(lag, round) \subseteq Ids
      /\ (misled \/ StopTargets(lag, round) \ mine \subseteq joined)
  BY <1>3, <1>4 DEF StopTargets, ToKill
<1>6. wrong' \subseteq Ids /\ OnlyOurs'
  BY <1>1, <1>2, <1>5, SignalsHold DEF world
<1>7. TypeOK'
  BY <1>2, <1>6 DEF Inv, TypeOK, Sweeps, world
<1>8. Births' /\ Kin' /\ Leads' /\ ChildIsThere' /\ RecordsHold'
  BY <1>2 DEF Inv, Births, Kin, Leads, ChildIsThere, RecordsHold, Dated, Outlived, Alive, Group, world
<1> QED
  BY <1>6, <1>7, <1>8 DEF Inv

LEMMA TeardownFindsHolds == Inv /\ TeardownFinds => Inv'
<1> SUFFICES ASSUME Inv, TeardownFinds PROVE Inv'
  OBVIOUS
<1>1. PICK lag \in 0..Lag, round \in Rounding :
        /\ Signals(ToKill(sweep, lag, round))
        /\ teardown' = IF ToKill(sweep, lag, round) = {} THEN "done" ELSE "polling"
  BY DEF TeardownFinds
<1>2. UNCHANGED <<world, exited, sweep, misled>>
  BY DEF TeardownFinds
<1>3. ToKill(sweep, lag, round) \subseteq Ids
      /\ (misled \/ ToKill(sweep, lag, round) \ mine \subseteq joined)
  BY KilledIsOurs DEF Inv, ToKill
<1>4. wrong' \subseteq Ids /\ OnlyOurs'
  BY <1>1, <1>2, <1>3, SignalsHold DEF world
<1>5. TypeOK'
  BY <1>1, <1>2, <1>4 DEF Inv, TypeOK, Sweeps, world
<1>6. Births' /\ Kin' /\ Leads' /\ ChildIsThere' /\ RecordsHold'
  BY <1>2 DEF Inv, Births, Kin, Leads, ChildIsThere, RecordsHold, Dated, Outlived, Alive, Group, world
<1> QED
  BY <1>4, <1>5, <1>6 DEF Inv

LEMMA TeardownEndsHolds == Inv /\ TeardownEnds => Inv'
<1> SUFFICES ASSUME Inv, TeardownEnds PROVE Inv'
  OBVIOUS
<1>1. teardown' = "done" /\ UNCHANGED <<world, exited, sweep, wrong, misled>>
  BY DEF TeardownEnds
<1>2. TypeOK' /\ OnlyOurs'
  BY <1>1 DEF Inv, TypeOK, OnlyOurs, Sweeps, world
<1>3. Births' /\ Kin' /\ Leads' /\ ChildIsThere' /\ RecordsHold'
  BY <1>1 DEF Inv, Births, Kin, Leads, ChildIsThere, RecordsHold, Dated, Outlived, Alive, Group, world
<1> QED
  BY <1>2, <1>3 DEF Inv

LEMMA TeardownUnreadHolds == Inv /\ TeardownUnread => Inv'
<1> SUFFICES ASSUME Inv, TeardownUnread PROVE Inv'
  OBVIOUS
<1>1. teardown' = "blind" /\ UNCHANGED <<world, exited, sweep, wrong, misled>>
  BY DEF TeardownUnread
<1>2. TypeOK' /\ OnlyOurs'
  BY <1>1 DEF Inv, TypeOK, OnlyOurs, Sweeps, world
<1>3. Births' /\ Kin' /\ Leads' /\ ChildIsThere' /\ RecordsHold'
  BY <1>1 DEF Inv, Births, Kin, Leads, ChildIsThere, RecordsHold, Dated, Outlived, Alive, Group, world
<1> QED
  BY <1>2, <1>3 DEF Inv

LEMMA TeardownKillsHolds == Inv /\ TeardownKills => Inv'
<1> SUFFICES ASSUME Inv, TeardownKills PROVE Inv'
  OBVIOUS
<1>1. PICK lag \in 0..Lag, round \in Rounding :
        /\ Signals(ToKill(sweep, lag, round))
        /\ End({p \in Ids : Alive(p) /\ proc[p].pgid \in ToKill(sweep, lag, round)})
  BY DEF TeardownKills
<1>2. teardown' = "done" /\ UNCHANGED <<now, changes, joined, sweep, misled>>
  BY DEF TeardownKills
<1>3. ToKill(sweep, lag, round) \subseteq Ids
      /\ (misled \/ ToKill(sweep, lag, round) \ mine \subseteq joined)
  BY KilledIsOurs DEF Inv, ToKill
<1>4. wrong' \subseteq Ids /\ OnlyOurs'
  BY <1>1, <1>2, <1>3, SignalsHold
<1>5. /\ proc' \in [Ids -> Process] /\ mine' \subseteq Ids /\ exited' \in BOOLEAN
      /\ Births' /\ Kin' /\ Leads' /\ ChildIsThere' /\ RecordsHold'
  BY <1>1, <1>2, EndHolds
<1>6. TypeOK'
  BY <1>2, <1>4, <1>5 DEF Inv, TypeOK, Sweeps
<1> QED
  BY <1>4, <1>5, <1>6 DEF Inv

--------------------------------------------------------------------------------
(* The theorems.                                                           *)

LEMMA NextHolds == Inv /\ [Next]_vars => Inv'
<1> SUFFICES ASSUME Inv, [Next]_vars PROVE Inv'
  OBVIOUS
<1>1. CASE Kernel
  BY <1>1, TickHolds, ForkHolds, EntersHolds, ExitsHolds DEF Kernel
<1>2. CASE Refresh \/ Stop
  BY <1>2, RefreshHolds, StopHolds
<1>3. CASE TeardownFinds \/ TeardownEnds \/ TeardownUnread \/ TeardownKills
  BY <1>3, TeardownFindsHolds, TeardownEndsHolds, TeardownUnreadHolds, TeardownKillsHolds
<1>4. CASE UNCHANGED vars
  <2>1. TypeOK' /\ OnlyOurs'
    BY <1>4 DEF Inv, TypeOK, OnlyOurs, Sweeps, vars, world
  <2>2. Births' /\ Kin' /\ Leads' /\ ChildIsThere' /\ RecordsHold'
    BY <1>4 DEF Inv, Births, Kin, Leads, ChildIsThere, RecordsHold, Dated, Outlived, Alive, Group,
                vars, world
  <2> QED
    BY <2>1, <2>2 DEF Inv
<1> QED
  BY <1>1, <1>2, <1>3, <1>4 DEF Next

(* Kernel and record agree, however ids are reused, for any lag the slack  *)
(* covers.                                                                 *)
THEOREM SpecInv == Spec => []Inv
<1>1. Inv /\ [Next]_vars => Inv'
  BY NextHolds
<1> QED
  BY <1>1, InitHolds, PTL DEF Spec

(* Type correctness.                                                       *)
THEOREM TypeCorrect == Spec => []TypeOK
<1>1. Inv => TypeOK
  BY DEF Inv
<1> QED
  BY <1>1, SpecInv, PTL

(* Nothing is found to signal but what the agent's own processes started.  *)
THEOREM SignalsOnlyOurs == Spec => []OnlyOurs
<1>1. Inv => OnlyOurs
  BY DEF Inv
<1> QED
  BY <1>1, SpecInv, PTL

(* What a recorded group was last proved by still proves it.               *)
THEOREM RecordsAreProofs == Spec => []ProofsHold
<1>1. Inv => ProofsHold
  BY DEF Inv, ProofsHold, RecordsHold, Outlived
<1> QED
  BY <1>1, SpecInv, PTL

--------------------------------------------------------------------------------
(* What is left when the teardown returns.                                 *)

(* A group that is owned was owned already, if nobody came into it.        *)
LEMMA OwnedBefore ==
  ASSUME NEW g \in Ids, NEW r, NEW lag, NEW round, Owns(r, g, lag, round)',
         \A p \in Ids : Alive(p)' /\ proc'[p].pgid = g =>
           Alive(p) /\ proc[p].pgid = g /\ proc'[p].born = proc[p].born
  PROVE  Owns(r, g, lag, round)
<1>1. CASE /\ Alive(g)' /\ proc'[g].pgid = g
           /\ LET late == Started(g, lag, round)' - r.witness_started
              IN late <= ClockSlack /\ -late <= ClockSlack
  BY <1>1 DEF Owns, Started
<1>2. CASE \E p \in Ids : Alive(p)' /\ proc'[p].pgid = g
                          /\ Started(p, lag, round)' + ProofSlack <= r.proven
  BY <1>2 DEF Owns, Started
<1> QED
  BY <1>1, <1>2 DEF Owns

(* A process that is started now makes no group owned: it is too young for *)
(* any proof and, as a leader, for the leader that was seen.               *)
LEMMA NotOwnedByNew ==
  ASSUME Inv, NEW p \in Ids, NEW c \in Ids, Fork(p, c),
         NEW g \in Ids, sweep[g] # None, NEW r, r = sweep[g],
         NEW lag \in 0..Lag, NEW round \in Rounding, Owns(r, g, lag, round)'
  PROVE  Owns(r, g, lag, round)
<1>1. /\ ClockSlack \in Nat /\ ProofSlack \in Nat /\ Lag \in Nat /\ Coarse \in Nat
      /\ PidWrap \in Nat /\ Lag < ProofSlack /\ ClockSlack + Lag + Coarse < PidWrap
      /\ lag \in Nat /\ round[c] \in Nat /\ now \in Nat /\ proc[c].born \in Nat
  BY ProcessSweepAssumption DEF Rounding, Inv, TypeOK, Process
<1>2. now >= proc[c].born + PidWrap /\ proc'[c].born = now
  BY DEF Fork, Inv, TypeOK
<1>3. r.proven \in Nat /\ r.witness_started \in Nat
  BY DEF Inv, TypeOK, Sweeps, Record
<1>4. r.proven <= now + Lag /\ r.witness_started <= proc[g].born + Lag + Coarse
  BY DEF Inv, RecordsHold, Dated
<1>5. ~(now + lag + round[c] + ProofSlack <= r.proven)
  BY <1>1, <1>3, <1>4
<1>6. c = g => ~(now + lag + round[c] - r.witness_started <= ClockSlack)
  BY <1>1, <1>2, <1>3, <1>4
<1>7. \A q \in Ids \ {c} : proc'[q] = proc[q]
  BY DEF Fork, Inv, TypeOK
<1>8. CASE /\ Alive(g)' /\ proc'[g].pgid = g
           /\ LET late == Started(g, lag, round)' - r.witness_started
              IN late <= ClockSlack /\ -late <= ClockSlack
  <2>1. g # c
    <3>1. ASSUME g = c PROVE Started(g, lag, round)' = now + lag + round[c]
      BY <1>2, <3>1 DEF Started
    <3>2. Started(g, lag, round)' - r.witness_started <= ClockSlack
      BY <1>8
    <3>3. g # c
      <4> SUFFICES ASSUME g = c PROVE FALSE
        OBVIOUS
      <4>1. now + lag + round[c] - r.witness_started <= ClockSlack
        <5>1. Started(g, lag, round)' = now + lag + round[c]
          BY <3>1
        <5> QED
          BY <1>1, <1>3, <3>2, <5>1
      <4> QED
        BY <1>6, <4>1
    <3> QED
      BY <3>3
  <2>2. Alive(g) /\ proc[g].pgid = g /\ Started(g, lag, round) = Started(g, lag, round)'
    BY <1>7, <1>8, <2>1 DEF Alive, Started
  <2> QED
    BY <1>8, <2>2 DEF Owns
<1>9. CASE \E q \in Ids : Alive(q)' /\ proc'[q].pgid = g
                          /\ Started(q, lag, round)' + ProofSlack <= r.proven
  <2>1. PICK q \in Ids : Alive(q)' /\ proc'[q].pgid = g
                         /\ Started(q, lag, round)' + ProofSlack <= r.proven
    BY <1>9
  <2>2. q # c
    BY <1>2, <1>5, <2>1 DEF Started
  <2> QED
    BY <1>7, <2>1, <2>2 DEF Owns, Alive, Started
<1> QED
  BY <1>8, <1>9 DEF Owns

(* So what was not owned is not owned later, with the records left alone.  *)
LEMMA StaysDone ==
  ASSUME Inv, NEW lag \in 0..Lag, NEW round \in Rounding,
         ToKill(sweep, lag, round) \subseteq joined, sweep' = sweep, joined \subseteq joined',
         \A g \in Ids \ joined', r \in Record :
           r = sweep[g] /\ Owns(r, g, lag, round)' => Owns(r, g, lag, round)
  PROVE  \A g \in ToKill(sweep, lag, round)' : g \in joined'
<1> SUFFICES ASSUME NEW g \in Ids, NEW r, r = sweep[g], r # None, Owns(r, g, lag, round)',
                    g \notin joined'
             PROVE  FALSE
  <2>1. ASSUME NEW g \in ToKill(sweep, lag, round)', g \notin joined' PROVE FALSE
    <3>1. g \in Ids /\ sweep'[g] # None /\ Owns(sweep[g], g, lag, round)'
      BY <2>1 DEF ToKill
    <3>2. PICK r : r = sweep[g] /\ r = sweep'[g]
      OBVIOUS
    <3>3. Owns(r, g, lag, round)'
      BY <3>1, <3>2
    <3> QED
      BY <2>1, <3>1, <3>2, <3>3
  <2> QED
    BY <2>1
<1>1. r \in Record
  BY DEF Inv, TypeOK, Sweeps
<1>2. Owns(sweep[g], g, lag, round)
  BY <1>1
<1> QED
  BY <1>2 DEF ToKill

(* A process that is there after an end was there before, as it is.        *)
LEMMA EndOnlyEnds ==
  ASSUME Inv, NEW ps \in SUBSET Ids, End(ps), NEW p \in Ids, Alive(p)'
  PROVE  /\ p \notin ps /\ Alive(p)
         /\ proc'[p].pgid = proc[p].pgid /\ proc'[p].born = proc[p].born
<1>1. proc[p] \in Process /\ proc'[p] = Ended(ps)[p]
  BY DEF Inv, TypeOK, End
<1>2. CASE p \in ps
  <2>1. proc'[p] = [proc[p] EXCEPT !.alive = FALSE, !.ppid = 1, !.pgid = p, !.ours = FALSE]
    BY <1>1, <1>2 DEF Ended
  <2> QED
    BY <1>1, <2>1 DEF Alive, Process
<1>3. CASE p \notin ps /\ proc[p].ppid \in ps
  <2>1. proc'[p] = [proc[p] EXCEPT !.ppid = 1]
    BY <1>1, <1>3 DEF Ended
  <2> QED
    BY <1>1, <1>3, <2>1 DEF Alive, Process
<1>4. CASE p \notin ps /\ proc[p].ppid \notin ps
  BY <1>1, <1>4 DEF Ended, Alive
<1> QED
  BY <1>2, <1>3, <1>4

(* The kernel does not bring back what the teardown left no claim to.      *)
LEMMA KernelLeavesDone ==
  ASSUME Inv, Kernel, teardown = "done", NoneLeft
  PROVE  NoneLeft'
<1>1. PICK lag \in 0..Lag, round \in Rounding : ToKill(sweep, lag, round) \subseteq joined
  BY DEF NoneLeft
<1>2. sweep' = sweep /\ joined \subseteq joined'
  BY DEF Kernel, Tick, Fork, Enters, Exits, world
<1>3. \A g \in Ids \ joined', r \in Record :
        r = sweep[g] /\ Owns(r, g, lag, round)' => Owns(r, g, lag, round)
  <2> SUFFICES ASSUME NEW g \in Ids, g \notin joined', NEW r \in Record, r = sweep[g],
                      Owns(r, g, lag, round)'
               PROVE  Owns(r, g, lag, round)
    OBVIOUS
  <2>1. CASE Tick
    <3>1. \A p \in Ids : Alive(p)' = Alive(p) /\ proc' = proc
      BY <2>1 DEF Tick, Alive
    <3> QED
      BY <3>1, OwnedBefore
  <2>2. ASSUME NEW p \in Ids, NEW c \in Ids, Fork(p, c) PROVE Owns(r, g, lag, round)
    BY <2>2, NotOwnedByNew, NoRecord
  <2>3. ASSUME NEW p \in Ids, NEW h \in Ids, Enters(p, h) PROVE Owns(r, g, lag, round)
    <3>1. proc' = [proc EXCEPT ![p].pgid = h] /\ g # h
      BY <2>3 DEF Enters
    <3>2. \A q \in Ids : proc'[q] = IF q = p THEN [proc[p] EXCEPT !.pgid = h] ELSE proc[q]
      BY <3>1 DEF Inv, TypeOK
    <3>3. proc[p] \in Process
      BY DEF Inv, TypeOK
    <3>4. proc'[p].pgid = h
      BY <3>2, <3>3 DEF Process
    <3>5. \A q \in Ids : Alive(q)' /\ proc'[q].pgid = g =>
            Alive(q) /\ proc[q].pgid = g /\ proc'[q].born = proc[q].born
      BY <3>1, <3>2, <3>4 DEF Alive
    <3> QED
      BY <3>5, OwnedBefore
  <2>4. ASSUME NEW p \in Ids, Exits(p) PROVE Owns(r, g, lag, round)
    <3>1. End({p}) /\ {p} \in SUBSET Ids
      BY <2>4 DEF Exits
    <3>2. \A q \in Ids : Alive(q)' /\ proc'[q].pgid = g =>
            Alive(q) /\ proc[q].pgid = g /\ proc'[q].born = proc[q].born
      BY <3>1, EndOnlyEnds
    <3> QED
      BY <3>2, OwnedBefore
  <2> QED
    BY <2>1, <2>2, <2>3, <2>4 DEF Kernel
<1>4. \A g \in ToKill(sweep, lag, round)' : g \in joined'
  BY <1>1, <1>2, <1>3, StaysDone
<1> QED
  BY <1>4 DEF NoneLeft

(* Killing every process of a group leaves nothing in it to own it by.     *)
LEMMA KillsLeaveNone ==
  ASSUME Inv, TeardownKills
  PROVE  NoneLeft'
<1>1. PICK lag \in 0..Lag, round \in Rounding :
        LET found == ToKill(sweep, lag, round)
        IN Signals(found) /\ End({p \in Ids : Alive(p) /\ proc[p].pgid \in found})
  BY DEF TeardownKills
<1> DEFINE found == ToKill(sweep, lag, round)
           ps == {p \in Ids : Alive(p) /\ proc[p].pgid \in found}
<1>2. End(ps) /\ ps \in SUBSET Ids /\ sweep' = sweep /\ joined' = joined
  BY <1>1 DEF TeardownKills
<1>3. ASSUME NEW g \in ToKill(sweep, lag, round)' PROVE FALSE
  <2>1. g \in Ids /\ sweep'[g] # None /\ Owns(sweep[g], g, lag, round)'
    BY <1>3 DEF ToKill
  <2>2. PICK r : r = sweep[g] /\ r = sweep'[g]
    BY <1>2
  <2>3. Owns(r, g, lag, round)'
    BY <2>1, <2>2
  <2>4. \A q \in Ids : Alive(q)' /\ proc'[q].pgid = g =>
          q \notin ps /\ Alive(q) /\ proc[q].pgid = g /\ proc'[q].born = proc[q].born
    <3> HIDE DEF ps
    <3> QED
      BY <1>2, EndOnlyEnds
  <2>5. Owns(r, g, lag, round)
    BY <2>1, <2>3, <2>4, OwnedBefore
  <2>6. g \in found
    BY <1>2, <2>1, <2>2, <2>5 DEF ToKill
  <2>7. \A q \in Ids : ~(Alive(q)' /\ proc'[q].pgid = g)
    BY <2>4, <2>6
  <2> QED
    BY <2>1, <2>3, <2>7 DEF Owns
<1> QED
  BY <1>3 DEF NoneLeft

(* When a teardown that could read the process table returns, nothing it   *)
(* could prove to be the agent's by the records it goes by is left         *)
(* running, and nothing started afterwards comes to look like it,          *)
(* whichever ids are given out again and whatever the slacks.              *)
THEOREM NoneIsLeft == Spec => []NoneLeft
<1>1. Init => NoneLeft
  BY DEF Init, NoneLeft
<1>2. Inv /\ NoneLeft /\ [Next]_vars => NoneLeft'
  <2> SUFFICES ASSUME Inv, NoneLeft, [Next]_vars PROVE NoneLeft'
    OBVIOUS
  <2>1. CASE Kernel
    <3>1. teardown' = teardown
      BY <2>1 DEF Kernel, Tick, Fork, Enters, Exits
    <3>2. CASE teardown = "done"
      BY <2>1, <3>2, KernelLeavesDone
    <3>3. CASE teardown # "done"
      BY <3>1, <3>3 DEF NoneLeft
    <3> QED
      BY <3>2, <3>3
  <2>2. CASE Refresh
    BY <2>2 DEF Refresh, NoneLeft
  <2>3. CASE Stop
    BY <2>3 DEF Stop, NoneLeft, ToKill, Owns, Alive, Started, world
  <2>4. CASE TeardownFinds
    <3>1. PICK lag \in 0..Lag, round \in Rounding :
            teardown' = IF ToKill(sweep, lag, round) = {} THEN "done" ELSE "polling"
      BY <2>4 DEF TeardownFinds
    <3>2. teardown' = "done" => ToKill(sweep, lag, round) = {}
      BY <3>1
    <3>3. ToKill(sweep, lag, round)' = ToKill(sweep, lag, round)
      BY <2>4 DEF TeardownFinds, ToKill, Owns, Alive, Started, world
    <3> QED
      BY <3>2, <3>3 DEF NoneLeft
  <2>5. CASE TeardownEnds
    <3>1. PICK lag \in 0..Lag, round \in Rounding : ToKill(sweep, lag, round) = {}
      BY <2>5 DEF TeardownEnds
    <3>2. ToKill(sweep, lag, round)' = ToKill(sweep, lag, round)
      BY <2>5 DEF TeardownEnds, ToKill, Owns, Alive, Started, world
    <3> QED
      BY <3>1, <3>2 DEF NoneLeft
  <2>6. CASE TeardownKills
    BY <2>6, KillsLeaveNone
  <2>7. CASE TeardownUnread
    BY <2>7 DEF TeardownUnread, NoneLeft
  <2>8. CASE UNCHANGED vars
    BY <2>8 DEF vars, world, NoneLeft, ToKill, Owns, Alive, Started
  <2> QED
    BY <2>1, <2>2, <2>3, <2>4, <2>5, <2>6, <2>7, <2>8 DEF Next
<1> QED
  BY <1>1, <1>2, SpecInv, PTL DEF Spec
================================================================================
