----------------------------- MODULE AccessProofs ------------------------------
(***************************************************************************)
(* Proofs about Access, for any devices, keys, settings and saves.         *)
(***************************************************************************)
EXTENDS Access, TLAPS

(* The records a server and a save may be.                                 *)
Checked == [at : {"checked"}, mem : Config]
Serves == [at : {"up"}, mem : Config, listens : Binds, loaded : BOOLEAN,
           hash : Keys \union {None}, quiet : BOOLEAN]
Save == [at : {"saving", "writing", "saved"}, cfg : Config, alone : BOOLEAN,
         dropped : BOOLEAN]

(* Each record there is has its fields, and a save has a server to make it.*)
Shapes ==
  /\ keyfile \in Keys \union {None, Torn} /\ whole \in Keys \union {None}
  /\ keys \in Nat /\ keys <= MaxKeys /\ pairing \subseteq 1..keys
  /\ known \in BOOLEAN /\ strayed \in BOOLEAN
  /\ server = Down \/ server \in Checked \/ server \in Serves
  /\ disk \in [cfg : Config, whole : BOOLEAN]
  /\ DOMAIN puts = Puts /\ \A p \in Puts : puts[p] = NoPut \/ puts[p] \in Save
  /\ \A p \in Puts : puts[p] # NoPut => Up

(* The key file holds the last key that was written, or none at all; and a *)
(* server that has had the hash of that key still has it.                  *)
KeyInv ==
  /\ keyfile \in {whole, Torn}
  /\ known => Up /\ server.loaded /\ server.hash = whole /\ whole # None
  /\ ~turned

(* Whatever bind is on disk, in memory, in force or about to be saved is   *)
(* one that the operator has written.                                      *)
BindInv ==
  /\ "loopback" \in told /\ disk.cfg.bind \in told
  /\ server # Down => server.mem.bind \in told
  /\ \A p \in Puts : puts[p] # NoPut => puts[p].cfg.bind \in told
  /\ ListensAsTold

(* A save that is alone has the file to itself; and until one has opened   *)
(* the file, the file and the memory agree, or it is known that they may   *)
(* not.                                                                    *)
NoneOpened == \A p \in Puts : puts[p].at \in {"idle", "saving"}
Agree == disk = [cfg |-> server.mem, whole |-> TRUE]
SaveInv ==
  /\ \A p \in Puts : puts[p] # NoPut /\ puts[p].alone =>
       /\ InFlight = {p}
       /\ PutIs(p, "saved") => disk = [cfg |-> puts[p].cfg, whole |-> TRUE]
  /\ server # Down /\ ~strayed /\ NoneOpened => Agree

AccessInv == Shapes /\ KeyInv /\ BindInv /\ SaveInv

--------------------------------------------------------------------------------
(* How an action changes the saves and the server.                         *)

LEMMA GoesOn ==
  ASSUME Shapes, NEW p \in Puts, puts[p] \in Save, NEW at \in {"saving", "writing", "saved"},
         PutGoes(p, at)
  PROVE  /\ DOMAIN puts' = Puts /\ puts'[p] \in Save /\ puts'[p].at = at
         /\ puts'[p].cfg = puts[p].cfg /\ puts'[p].alone = puts[p].alone
         /\ \A q \in Puts \ {p} : puts'[q] = puts[q]
<1>1. puts'[p] = [puts[p] EXCEPT !.at = at] /\ DOMAIN puts' = Puts
  BY DEF PutGoes, Shapes
<1>2. \A q \in Puts \ {p} : puts'[q] = puts[q]
  BY DEF PutGoes, Shapes
<1>3. QED
  BY <1>1, <1>2 DEF Save

LEMMA Ends ==
  ASSUME Shapes, NEW p \in Puts, PutEnds(p)
  PROVE  /\ DOMAIN puts' = Puts /\ puts'[p] = NoPut
         /\ \A q \in Puts \ {p} : puts'[q] = puts[q]
BY DEF PutEnds, Shapes

(* A save that is somewhere is a save, of a server that is up.             *)
LEMMA Somewhere ==
  ASSUME Shapes, NEW p \in Puts, puts[p].at \in {"saving", "writing", "saved"}
  PROVE  puts[p] \in Save /\ puts[p] # NoPut /\ server \in Serves
<1>1. puts[p] # NoPut
  BY DEF NoPut
<1>2. Up
  BY <1>1 DEF Shapes
<1>3. server \in Serves
  BY <1>2 DEF Shapes, Up, Down, Checked
<1>4. QED
  BY <1>1, <1>3 DEF Shapes

LEMMA UpServes ==
  ASSUME Shapes, Up
  PROVE  server \in Serves
BY DEF Shapes, Up, Down, Checked

(* A save of what the body says, with the present bind.                    *)
LEMMA KeptType ==
  ASSUME server \in Serves, NEW body \in Config
  PROVE  Kept(body) \in Config /\ Kept(body).bind = server.mem.bind
BY DEF Kept, Config, Serves

LEMMA ReadsAsType ==
  ASSUME disk \in [cfg : Config, whole : BOOLEAN], NEW cfg \in ReadsAs
  PROVE  /\ cfg \in Config /\ cfg.bind \in {disk.cfg.bind, "loopback"}
         /\ disk.whole => cfg = disk.cfg
<1>1. disk.cfg \in Config /\ disk.whole \in BOOLEAN
  OBVIOUS
<1>2. CASE disk.whole
  BY <1>1, <1>2 DEF ReadsAs
<1>3. CASE ~disk.whole
  <2>1. cfg \in [bind : {disk.cfg.bind, "loopback"}, set : {disk.cfg.set, Default}]
    BY <1>3 DEF ReadsAs
  <2>2. Default \in Settings
    BY AccessAssumption
  <2>3. QED
    BY <1>1, <1>3, <2>1, <2>2 DEF Config, Binds
<1>4. QED
  BY <1>1, <1>2, <1>3

--------------------------------------------------------------------------------
LEMMA ShapesKept == Shapes /\ [Next]_vars => Shapes'
<1> SUFFICES ASSUME Shapes, [Next]_vars PROVE Shapes'
  OBVIOUS
<1> USE AccessAssumption DEF keyVars, devVars, confVars
<1>1. CASE PairBegins
  BY <1>1 DEF PairBegins, Shapes, Up, Keys
<1>2. ASSUME NEW k \in Keys, NEW ds \in SUBSET Devices, PairWrites(k, ds) PROVE Shapes'
  BY <1>2 DEF PairWrites, Shapes, Up
<1>3. ASSUME NEW k \in Keys, PairDies(k) PROVE Shapes'
  BY <1>3 DEF PairDies, Shapes, Up
<1>4. CASE Unpair
  BY <1>4 DEF Unpair, Shapes, Up
<1>5. ASSUME NEW d \in Devices, Asks(d) PROVE Shapes'
  <2>1. server \in Serves
    BY <1>5, UpServes DEF Asks
  <2>2. server' \in Serves
    <3>1. CASE server' = server
      BY <2>1, <3>1
    <3>2. CASE server' = [server EXCEPT !.quiet = TRUE, !.hash = HashRead(server)]
      <4>1. HashRead(server) \in Keys \union {None}
        BY <2>1 DEF HashRead, Shapes, Serves
      <4>2. QED
        BY <2>1, <3>2, <4>1 DEF Serves
    <3>3. QED
      BY <1>5, <3>1, <3>2 DEF Asks
  <2>3. known' \in BOOLEAN
    <3>1. known' = known \/ known' = (known \/ (HashRead(server) = whole /\ whole # None))
      BY <1>5 DEF Asks
    <3>2. QED
      BY <3>1, Zenon DEF Shapes
  <2>4. UNCHANGED <<keyVars, confVars>>
    BY <1>5 DEF Asks
  <2>5. Up'
    BY <2>2 DEF Serves, Up
  <2>6. QED
    BY <2>2, <2>3, <2>4, <2>5 DEF Shapes
<1>6. CASE SecondPasses
  <2>1. server \in Serves
    BY <1>6, UpServes DEF SecondPasses
  <2>2. server' \in Serves
    BY <1>6, <2>1 DEF SecondPasses, Serves
  <2>3. QED
    BY <1>6, <2>2 DEF SecondPasses, Shapes, Serves, Up
<1>7. CASE BootChecks
  <2>1. PICK cfg \in ReadsAs : server' = [at |-> "checked", mem |-> cfg]
    BY <1>7 DEF BootChecks
  <2>2. cfg \in Config
    BY ReadsAsType DEF Shapes
  <2>3. server' \in Checked
    BY <2>1, <2>2 DEF Checked
  <2>4. strayed' \in BOOLEAN
    <3>1. strayed' = ~disk.whole
      BY <1>7 DEF BootChecks
    <3>2. QED
      BY <3>1, Zenon
  <2>5. \A p \in Puts : puts[p] = NoPut
    BY <1>7 DEF BootChecks, Shapes, Up, Down
  <2>6. QED
    BY <1>7, <2>3, <2>4, <2>5 DEF BootChecks, Shapes
<1>8. CASE BootListens
  <2>1. server \in Checked /\ ~Up
    BY <1>8 DEF BootListens, Shapes, Checked, Serves, Down, Up
  <2>2. keyfile \in Keys \union {None} /\ (keyfile # None) \in BOOLEAN
    BY <1>8 DEF BootListens, Shapes
  <2>3. server' \in Serves
    BY <1>8, <2>1, <2>2 DEF BootListens, Serves, Checked, Config
  <2>4. known' \in BOOLEAN
    BY <1>8, Zenon DEF BootListens
  <2>5. QED
    BY <1>8, <2>3, <2>4 DEF BootListens, Shapes, Serves, Up
<1>9. CASE BootFails
  BY <1>9 DEF BootFails, Shapes, Up, Down
<1>10. CASE ServerDies
  BY <1>10 DEF ServerDies, Shapes
<1>11. ASSUME NEW p \in Puts, NEW body \in Config, PutBegins(p, body) PROVE Shapes'
  <2>1. server \in Serves
    BY <1>11, UpServes DEF PutBegins
  <2>2. Kept(body) \in Config /\ (InFlight = {}) \in BOOLEAN
    BY <2>1, KeptType
  <2>3. puts'[p] \in Save /\ DOMAIN puts' = Puts
    BY <1>11, <2>2 DEF PutBegins, Save
  <2>4. ASSUME NEW q \in Puts \ {p} PROVE puts'[q] = NoPut \/ puts'[q] \in Save
    <3>1. puts'[q] = IF puts[q] = NoPut THEN NoPut ELSE [puts[q] EXCEPT !.alone = FALSE]
      BY <1>11 DEF PutBegins
    <3>2. puts[q] = NoPut \/ puts[q] \in Save
      BY DEF Shapes
    <3>3. QED
      BY <3>1, <3>2 DEF Save
  <2>5. Up /\ UNCHANGED <<keyVars, devVars, server, disk, strayed>>
    BY <1>11 DEF PutBegins
  <2>6. QED
    BY <2>3, <2>4, <2>5 DEF Shapes, Up
<1>12. ASSUME NEW p \in Puts, SaveOpens(p) PROVE Shapes'
  <2>1. puts[p] \in Save /\ PutGoes(p, "writing")
    BY <1>12, Somewhere DEF SaveOpens, PutIs
  <2>2. disk' \in [cfg : Config, whole : BOOLEAN]
    BY <1>12, <2>1 DEF SaveOpens, Save
  <2>3. DOMAIN puts' = Puts /\ \A q \in Puts : puts'[q] = puts[q] \/ (q = p /\ puts'[q] \in Save)
    BY <2>1, GoesOn
  <2>4. puts[p] # NoPut
    BY <2>1 DEF Save, NoPut
  <2>5. QED
    BY <1>12, <2>2, <2>3, <2>4 DEF SaveOpens, Shapes, Up
<1>13. ASSUME NEW p \in Puts, SaveWrites(p) PROVE Shapes'
  <2>1. puts[p] \in Save /\ PutGoes(p, "saved")
    BY <1>13, Somewhere DEF SaveWrites, PutIs
  <2>2. disk' \in [cfg : Config, whole : BOOLEAN]
    BY <1>13, <2>1 DEF SaveWrites, Save
  <2>3. DOMAIN puts' = Puts /\ \A q \in Puts : puts'[q] = puts[q] \/ (q = p /\ puts'[q] \in Save)
    BY <2>1, GoesOn
  <2>4. puts[p] # NoPut
    BY <2>1 DEF Save, NoPut
  <2>5. QED
    BY <1>13, <2>2, <2>3, <2>4 DEF SaveWrites, Shapes, Up
<1>14. ASSUME NEW p \in Puts, SaveFails(p) PROVE Shapes'
  <2>1. DOMAIN puts' = Puts /\ \A q \in Puts : puts'[q] = puts[q] \/ puts'[q] = NoPut
    BY <1>14, Ends DEF SaveFails, FailureSeen
  <2>2. strayed' \in BOOLEAN
    <3>1. strayed' = (strayed \/ PutIs(p, "writing"))
      BY <1>14 DEF SaveFails
    <3>2. QED
      BY <3>1, Zenon DEF Shapes
  <2>3. QED
    BY <1>14, <2>1, <2>2 DEF SaveFails, Shapes, Up
<1>15. ASSUME NEW p \in Puts, PutDropped(p) PROVE Shapes'
  <2>1. puts[p] \in Save
    BY <1>15 DEF PutDropped, Shapes
  <2>2. puts'[p] = [puts[p] EXCEPT !.dropped = TRUE] /\ DOMAIN puts' = Puts
        /\ \A q \in Puts \ {p} : puts'[q] = puts[q]
    BY <1>15 DEF PutDropped, Shapes
  <2>3. puts'[p] \in Save
    BY <2>1, <2>2 DEF Save
  <2>4. QED
    BY <1>15, <2>2, <2>3 DEF PutDropped, Shapes, Up
<1>16. ASSUME NEW p \in Puts, PutSets(p) PROVE Shapes'
  <2>1. puts[p] \in Save /\ server \in Serves /\ PutEnds(p)
    BY <1>16, Somewhere DEF PutSets, PutIs
  <2>2. DOMAIN puts' = Puts /\ \A q \in Puts : puts'[q] = puts[q] \/ puts'[q] = NoPut
    BY <2>1, Ends
  <2>3. server' = server \/ server' = [server EXCEPT !.mem = puts[p].cfg]
    BY <1>16 DEF PutSets
  <2>4. server' \in Serves
    BY <2>1, <2>3 DEF Serves, Save
  <2>5. strayed' \in BOOLEAN
    <3>1. strayed' = TRUE \/ strayed' = ~puts[p].alone
      BY <1>16 DEF PutSets
    <3>2. QED
      BY <3>1, Zenon
  <2>6. QED
    BY <1>16, <2>2, <2>4, <2>5 DEF PutSets, Shapes, Serves, Up
<1>17. ASSUME NEW cfg \in Config, Edited(cfg) PROVE Shapes'
  BY <1>17 DEF Edited, Shapes, Up
<1>18. CASE UNCHANGED vars
  BY <1>18 DEF vars, Shapes, Up
<1>19. QED
  BY <1>1, <1>2, <1>3, <1>4, <1>5, <1>6, <1>7, <1>8, <1>9, <1>10, <1>11, <1>12, <1>13,
     <1>14, <1>15, <1>16, <1>17, <1>18 DEF Next, Pairing, Serving, Running, Saving

LEMMA KeyInvKept == Shapes /\ KeyInv /\ [Next]_vars => KeyInv'
<1> SUFFICES ASSUME Shapes, KeyInv, [Next]_vars PROVE KeyInv'
  OBVIOUS
<1> USE DEF keyVars, devVars, confVars
<1>f. ASSUME UNCHANGED <<keyfile, whole, known, turned, server>> PROVE KeyInv'
  BY <1>f DEF KeyInv, Up
<1>1. CASE PairBegins
  BY <1>1 DEF PairBegins, KeyInv, Up
<1>2. ASSUME NEW k \in Keys, NEW ds \in SUBSET Devices, PairWrites(k, ds) PROVE KeyInv'
  BY <1>2 DEF PairWrites, KeyInv
<1>3. ASSUME NEW k \in Keys, PairDies(k) PROVE KeyInv'
  BY <1>3, <1>f DEF PairDies
<1>4. CASE Unpair
  BY <1>4 DEF Unpair, KeyInv
<1>5. ASSUME NEW d \in Devices, Asks(d) PROVE KeyInv'
  <2>1. server \in Serves /\ keyfile' = keyfile /\ whole' = whole
    BY <1>5, UpServes DEF Asks
  <2>2. held[d] \in {server.hash} \ {None} \/ ~(known /\ held[d] = whole)
    BY DEF KeyInv
  <2>3. CASE /\ server' = server /\ known' = known
             /\ LetsIn(d) \/ (Refuses(d) /\ ~(server.loaded /\ held[d] \in {server.hash} \ {None}))
    <3>1. ~turned'
      BY <2>3, <2>2 DEF LetsIn, Refuses, KeyInv
    <3>2. QED
      BY <2>1, <2>3, <3>1 DEF KeyInv, Up
  <2>4. CASE /\ server.loaded /\ held[d] \notin {server.hash} \ {None}
             /\ server' = [server EXCEPT !.quiet = TRUE, !.hash = HashRead(server)]
             /\ known' = (known \/ (HashRead(server) = whole /\ whole # None))
             /\ LetsIn(d) \/ Refuses(d)
    <3>1. ~turned'
      BY <2>2, <2>4 DEF LetsIn, Refuses, KeyInv
    <3>2. Up' /\ server'.loaded /\ server'.hash = HashRead(server)
      BY <2>1, <2>4 DEF Serves, Up
    <3>3. known => HashRead(server) = whole /\ whole # None
      BY DEF HashRead, KeyInv
    <3>4. known' => HashRead(server) = whole /\ whole # None
      BY <2>4, <3>3
    <3>5. QED
      BY <2>1, <3>1, <3>2, <3>4 DEF KeyInv
  <2>5. QED
    BY <1>5, <2>3, <2>4 DEF Asks
<1>6. CASE SecondPasses
  <2>1. server \in Serves
    BY <1>6, UpServes DEF SecondPasses
  <2>2. server'.loaded = server.loaded /\ server'.hash = server.hash /\ Up'
    BY <1>6, <2>1 DEF SecondPasses, Serves, Up
  <2>3. QED
    BY <1>6, <2>2 DEF SecondPasses, KeyInv
<1>7. CASE BootChecks
  BY <1>7 DEF BootChecks, KeyInv, Up, Down
<1>8. CASE BootListens
  <2>1. Up' /\ server'.loaded = (keyfile # None) /\ server'.hash = keyfile /\ keyfile = whole
    BY <1>8 DEF BootListens, KeyInv, Up
  <2>2. known' = (keyfile # None) /\ UNCHANGED <<keyfile, whole, turned>>
    BY <1>8 DEF BootListens
  <2>3. QED
    BY <2>1, <2>2 DEF KeyInv
<1>9. CASE BootFails
  BY <1>9 DEF BootFails, KeyInv, Up
<1>10. CASE ServerDies
  BY <1>10 DEF ServerDies, KeyInv
<1>11. ASSUME NEW p \in Puts, NEW body \in Config, PutBegins(p, body) PROVE KeyInv'
  BY <1>11, <1>f DEF PutBegins
<1>12. ASSUME NEW p \in Puts, SaveOpens(p) PROVE KeyInv'
  BY <1>12, <1>f DEF SaveOpens
<1>13. ASSUME NEW p \in Puts, SaveWrites(p) PROVE KeyInv'
  BY <1>13, <1>f DEF SaveWrites
<1>14. ASSUME NEW p \in Puts, SaveFails(p) PROVE KeyInv'
  BY <1>14, <1>f DEF SaveFails
<1>15. ASSUME NEW p \in Puts, PutDropped(p) PROVE KeyInv'
  BY <1>15, <1>f DEF PutDropped
<1>16. ASSUME NEW p \in Puts, PutSets(p) PROVE KeyInv'
  <2>1. server \in Serves
    BY <1>16, Somewhere DEF PutSets, PutIs
  <2>2. server' = server \/ server' = [server EXCEPT !.mem = puts[p].cfg]
    BY <1>16 DEF PutSets
  <2>3. server'.loaded = server.loaded /\ server'.hash = server.hash /\ Up'
    BY <2>1, <2>2 DEF Serves, Up
  <2>4. QED
    BY <1>16, <2>3 DEF PutSets, KeyInv
<1>17. ASSUME NEW cfg \in Config, Edited(cfg) PROVE KeyInv'
  BY <1>17, <1>f DEF Edited
<1>18. CASE UNCHANGED vars
  BY <1>18, <1>f DEF vars
<1>19. QED
  BY <1>1, <1>2, <1>3, <1>4, <1>5, <1>6, <1>7, <1>8, <1>9, <1>10, <1>11, <1>12, <1>13,
     <1>14, <1>15, <1>16, <1>17, <1>18 DEF Next, Pairing, Serving, Running, Saving

LEMMA BindInvKept == Shapes /\ BindInv /\ [Next]_vars => BindInv'
<1> SUFFICES ASSUME Shapes, BindInv, [Next]_vars PROVE BindInv'
  OBVIOUS
<1> USE DEF keyVars, devVars, confVars
<1>f. ASSUME UNCHANGED <<disk, server, puts, told>> PROVE BindInv'
  BY <1>f DEF BindInv, ListensAsTold, Up
<1>1. CASE PairBegins
  BY <1>1, <1>f DEF PairBegins
<1>2. ASSUME NEW k \in Keys, NEW ds \in SUBSET Devices, PairWrites(k, ds) PROVE BindInv'
  BY <1>2, <1>f DEF PairWrites
<1>3. ASSUME NEW k \in Keys, PairDies(k) PROVE BindInv'
  BY <1>3, <1>f DEF PairDies
<1>4. CASE Unpair
  BY <1>4, <1>f DEF Unpair
<1>s. ASSUME server \in Serves, server' \in Serves, UNCHANGED <<disk, told, puts>>,
             server'.mem = server.mem, server'.listens = server.listens,
             server'.loaded = server.loaded
      PROVE  BindInv'
  BY <1>s DEF BindInv, ListensAsTold, Serves, Up, Down
<1>5. ASSUME NEW d \in Devices, Asks(d) PROVE BindInv'
  <2>1. server \in Serves /\ UNCHANGED <<disk, told, puts>>
    BY <1>5, UpServes DEF Asks
  <2>2. server' = server \/ server' = [server EXCEPT !.quiet = TRUE, !.hash = HashRead(server)]
    BY <1>5 DEF Asks
  <2>3. server' \in Serves
    BY <2>1, <2>2, ShapesKept DEF Shapes, Serves, Checked, Down
  <2>4. server'.mem = server.mem /\ server'.listens = server.listens
        /\ server'.loaded = server.loaded
    BY <2>1, <2>2 DEF Serves
  <2>5. QED
    BY <1>s, <2>1, <2>3, <2>4
<1>6. CASE SecondPasses
  <2>1. server \in Serves
    BY <1>6, UpServes DEF SecondPasses
  <2>2. server' \in Serves /\ server'.mem = server.mem /\ server'.listens = server.listens
        /\ server'.loaded = server.loaded
    BY <1>6, <2>1 DEF SecondPasses, Serves
  <2>3. QED
    BY <1>6, <1>s, <2>1, <2>2 DEF SecondPasses
<1>7. CASE BootChecks
  <2>1. PICK cfg \in ReadsAs : server' = [at |-> "checked", mem |-> cfg]
    BY <1>7 DEF BootChecks
  <2>2. cfg.bind \in told
    BY <2>1, ReadsAsType DEF Shapes, BindInv
  <2>3. QED
    BY <1>7, <2>1, <2>2 DEF BootChecks, BindInv, ListensAsTold, Up
<1>8. CASE BootListens
  <2>1. server # Down /\ server.mem.bind \in told
    BY <1>8 DEF BootListens, BindInv, Down
  <2>2. server'.mem = server.mem /\ server'.listens = server.mem.bind
        /\ server'.loaded = (keyfile # None)
    BY <1>8 DEF BootListens
  <2>3. server.mem.bind = "tailnet" => keyfile # None
    BY <1>8 DEF BootListens, MayListen
  <2>4. QED
    BY <1>8, <2>1, <2>2, <2>3 DEF BootListens, BindInv, ListensAsTold
<1>9. CASE BootFails
  BY <1>9 DEF BootFails, BindInv, ListensAsTold, Up, Down
<1>10. CASE ServerDies
  BY <1>10 DEF ServerDies, BindInv, ListensAsTold, Up, Down
<1>11. ASSUME NEW p \in Puts, NEW body \in Config, PutBegins(p, body) PROVE BindInv'
  <2>1. server \in Serves /\ server # Down
    BY <1>11, UpServes DEF PutBegins, Serves, Down
  <2>2. Kept(body).bind \in told
    BY <2>1, KeptType DEF BindInv
  <2>3. puts'[p].cfg = Kept(body)
    BY <1>11 DEF PutBegins
  <2>4. ASSUME NEW q \in Puts \ {p}, puts'[q] # NoPut
        PROVE  puts[q] # NoPut /\ puts'[q].cfg = puts[q].cfg
    BY <1>11, <2>4 DEF PutBegins, Shapes, Save
  <2>5. UNCHANGED <<disk, server, told>>
    BY <1>11 DEF PutBegins
  <2>6. \A q \in Puts : puts'[q] # NoPut => puts'[q].cfg.bind \in told
    BY <2>2, <2>3, <2>4 DEF BindInv
  <2>7. QED
    BY <2>5, <2>6 DEF BindInv, ListensAsTold, Up
<1>12. ASSUME NEW p \in Puts, SaveOpens(p) PROVE BindInv'
  <2>1. puts[p] \in Save /\ puts[p] # NoPut /\ PutGoes(p, "writing")
    BY <1>12, Somewhere DEF SaveOpens, PutIs
  <2>2. \A q \in Puts : puts'[q] # NoPut => puts[q] # NoPut /\ puts'[q].cfg = puts[q].cfg
    BY <2>1, GoesOn
  <2>3. disk'.cfg = puts[p].cfg /\ UNCHANGED <<server, told>>
    BY <1>12 DEF SaveOpens
  <2>4. QED
    BY <2>1, <2>2, <2>3 DEF BindInv, ListensAsTold, Up
<1>13. ASSUME NEW p \in Puts, SaveWrites(p) PROVE BindInv'
  <2>1. puts[p] \in Save /\ puts[p] # NoPut /\ PutGoes(p, "saved")
    BY <1>13, Somewhere DEF SaveWrites, PutIs
  <2>2. \A q \in Puts : puts'[q] # NoPut => puts[q] # NoPut /\ puts'[q].cfg = puts[q].cfg
    BY <2>1, GoesOn
  <2>3. disk'.cfg = puts[p].cfg /\ UNCHANGED <<server, told>>
    BY <1>13 DEF SaveWrites
  <2>4. QED
    BY <2>1, <2>2, <2>3 DEF BindInv, ListensAsTold, Up
<1>14. ASSUME NEW p \in Puts, SaveFails(p) PROVE BindInv'
  <2>1. \A q \in Puts : puts'[q] # NoPut => puts'[q] = puts[q]
    BY <1>14, Ends DEF SaveFails, FailureSeen
  <2>2. QED
    BY <1>14, <2>1 DEF SaveFails, BindInv, ListensAsTold, Up
<1>15. ASSUME NEW p \in Puts, PutDropped(p) PROVE BindInv'
  <2>1. puts[p] \in Save
    BY <1>15 DEF PutDropped, Shapes
  <2>2. puts' = [puts EXCEPT ![p].dropped = TRUE] /\ puts[p] # NoPut
        /\ UNCHANGED <<disk, server, told>>
    BY <1>15 DEF PutDropped
  <2>3. \A q \in Puts : puts'[q] # NoPut => puts[q] # NoPut /\ puts'[q].cfg = puts[q].cfg
    BY <2>1, <2>2 DEF Shapes, Save
  <2>4. QED
    BY <2>2, <2>3 DEF BindInv, ListensAsTold, Up
<1>16. ASSUME NEW p \in Puts, PutSets(p) PROVE BindInv'
  <2>1. puts[p] \in Save /\ puts[p] # NoPut /\ server \in Serves /\ PutEnds(p)
    BY <1>16, Somewhere DEF PutSets, PutIs
  <2>2. \A q \in Puts : puts'[q] # NoPut => puts'[q] = puts[q]
    BY <2>1, Ends
  <2>3. server' = server \/ server' = [server EXCEPT !.mem = puts[p].cfg]
    BY <1>16 DEF PutSets
  <2>4. /\ server'.mem = server.mem \/ server'.mem = puts[p].cfg
        /\ server'.listens = server.listens /\ server'.loaded = server.loaded
        /\ Up /\ server # Down
    BY <2>1, <2>3 DEF Serves, Up, Down
  <2>5. QED
    BY <1>16, <2>1, <2>2, <2>4 DEF PutSets, BindInv, ListensAsTold
<1>17. ASSUME NEW cfg \in Config, Edited(cfg) PROVE BindInv'
  BY <1>17 DEF Edited, BindInv, ListensAsTold, Up
<1>18. CASE UNCHANGED vars
  BY <1>18, <1>f DEF vars
<1>19. QED
  BY <1>1, <1>2, <1>3, <1>4, <1>5, <1>6, <1>7, <1>8, <1>9, <1>10, <1>11, <1>12, <1>13,
     <1>14, <1>15, <1>16, <1>17, <1>18 DEF Next, Pairing, Serving, Running, Saving

LEMMA SaveInvKept == Shapes /\ SaveInv /\ [Next]_vars => SaveInv'
<1> SUFFICES ASSUME Shapes, SaveInv, [Next]_vars PROVE SaveInv'
  OBVIOUS
<1> USE DEF keyVars, devVars, confVars
<1>s. Shapes'
  BY ShapesKept
<1>f. ASSUME UNCHANGED <<disk, server, puts, strayed>> PROVE SaveInv'
  BY <1>f DEF SaveInv, InFlight, PutIs, NoneOpened, Agree
<1>1. CASE PairBegins
  BY <1>1, <1>f DEF PairBegins
<1>2. ASSUME NEW k \in Keys, NEW ds \in SUBSET Devices, PairWrites(k, ds) PROVE SaveInv'
  BY <1>2, <1>f DEF PairWrites
<1>3. ASSUME NEW k \in Keys, PairDies(k) PROVE SaveInv'
  BY <1>3, <1>f DEF PairDies
<1>4. CASE Unpair
  BY <1>4, <1>f DEF Unpair
<1>m. ASSUME server # Down, server' # Down, server'.mem = server.mem,
             UNCHANGED <<disk, puts, strayed>>
      PROVE  SaveInv'
  BY <1>m DEF SaveInv, InFlight, PutIs, NoneOpened, Agree
<1>5. ASSUME NEW d \in Devices, Asks(d) PROVE SaveInv'
  <2>1. server \in Serves /\ UNCHANGED <<disk, puts, strayed>>
    BY <1>5, UpServes DEF Asks
  <2>2. server' = server \/ server' = [server EXCEPT !.quiet = TRUE, !.hash = HashRead(server)]
    BY <1>5 DEF Asks
  <2>3. server.at = "up" /\ server'.mem = server.mem /\ server'.at = "up"
    BY <2>1, <2>2 DEF Serves
  <2>4. server # Down /\ server' # Down
    BY <2>3 DEF Down
  <2>5. QED
    BY <1>m, <2>1, <2>3, <2>4
<1>6. CASE SecondPasses
  <2>1. server \in Serves
    BY <1>6, UpServes DEF SecondPasses
  <2>2. server # Down /\ server'.mem = server.mem /\ server' # Down
    BY <1>6, <2>1 DEF SecondPasses, Serves, Down
  <2>3. QED
    BY <1>6, <1>m, <2>2 DEF SecondPasses
<1>7. CASE BootChecks
  <2>1. PICK cfg \in ReadsAs : server' = [at |-> "checked", mem |-> cfg]
    BY <1>7 DEF BootChecks
  <2>2. disk.whole => cfg = disk.cfg
    BY <2>1, ReadsAsType DEF Shapes
  <2>3. \A q \in Puts : puts'[q] = NoPut
    BY <1>7 DEF BootChecks, Shapes, Up, Down
  <2>4. server'.mem = cfg /\ disk' = disk /\ disk \in [cfg : Config, whole : BOOLEAN]
    BY <1>7, <2>1 DEF BootChecks, Shapes
  <2>5. strayed' = ~disk.whole
    BY <1>7 DEF BootChecks
  <2>6. ~strayed' => Agree'
    BY <2>2, <2>4, <2>5 DEF Agree
  <2>7. QED
    BY <2>3, <2>6 DEF SaveInv
<1>8. CASE BootListens
  <2>1. server # Down /\ server' # Down /\ server'.mem = server.mem
    BY <1>8 DEF BootListens, Down
  <2>2. QED
    BY <1>8, <1>m, <2>1 DEF BootListens
<1>9. CASE BootFails
  BY <1>9 DEF BootFails, SaveInv, InFlight, PutIs
<1>10. CASE ServerDies
  BY <1>10 DEF ServerDies, SaveInv
<1>11. ASSUME NEW p \in Puts, NEW body \in Config, PutBegins(p, body) PROVE SaveInv'
  <2>1. server \in Serves /\ server # Down
    BY <1>11, UpServes DEF PutBegins, Serves, Down
  <2>2. puts'[p].at = "saving" /\ puts'[p] # NoPut /\ puts'[p].alone = (InFlight = {})
    BY <1>11 DEF PutBegins, NoPut
  <2>3. ASSUME NEW q \in Puts \ {p}
        PROVE  /\ puts'[q].at = puts[q].at /\ (puts'[q] # NoPut => puts[q] # NoPut)
               /\ puts'[q] # NoPut => ~puts'[q].alone
    <3>1. puts'[q] = IF puts[q] = NoPut THEN NoPut ELSE [puts[q] EXCEPT !.alone = FALSE]
      BY <1>11 DEF PutBegins
    <3>2. puts[q] = NoPut \/ puts[q] \in Save
      BY DEF Shapes
    <3>3. QED
      BY <3>1, <3>2 DEF Save
  <2>4. UNCHANGED <<disk, server, strayed>> /\ puts[p].at = "idle"
    BY <1>11 DEF PutBegins, PutIs
  <2>5. NoneOpened' => NoneOpened
    BY <2>3, <2>4 DEF NoneOpened
  <2>6. puts'[p].alone => InFlight' = {p}
    <3>1. CASE InFlight = {}
      BY <2>2, <2>3, <3>1 DEF InFlight
    <3>2. CASE InFlight # {}
      BY <2>2, <3>2
    <3>3. QED
      BY <3>1, <3>2
  <2>7. \A q \in Puts : puts'[q] # NoPut /\ puts'[q].alone => q = p
    BY <2>3
  <2>8. QED
    BY <2>1, <2>2, <2>4, <2>5, <2>6, <2>7 DEF SaveInv, Agree, PutIs
<1>o. ASSUME NEW p \in Puts, puts[p] # NoPut, puts[p] \in Save,
             NEW at \in {"saving", "writing", "saved"}, PutGoes(p, at)
      PROVE  /\ InFlight' = InFlight
             /\ \A q \in Puts : puts'[q] # NoPut /\ puts'[q].alone =>
                  puts[q] # NoPut /\ puts[q].alone /\ InFlight' = {q} /\ q = p
  <2>1. /\ puts'[p] # NoPut /\ puts'[p].alone = puts[p].alone
        /\ \A q \in Puts \ {p} : puts'[q] = puts[q]
    BY <1>o, GoesOn DEF Save, NoPut
  <2>2. InFlight' = InFlight /\ p \in InFlight
    BY <1>o, <2>1 DEF InFlight
  <2>3. ASSUME NEW q \in Puts, puts'[q] # NoPut, puts'[q].alone
        PROVE  puts[q] # NoPut /\ puts[q].alone
    BY <1>o, <2>1, <2>3
  <2>4. \A q \in Puts : puts[q] # NoPut /\ puts[q].alone => InFlight = {q}
    BY DEF SaveInv
  <2>5. QED
    BY <2>2, <2>3, <2>4
<1>12. ASSUME NEW p \in Puts, SaveOpens(p) PROVE SaveInv'
  <2>1. puts[p] \in Save /\ puts[p] # NoPut /\ PutGoes(p, "writing")
    BY <1>12, Somewhere DEF SaveOpens, PutIs
  <2>2. puts'[p].at = "writing"
    BY <2>1, GoesOn
  <2>3. QED
    BY <1>o, <2>1, <2>2 DEF SaveInv, NoneOpened, PutIs
<1>13. ASSUME NEW p \in Puts, SaveWrites(p) PROVE SaveInv'
  <2>1. puts[p] \in Save /\ puts[p] # NoPut /\ PutGoes(p, "saved")
    BY <1>13, Somewhere DEF SaveWrites, PutIs
  <2>2. puts'[p].at = "saved" /\ puts'[p].cfg = puts[p].cfg
    BY <2>1, GoesOn
  <2>3. puts[p].alone => disk' = [cfg |-> puts[p].cfg, whole |-> TRUE]
    BY <1>13 DEF SaveWrites
  <2>4. QED
    BY <1>o, <2>1, <2>2, <2>3 DEF SaveInv, NoneOpened, PutIs
<1>e. ASSUME NEW p \in Puts, PutEnds(p)
      PROVE  \A q \in Puts : puts'[q] # NoPut /\ puts'[q].alone =>
               /\ puts'[q] = puts[q] /\ q # p /\ InFlight = {q}
               /\ p \notin InFlight /\ InFlight' = InFlight
  <2>1. puts'[p] = NoPut /\ \A q \in Puts \ {p} : puts'[q] = puts[q]
    BY <1>e, Ends
  <2>2. ASSUME NEW q \in Puts, puts'[q] # NoPut, puts'[q].alone
        PROVE  q # p /\ puts'[q] = puts[q] /\ InFlight = {q}
    BY <2>1, <2>2 DEF SaveInv
  <2>3. p \notin InFlight => InFlight' = InFlight
    BY <2>1 DEF InFlight
  <2>4. QED
    BY <2>2, <2>3
<1>14. ASSUME NEW p \in Puts, SaveFails(p) PROVE SaveInv'
  <2>1. puts[p] \in Save /\ puts[p] # NoPut /\ server \in Serves /\ PutEnds(p)
    BY <1>14, Somewhere DEF SaveFails, FailureSeen
  <2>2. p \in InFlight /\ \A q \in Puts \ {p} : puts'[q] = puts[q]
    BY <2>1, Ends DEF InFlight
  <2>3. \A q \in Puts : ~(puts'[q] # NoPut /\ puts'[q].alone)
    BY <1>e, <2>1, <2>2
  <2>4. ~strayed' => ~strayed /\ puts[p].at = "saving"
    BY <1>14 DEF SaveFails, PutIs
  <2>5. ~strayed' /\ NoneOpened' => NoneOpened
    BY <2>2, <2>4 DEF NoneOpened
  <2>6. UNCHANGED <<disk, server>>
    BY <1>14 DEF SaveFails
  <2>7. QED
    BY <2>3, <2>4, <2>5, <2>6 DEF SaveInv, Agree
<1>15. ASSUME NEW p \in Puts, PutDropped(p) PROVE SaveInv'
  <2>1. puts[p] \in Save /\ puts[p] # NoPut
    BY <1>15 DEF PutDropped, Shapes
  <2>2. puts'[p] = [puts[p] EXCEPT !.dropped = TRUE]
        /\ \A q \in Puts \ {p} : puts'[q] = puts[q]
    BY <1>15 DEF PutDropped, Shapes
  <2>3. puts'[p] # NoPut /\ puts'[p].at = puts[p].at /\ puts'[p].cfg = puts[p].cfg
        /\ puts'[p].alone = puts[p].alone
    BY <2>1, <2>2 DEF Save, NoPut
  <2>4. InFlight' = InFlight /\ (NoneOpened' => NoneOpened)
    BY <2>1, <2>2, <2>3 DEF InFlight, NoneOpened
  <2>5. UNCHANGED <<disk, server, strayed>>
    BY <1>15 DEF PutDropped
  <2>6. \A q \in Puts : /\ puts'[q] # NoPut => puts[q] # NoPut
                        /\ puts'[q].at = puts[q].at /\ puts'[q].cfg = puts[q].cfg
                        /\ puts'[q].alone = puts[q].alone
    BY <2>1, <2>2, <2>3
  <2>7. QED
    BY <2>4, <2>5, <2>6 DEF SaveInv, Agree, PutIs
<1>16. ASSUME NEW p \in Puts, PutSets(p) PROVE SaveInv'
  <2>1. puts[p] \in Save /\ puts[p] # NoPut /\ server \in Serves /\ PutEnds(p)
        /\ puts[p].at = "saved"
    BY <1>16, Somewhere DEF PutSets, PutIs
  <2>2. p \in InFlight
    BY <2>1 DEF InFlight
  <2>3. \A q \in Puts : ~(puts'[q] # NoPut /\ puts'[q].alone)
    BY <1>e, <2>1, <2>2
  <2>4. ~strayed' => puts[p].alone /\ server' = [server EXCEPT !.mem = puts[p].cfg]
    BY <1>16 DEF PutSets
  <2>5. puts[p].alone => disk = [cfg |-> puts[p].cfg, whole |-> TRUE]
    BY <2>1 DEF SaveInv, PutIs
  <2>6. ~strayed' => server'.mem = puts[p].cfg
    BY <2>1, <2>4 DEF Serves
  <2>7. disk' = disk
    BY <1>16 DEF PutSets
  <2>8. QED
    BY <2>3, <2>4, <2>5, <2>6, <2>7 DEF SaveInv, Agree
<1>17. ASSUME NEW cfg \in Config, Edited(cfg) PROVE SaveInv'
  BY <1>17 DEF Edited, SaveInv, InFlight
<1>18. CASE UNCHANGED vars
  BY <1>18, <1>f DEF vars
<1>19. QED
  BY <1>1, <1>2, <1>3, <1>4, <1>5, <1>6, <1>7, <1>8, <1>9, <1>10, <1>11, <1>12, <1>13,
     <1>14, <1>15, <1>16, <1>17, <1>18 DEF Next, Pairing, Serving, Running, Saving

--------------------------------------------------------------------------------
(* Key file, cached hash, binds and saves keep to the invariant, for any   *)
(* devices, keys and number of saves at once.                              *)
THEOREM AccessInvHolds == Spec => []AccessInv
<1>1. Init => AccessInv
  <2> SUFFICES ASSUME Init PROVE AccessInv
    OBVIOUS
  <2>1. Default \in Settings /\ MaxKeys \in Nat
    BY AccessAssumption
  <2>2. disk.cfg \in Config /\ disk \in [cfg : Config, whole : BOOLEAN]
    BY <2>1 DEF Init, Config, Binds
  <2>3. DOMAIN puts = Puts /\ \A p \in Puts : puts[p] = NoPut
    BY DEF Init
  <2>4. known \in BOOLEAN /\ strayed \in BOOLEAN /\ server = Down
    BY DEF Init
  <2>5. keyfile = None /\ whole = None /\ keys = 0 /\ pairing = {}
    BY DEF Init
  <2>6. Shapes
    BY <2>1, <2>2, <2>3, <2>4, <2>5 DEF Shapes
  <2>7. KeyInv /\ BindInv
    BY DEF Init, KeyInv, BindInv, ListensAsTold, Up, Down
  <2>8. SaveInv
    BY <2>3, <2>4 DEF SaveInv
  <2>9. QED
    BY <2>6, <2>7, <2>8 DEF AccessInv
<1>2. AccessInv /\ [Next]_vars => AccessInv'
  BY ShapesKept, KeyInvKept, BindInvKept, SaveInvKept DEF AccessInv
<1>3. QED
  BY <1>1, <1>2, PTL DEF Spec

(* However devices, pairings and rereads of the key file interleave, no    *)
(* device is refused whose key the server has had and that is still the    *)
(* last one written in full (remote.rs, RemoteKey).                        *)
THEOREM KeepsThePairedHolds == Spec => []KeepsThePaired
BY AccessInvHolds, PTL DEF AccessInv, KeyInv, KeepsThePaired

(* No save, restart, edit or vanished key makes the server listen where    *)
(* the operator has not said, or on the network without a key.             *)
THEOREM ListensAsToldHolds == Spec => []ListensAsTold
BY AccessInvHolds, PTL DEF AccessInv, BindInv

(* Settings in force are those on disk once no save is under way, for any  *)
(* number of requests: save and put_config change both or neither.         *)
THEOREM SettingsAgreeHolds == Spec => []SettingsAgree
<1>1. AccessInv => SettingsAgree
  BY DEF AccessInv, SaveInv, SettingsAgree, InFlight, NoneOpened, NoPut, Agree, Up, Down
<1>2. QED
  BY <1>1, AccessInvHolds, PTL

(* Every variable keeps its type: Shapes, and whose devices, keys and      *)
(* binds are spoken of.                                                    *)
THEOREM TypeCorrect == Spec => []TypeOK
<1> DEFINE Rest == /\ held \in [Devices -> 0..keys] /\ answered \subseteq Devices
                   /\ told \subseteq Binds /\ moves \in 0..MaxMoves /\ turned \in BOOLEAN
<1> USE DEF keyVars, devVars, confVars
<1>1. Init => Rest
  <2> SUFFICES ASSUME Init PROVE Rest
    OBVIOUS
  <2>1. turned \in BOOLEAN
    BY DEF Init
  <2> QED
    BY <2>1, AccessAssumption DEF Init, Binds, None
<1>2. Shapes /\ Rest /\ [Next]_vars => Rest'
  <2> SUFFICES ASSUME Shapes, Rest, [Next]_vars PROVE Rest'
    OBVIOUS
  <2>0. keys \in Nat /\ pairing \subseteq 1..keys
    BY DEF Shapes
  <2>m. Moves => moves' \in 0..MaxMoves
    BY AccessAssumption DEF Moves
  <2>1. CASE PairBegins
    <3>1. held' = held /\ keys' = keys + 1
      BY <2>1 DEF PairBegins
    <3>2. 0..keys \subseteq 0..(keys + 1)
      BY <2>0
    <3>3. held' \in [Devices -> 0..keys']
      BY <3>1, <3>2
    <3> QED
      BY <2>1, <3>3 DEF PairBegins
  <2>2. ASSUME NEW k \in Keys, NEW ds \in SUBSET Devices, PairWrites(k, ds) PROVE Rest'
    <3>1. k \in 0..keys
      BY <2>0, <2>2 DEF PairWrites
    <3> QED
      BY <2>2, <3>1 DEF PairWrites
  <2>3. CASE (\E k \in Keys : PairDies(k)) \/ Unpair \/ SecondPasses
    BY <2>3 DEF PairDies, Unpair, SecondPasses
  <2>4. ASSUME NEW d \in Devices, Asks(d) PROVE Rest'
    BY <2>4 DEF Asks, LetsIn, Refuses
  <2>5. CASE Running
    BY <2>5, <2>m DEF Running, BootChecks, BootListens, BootFails, ServerDies
  <2>6. ASSUME NEW p \in Puts, Saving(p) PROVE Rest'
    BY <2>6, <2>m DEF Saving, PutBegins, SaveOpens, SaveWrites, SaveFails, PutDropped, PutSets
  <2>7. ASSUME NEW cfg \in Config, Edited(cfg) PROVE Rest'
    BY <2>7, <2>m DEF Edited, Config
  <2>8. CASE UNCHANGED vars
    BY <2>8 DEF vars
  <2> QED
    BY <2>1, <2>2, <2>3, <2>4, <2>5, <2>6, <2>7, <2>8 DEF Next, Pairing, Serving
<1>3. AccessInv /\ Rest => TypeOK
  <2> SUFFICES ASSUME AccessInv, Rest PROVE TypeOK
    OBVIOUS
  <2>1. Shapes
    BY DEF AccessInv
  <2>2. \/ server = Down
        \/ server \in [at : {"checked"}, mem : Config]
        \/ server \in [at : {"up"}, mem : Config, listens : Binds, loaded : BOOLEAN,
                       hash : Keys \union {None}, quiet : BOOLEAN]
    BY <2>1 DEF Shapes, Checked, Serves
  <2>3. \A p \in Puts : puts[p] = NoPut \/ puts[p] \in
          [at : {"saving", "writing", "saved"}, cfg : Config, alone : BOOLEAN, dropped : BOOLEAN]
    BY <2>1 DEF Shapes, Save
  <2>4. keys \in 0..MaxKeys
    BY <2>1, AccessAssumption DEF Shapes
  <2> QED
    BY <2>1, <2>2, <2>3, <2>4 DEF Shapes, TypeOK
<1> QED
  BY <1>1, <1>2, <1>3, AccessInvHolds, PTL DEF Spec, AccessInv
================================================================================
