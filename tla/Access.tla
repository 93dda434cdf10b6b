-------------------------------- MODULE Access --------------------------------
(***************************************************************************)
(* Who may use the portal, where it listens and by which settings          *)
(* (src/src/remote.rs; src/src/web/routes.rs: guard, authenticate,         *)
(* put_config; src/src/config.rs: load, save, validate; src/src/main.rs):  *)
(* the key file that `pair` and `unpair` write beside a server that keeps  *)
(* the hash of it in memory, and the settings that the page saves to a     *)
(* file which the operator also edits and the next boot reads.             *)
(*                                                                         *)
(* Neither file is written at once: a write empties it first.              *)
(***************************************************************************)
EXTENDS Integers, FiniteSets

CONSTANTS
  Devices,    \* devices that may be paired, and keep asking
  MaxKeys,    \* bound: keys generated
  Puts,       \* requests to save the settings
  Settings,   \* what they may say
  Valid,      \* the settings that are in order
  Default,    \* those of a file that says nothing
  MaxMoves    \* bound: boots, saves and edits of the settings

Keys == 1..MaxKeys
None == 0      \* no key file
Torn == -1     \* a key file that holds no key

(* bind: loopback, or a private address that devices reach.                *)
Binds == {"loopback", "tailnet"}
Config == [bind : Binds, set : Settings]

ASSUME AccessAssumption ==
  /\ MaxKeys \in Nat /\ MaxMoves \in Nat /\ Valid \subseteq Settings /\ Default \in Valid

VARIABLES
  keyfile,    \* the key whose hash is on disk, None or Torn
  whole,      \* history: the last key that was there in full, None once unpaired
  pairing,    \* the keys that `pair` processes are writing
  keys,       \* keys generated
  held,       \* the key each device holds
  server,     \* down, booting, or up with what it has loaded
  known,      \* history: this server has had the hash of it
  answered,   \* history: the devices let in with the key they hold
  turned,     \* history: a device was refused that had been let in and still was paired
  disk,       \* the settings on disk
  puts,       \* how far each request to save them is
  told,       \* history: the binds the operator has written
  strayed,    \* history: the file and the server may differ
  moves       \* boots, saves and edits so far

keyVars == <<keyfile, whole, pairing, keys>>
devVars == <<held, known, answered, turned>>
confVars == <<disk, puts, told, strayed, moves>>
vars == <<keyVars, devVars, server, confVars>>

Down == [at |-> "down"]
Up == server.at = "up"
NoPut == [at |-> "idle"]

TypeOK ==
  /\ keyfile \in Keys \union {None, Torn} /\ whole \in Keys \union {None}
  /\ keys \in 0..MaxKeys /\ pairing \subseteq 1..keys
  /\ held \in [Devices -> 0..keys] /\ answered \subseteq Devices
  /\ known \in BOOLEAN /\ turned \in BOOLEAN
  /\ \/ server = Down
     \/ server \in [at : {"checked"}, mem : Config]
     \/ server \in [at : {"up"}, mem : Config, listens : Binds, loaded : BOOLEAN,
                    hash : Keys \union {None}, quiet : BOOLEAN]
  /\ disk \in [cfg : Config, whole : BOOLEAN]
  /\ \A p \in Puts : puts[p] = NoPut \/ puts[p] \in
       [at : {"saving", "writing", "saved"}, cfg : Config, alone : BOOLEAN, dropped : BOOLEAN]
  /\ told \subseteq Binds /\ strayed \in BOOLEAN /\ moves \in 0..MaxMoves

Init ==
  /\ keyfile = None /\ whole = None /\ pairing = {} /\ keys = 0
  /\ held = [d \in Devices |-> None] /\ answered = {}
  /\ known = FALSE /\ turned = FALSE /\ server = Down
  /\ disk = [cfg |-> [bind |-> "loopback", set |-> Default], whole |-> TRUE]
  /\ puts = [p \in Puts |-> NoPut]
  /\ told = {"loopback"} /\ strayed = FALSE /\ moves = 0

--------------------------------------------------------------------------------
(* pair and unpair: processes of their own.                                *)

PairBegins ==
  /\ keys < MaxKeys /\ keys' = keys + 1
  /\ pairing' = pairing \union {keys + 1} /\ keyfile' = Torn
  /\ UNCHANGED <<whole, devVars, server, confVars>>

(* The key is shown once it is written, and scanned.                       *)
PairWrites(k, ds) ==
  /\ k \in pairing /\ pairing' = pairing \ {k}
  /\ keyfile' = k /\ whole' = k
  /\ held' = [d \in Devices |-> IF d \in ds THEN k ELSE held[d]]
  /\ answered' = answered \ ds /\ known' = FALSE
  /\ UNCHANGED <<keys, turned, server, confVars>>

PairDies(k) ==
  /\ k \in pairing /\ pairing' = pairing \ {k}
  /\ UNCHANGED <<keyfile, whole, keys, devVars, server, confVars>>

Unpair ==
  /\ keyfile # None /\ keyfile' = None /\ whole' = None /\ known' = FALSE
  /\ UNCHANGED <<pairing, keys, held, answered, turned, server, confVars>>

--------------------------------------------------------------------------------
(* A device's request, on any path that needs a credential.                *)

(* Mutant: the file is only read again by a server that has no key.        *)
RereadsUnpaired(s) == ~s.quiet /\ s.hash = None

(* RemoteKey: a key that misses has the file read again, once a second.    *)
Rereads(s) == ~s.quiet

(* Mutant: a file that holds no key leaves no key.                         *)
HashForgotten(s) == IF keyfile = Torn THEN None ELSE keyfile

(* What is cached after it: a file that holds no key is being written.     *)
HashRead(s) == IF keyfile = Torn THEN s.hash ELSE keyfile

LetsIn(d) == answered' = answered \union {d} /\ UNCHANGED turned
Refuses(d) ==
  turned' = (turned \/ (known /\ held[d] = whole)) /\ UNCHANGED answered

(* authenticate, for a durable key, whose route does not matter, or for    *)
(* something that is none, as a page has that was open over a restart.     *)
Asks(d) ==
  /\ Up
  /\ IF ~server.loaded THEN Refuses(d) /\ UNCHANGED <<server, known>>
     ELSE IF held[d] \in {server.hash} \ {None} THEN LetsIn(d) /\ UNCHANGED <<server, known>>
     ELSE IF ~Rereads(server) THEN Refuses(d) /\ UNCHANGED <<server, known>>
     ELSE /\ server' = [server EXCEPT !.quiet = TRUE, !.hash = HashRead(server)]
          /\ known' = (known \/ (HashRead(server) = whole /\ whole # None))
          /\ IF held[d] = keyfile /\ keyfile # None THEN LetsIn(d) ELSE Refuses(d)
  /\ UNCHANGED <<keyVars, held, confVars>>

(* REREAD_QUIET has passed.                                                *)
SecondPasses ==
  /\ Up /\ server.quiet /\ server' = [server EXCEPT !.quiet = FALSE]
  /\ UNCHANGED <<keyVars, devVars, confVars>>

--------------------------------------------------------------------------------
(* The server's start and end.                                             *)

Moves == moves < MaxMoves /\ moves' = moves + 1

(* validate_with_key_at: a key file of any kind will do for it.            *)
InOrder(cfg) == cfg.set \in Valid /\ (cfg.bind = "tailnet" => keyfile # None)

(* What a settings file can be read as: one that was cut short, as what is *)
(* left of it and defaults for the rest, if as anything.                   *)
ReadsAs ==
  IF disk.whole THEN {disk.cfg}
  ELSE [bind : {disk.cfg.bind, "loopback"}, set : {disk.cfg.set, Default}]

(* load_or_create; one that is not in order does not start.                *)
BootChecks ==
  /\ server = Down /\ Moves
  /\ \E cfg \in ReadsAs :
       InOrder(cfg) /\ server' = [at |-> "checked", mem |-> cfg]
  /\ strayed' = ~disk.whole
  /\ UNCHANGED <<keyVars, devVars, disk, puts, told>>

(* Mutant: the key is not asked for again once it has been loaded.         *)
ListensUnasked(cfg) == TRUE

(* Elsewhere than on loopback it needs the key it has just loaded.         *)
MayListen(cfg) == cfg.bind = "loopback" \/ keyfile # None

(* The key is loaded, and the listeners bound.                             *)
BootListens ==
  /\ server.at = "checked" /\ keyfile # Torn /\ MayListen(server.mem)
  /\ server' = [at |-> "up", mem |-> server.mem, listens |-> server.mem.bind,
                loaded |-> keyfile # None, hash |-> keyfile, quiet |-> FALSE]
  /\ known' = (keyfile # None)
  /\ UNCHANGED <<keyVars, held, answered, turned, confVars>>

BootFails ==
  /\ server.at = "checked" /\ (keyfile = Torn \/ ~MayListen(server.mem)) /\ server' = Down
  /\ UNCHANGED <<keyVars, devVars, confVars>>

(* It may die at any time: a save under way is cut short.                  *)
ServerDies ==
  /\ server.at # "down" /\ server' = Down
  /\ puts' = [p \in Puts |-> NoPut] /\ known' = FALSE
  /\ UNCHANGED <<keyVars, held, answered, turned, disk, told, strayed, moves>>

--------------------------------------------------------------------------------
(* The settings.                                                           *)

InFlight == {p \in Puts : puts[p] # NoPut}
PutIs(p, at) == puts[p].at = at
PutGoes(p, at) == puts' = [puts EXCEPT ![p].at = at]
PutEnds(p) == puts' = [puts EXCEPT ![p] = NoPut]

(* Mutant: what the body says of bind is taken.                            *)
Merged(body) == body

(* Whatever the body says of bind, what the server runs with is kept.      *)
Kept(body) == [body EXCEPT !.bind = server.mem.bind]

(* put_config: read, merged, validated and handed to a blocking task.      *)
PutBegins(p, body) ==
  /\ Up /\ PutIs(p, "idle") /\ Moves /\ InOrder(Kept(body))
  /\ puts' = [q \in Puts |->
       IF q = p THEN [at |-> "saving", cfg |-> Kept(body), alone |-> InFlight = {},
                      dropped |-> FALSE]
       ELSE IF puts[q] = NoPut THEN NoPut ELSE [puts[q] EXCEPT !.alone = FALSE]]
  /\ UNCHANGED <<keyVars, devVars, server, disk, told, strayed>>

(* save: the file is emptied ...                                           *)
SaveOpens(p) ==
  /\ PutIs(p, "saving") /\ PutGoes(p, "writing")
  /\ disk' = [cfg |-> puts[p].cfg, whole |-> FALSE]
  /\ UNCHANGED <<keyVars, devVars, server, told, strayed, moves>>

(* ... and written; over what another save writes too, anything may stay.  *)
SaveWrites(p) ==
  /\ PutIs(p, "writing") /\ PutGoes(p, "saved")
  /\ \E ok \in BOOLEAN :
       /\ ~ok => ~puts[p].alone
       /\ disk' = [cfg |-> puts[p].cfg, whole |-> ok]
  /\ UNCHANGED <<keyVars, devVars, server, told, strayed, moves>>

(* Mutant: a save that failed is taken for one that was made.              *)
FailsUnseen(p) == PutGoes(p, "saved")

FailureSeen(p) == PutEnds(p)

(* A save that fails to open the file, or to write it.                     *)
SaveFails(p) ==
  /\ puts[p].at \in {"saving", "writing"} /\ FailureSeen(p)
  /\ strayed' = (strayed \/ PutIs(p, "writing"))
  /\ UNCHANGED <<keyVars, devVars, server, disk, told, moves>>

(* The client goes away: its handler is dropped, and not the blocking task.*)
PutDropped(p) ==
  /\ puts[p] # NoPut /\ ~puts[p].dropped
  /\ puts' = [puts EXCEPT ![p].dropped = TRUE]
  /\ UNCHANGED <<keyVars, devVars, server, disk, told, strayed, moves>>

(* The settings take effect; and are those of the file again, if no other  *)
(* save was under way.                                                     *)
PutSets(p) ==
  /\ PutIs(p, "saved") /\ PutEnds(p)
  /\ IF puts[p].dropped THEN strayed' = TRUE /\ UNCHANGED server
     ELSE strayed' = ~puts[p].alone /\ server' = [server EXCEPT !.mem = puts[p].cfg]
  /\ UNCHANGED <<keyVars, devVars, disk, told, moves>>

(* The operator edits the file by hand, though not in the midst of a save. *)
Edited(cfg) ==
  /\ Moves /\ InFlight = {} /\ disk' = [cfg |-> cfg, whole |-> TRUE]
  /\ told' = told \union {cfg.bind} /\ strayed' = TRUE
  /\ UNCHANGED <<keyVars, devVars, server, puts>>

--------------------------------------------------------------------------------
Pairing == PairBegins \/ (\E k \in Keys, ds \in SUBSET Devices : PairWrites(k, ds))
           \/ (\E k \in Keys : PairDies(k)) \/ Unpair
Serving == (\E d \in Devices : Asks(d)) \/ SecondPasses
Running == BootChecks \/ BootListens \/ BootFails \/ ServerDies
Saving(p) ==
  \/ \E body \in Config : PutBegins(p, body)
  \/ SaveOpens(p) \/ SaveWrites(p) \/ SaveFails(p) \/ PutDropped(p) \/ PutSets(p)

Next ==
  \/ Pairing \/ Serving \/ Running \/ (\E p \in Puts : Saving(p))
  \/ \E cfg \in Config : Edited(cfg)

(* Seconds pass, and a device asks again: the dashboard does so however it *)
(* is answered, while a page's socket gives up on the first 401.           *)
Fairness ==
  /\ WF_vars(SecondPasses)
  /\ \A d \in Devices : WF_vars(Asks(d))

Spec == Init /\ [][Next]_vars /\ Fairness

--------------------------------------------------------------------------------
(* Properties.                                                             *)

(* A device that holds the key on file, and keeps asking a server that was *)
(* started with one, is let in, whatever other devices present in the      *)
(* meantime and however they use up the one look at the file a second.     *)
NewKeyIsTaken ==
  \A d \in Devices, k \in Keys :
    (Up /\ server.loaded /\ keyfile = k /\ held[d] = k)
      ~> (d \in answered \/ keyfile # k \/ held[d] # k \/ ~Up)

(* A device whose key the server has had is not refused while that key is  *)
(* the last one written in full: a pairing that is half-way, or died there,*)
(* unpairs nobody.                                                         *)
KeepsThePaired == ~turned

(* Where the server listens, the operator has said so, and elsewhere than  *)
(* on loopback it was started with a key: no request to save settings      *)
(* moves it, at once or at the next start, and a key that goes between the *)
(* check of the settings and the start is missed.                          *)
ListensAsTold ==
  Up => server.listens \in told /\ (server.listens = "tailnet" => server.loaded)

(* At rest the file and the server agree, so that a restart changes        *)
(* nothing: a request to save settings changes both, or neither.  Excused  *)
(* are two saves at once, whose orders on the file and in memory differ, a *)
(* client that goes away between them, and a save cut short.               *)
SettingsAgree ==
  Up /\ InFlight = {} /\ ~strayed => disk = [cfg |-> server.mem, whole |-> TRUE]
================================================================================
