-------------------------------- MODULE Uploads --------------------------------
(***************************************************************************)
(* The files attached to one agent's messages (src/src/uploads.rs, the     *)
(* upload routes of src/src/web/routes.rs, the `uploads` and               *)
(* `upload_cancels` tables of src/src/db.rs, and send_message, drop_unsent *)
(* and delete in src/src/agent/supervisor.rs).                             *)
(*                                                                         *)
(* An upload is three things written at different moments by whoever is at *)
(* it: a private copy, a copy in a folder the agent can write in, and a    *)
(* row.  Names are reserved on disk, recorded in the table, withdrawn,     *)
(* claimed for a message and handed back by handlers that may be dropped   *)
(* at any await.                                                           *)
(***************************************************************************)
EXTENDS Naturals, Sequences, FiniteSets, FiniteSetsExt

CONSTANTS
  Uploads,        \* upload requests; also the page's id of each (client_id)
  Senders,        \* send requests
  Spellings,      \* spellings of one file name that fold to the same key
  Askings,        \* which spellings the uploads may ask for
  FoldingFS,      \* whether the filesystem takes them for one name
  MaxSuffix,      \* bound: the last suffix tried for a name
  MaxAttachments, \* MAX_ATTACHMENTS
  MaxTouches      \* bound: how often the agent meddles with its folder

ASSUME UploadsAssumption ==
  /\ Askings \subseteq [Uploads -> Spellings] /\ FoldingFS \in BOOLEAN
  /\ {<<>>, <<"other">>, "looked"} \cap Uploads = {}
  /\ MaxSuffix \in Nat \ {0}
  /\ MaxAttachments \in Nat /\ MaxTouches \in Nat

VARIABLES
  \* the tables: the agent's row is there, each upload's row, waiting cancels
  agent, row, cancels,
  \* the private folder and the agent's, by name
  private, shared,
  \* each upload's handler, later its finaliser: where it is, the name its
  \* files have or its row has, the name it tries, and whether it has all bytes
  at, name, try, whole,
  \* each withdrawal of a recorded upload: which copies are still to go
  withdrawal,
  \* each send: where it is, and what it holds
  sat, parts,
  \* the runner, the messages it has not read, those it drops
  runner, queue, undelivered,
  \* what delete has yet to wipe, the upload a download looked up and the one
  \* it sent, and how often the agent has meddled
  wiping, reader, touches,
  \* history: uploads the page withdrew, those whose files a dying server left
  withdrawn, stranded

tableVars == <<agent, row, cancels>>
fileVars == <<private, shared>>
uploadVars == <<at, name, try, whole, withdrawal>>
sendVars == <<sat, parts>>
runnerVars == <<runner, queue, undelivered>>
history == <<withdrawn, stranded>>
aside == <<wiping, reader, touches>>
others == <<sendVars, runnerVars, aside, history>>
vars == <<tableVars, fileVars, uploadVars, others>>

(* A name is a spelling and a suffix: a.txt, a-2.txt, A-2.txt.  fold_key   *)
(* leaves the suffix, and a folding filesystem knows one spelling only.    *)
Names == Spellings \X (1..MaxSuffix)
Fold(n) == n[2]
Next1(n) == <<n[1], n[2] + 1>>
Entry(n) == IF FoldingFS THEN <<CHOOSE s \in Spellings : TRUE, n[2]>> ELSE n

(* What a name in a folder holds: nothing, an upload's bytes, in the       *)
(* private folder an empty or half-written file of an upload's, in the     *)
(* agent's a placeholder or whatever the agent left there.                 *)
Absent == <<>>
Other == <<"other">>
Part(u) == <<u, FALSE>>
Whole(u) == <<u, TRUE>>
PrivateFile == {Absent} \union (Uploads \X BOOLEAN)
SharedFile == {Absent, Other} \union Uploads

(* No download is under way.                                               *)
Idle == <<>>

Recording == {"probing", "half", "undoing", "placing", "recording", "renaming", "unlinking"}
Cleaning == {"drop_try", "drop_try_shared", "cleaning", "cleaning_shared"}
Busy == Recording \union Cleaning \union {"streaming"}

TypeOK ==
  /\ agent \in BOOLEAN /\ row \in [Uploads -> {"none", "pending", "sent"}]
  /\ cancels \subseteq Uploads
  /\ private \in [Names -> PrivateFile] /\ shared \in [Names -> SharedFile]
  /\ at \in [Uploads -> Busy \union {"idle", "done"}]
  /\ name \in [Uploads -> Names] /\ try \in [Uploads -> Names]
  /\ whole \in [Uploads -> BOOLEAN]
  /\ withdrawal \in [Uploads -> {"none", "private", "shared"}]
  /\ sat \in [Senders -> {"idle", "checking", "sending", "releasing", "done", "dropped"}]
  /\ parts \in [Senders -> SUBSET Uploads]
  /\ runner \in {"down", "up", "closing"}
  /\ queue \in Seq(Senders) /\ undelivered \subseteq Senders
  /\ wiping \in {"no", "private", "shared", "done"}
  /\ reader \in {Idle} \union (Uploads \X ({"looked"} \union Uploads))
  /\ touches \in 0..MaxTouches
  /\ withdrawn \subseteq Uploads /\ stranded \subseteq Uploads

Init ==
  /\ agent = TRUE /\ row = [u \in Uploads |-> "none"] /\ cancels = {}
  /\ private = [n \in Names |-> Absent] /\ shared = [n \in Names |-> Absent]
  /\ at = [u \in Uploads |-> "idle"] /\ whole = [u \in Uploads |-> FALSE]
  /\ \E asked \in Askings : name = [u \in Uploads |-> <<asked[u], 1>>]
  /\ try = name
  /\ withdrawal = [u \in Uploads |-> "none"]
  /\ sat = [s \in Senders |-> "idle"]
  /\ parts = [s \in Senders |-> {}]
  /\ runner = "down" /\ queue = <<>> /\ undelivered = {}
  /\ wiping = "no" /\ reader = Idle /\ touches = 0
  /\ withdrawn = {} /\ stranded = {}

--------------------------------------------------------------------------------
(* Helpers.                                                                *)

Recorded == {u \in Uploads : row[u] # "none"}
Goes(u, from, to) == at[u] = from /\ at' = [at EXCEPT ![u] = to]
Private(n) == private[Entry(n)]
Shared(n) == shared[Entry(n)]
PrivateBecomes(n, file) == private' = [private EXCEPT ![Entry(n)] = file]
SharedBecomes(n, file) == shared' = [shared EXCEPT ![Entry(n)] = file]

(* Mutant: the size is compared and the hash is not.                       *)
MatchesSize(u, file) == file # Absent /\ file[2]

(* A private copy is used if it has the size and the hash of the row.      *)
Matches(u, file) == file = Whole(u)

(* release_uploads: rows that are gone are not brought back.               *)
Release(us) ==
  row' = [u \in Uploads |-> IF u \in us /\ row[u] # "none" THEN "pending" ELSE row[u]]

(* next_suffix: past every suffix that is recorded for the name.           *)
FirstSuffix ==
  IF Recorded = {} THEN 1 ELSE Max({Fold(name[u]) : u \in Recorded}) + 1

--------------------------------------------------------------------------------
(* An upload: a name reserved in both folders, then its bytes.             *)

Begins(u) ==
  /\ agent
  /\ IF FirstSuffix > MaxSuffix
     THEN Goes(u, "idle", "done") /\ UNCHANGED try
     ELSE /\ Goes(u, "idle", "probing")
          /\ try' = [try EXCEPT ![u] = <<name[u][1], FirstSuffix>>]
  /\ UNCHANGED <<tableVars, fileVars, name, whole, withdrawal, others>>

(* Where an upload goes that gives up: its guard removes both copies if it *)
(* has any.                                                                *)
GivenUp(u) == IF whole[u] THEN "cleaning" ELSE "done"

(* Mutant: a file that is there is opened instead of created.              *)
ReservesAnyFile(u) ==
  /\ Goes(u, "probing", "half") /\ PrivateBecomes(try[u], Part(u))
  /\ UNCHANGED <<tableVars, shared, name, try, whole, withdrawal, others>>

(* create_unique, one candidate: the private folder first.  A name that is *)
(* taken is passed over; in the end there are no more.                     *)
PassesOver(u, from) ==
  IF Fold(try[u]) < MaxSuffix
  THEN Goes(u, from, "probing") /\ try' = [try EXCEPT ![u] = Next1(try[u])]
  ELSE Goes(u, from, GivenUp(u)) /\ UNCHANGED try

ReservesPrivate(u) ==
  /\ IF Private(try[u]) = Absent
     THEN Goes(u, "probing", "half") /\ PrivateBecomes(try[u], Part(u)) /\ UNCHANGED try
     ELSE PassesOver(u, "probing") /\ UNCHANGED private
  /\ UNCHANGED <<tableVars, shared, name, whole, withdrawal, others>>

(* Then the agent's folder.  If the name is taken there, the private one   *)
(* is let go.                                                              *)
ReservesShared(u) ==
  /\ IF Shared(try[u]) = Absent
     THEN /\ Goes(u, "half", IF whole[u] THEN "renaming" ELSE "streaming")
          /\ SharedBecomes(try[u], Other)
          /\ name' = IF whole[u] THEN name ELSE [name EXCEPT ![u] = try[u]]
     ELSE Goes(u, "half", "undoing") /\ UNCHANGED <<shared, name>>
  /\ UNCHANGED <<tableVars, private, try, whole, withdrawal, others>>

Undoes(u) ==
  /\ PassesOver(u, "undoing")
  /\ PrivateBecomes(try[u], Absent)
  /\ UNCHANGED <<tableVars, shared, name, whole, withdrawal, others>>

(* The last byte.  The file is written through its handle: an entry that   *)
(* was removed meanwhile is not brought back.                              *)
LastByte(u) ==
  /\ Goes(u, "streaming", "placing")
  /\ whole' = [whole EXCEPT ![u] = TRUE]
  /\ IF Private(name[u]) = Part(u) THEN PrivateBecomes(name[u], Whole(u)) ELSE UNCHANGED private
  /\ UNCHANGED <<tableVars, shared, name, try, withdrawal, others>>

(* Too large, stalled, cut off, or the client is gone: the guard is        *)
(* dropped with its handler.                                               *)
StreamEnds(u) ==
  /\ Goes(u, "streaming", "cleaning")
  /\ UNCHANGED <<tableVars, fileVars, name, try, whole, withdrawal, others>>

--------------------------------------------------------------------------------
(* finish_upload, which nothing interrupts but the end of the server.      *)

(* restore_copy: staged from the private copy if that is whole, and put in *)
(* place of whatever the agent's folder has there.                         *)
Places(u) ==
  /\ Matches(u, Private(name[u]))
  /\ Goes(u, "placing", "recording")
  /\ SharedBecomes(name[u], u)
  /\ UNCHANGED <<tableVars, private, name, try, whole, withdrawal, others>>

(* The private copy is not what was uploaded, a disk or a database is full *)
(* or locked, or the agent is gone and the row refused.                    *)
FinishFails(u) ==
  /\ Goes(u, "placing", "cleaning") \/ Goes(u, "recording", "cleaning")
  /\ UNCHANGED <<tableVars, fileVars, name, try, whole, withdrawal, others>>

(* Mutants: the row is inserted without a look at the cancels, or at names *)
(* that differ by their spelling only.                                     *)
RecordsUncancelled(u) ==
  /\ agent /\ ~\E v \in Recorded : Fold(name[v]) = Fold(name[u])
  /\ Goes(u, "recording", "done")
  /\ row' = [row EXCEPT ![u] = "pending"]
  /\ UNCHANGED <<agent, cancels, fileVars, name, try, whole, withdrawal, others>>
TakenByName(u) == \E v \in Recorded : name[v] = name[u]

(* record_upload, one transaction.  A cancel that waits is used up, and a  *)
(* fold that has a row is not used again.                                  *)
Taken(u) == \E v \in Recorded : Fold(name[v]) = Fold(name[u])

RecordCancelled(u) ==
  /\ u \in cancels
  /\ Goes(u, "recording", "cleaning") /\ cancels' = cancels \ {u}
  /\ UNCHANGED <<agent, row, fileVars, name, try, whole, withdrawal, others>>

RecordTaken(u) ==
  /\ u \notin cancels /\ agent /\ Taken(u)
  /\ IF Fold(name[u]) < MaxSuffix
     THEN Goes(u, "recording", "probing") /\ try' = [try EXCEPT ![u] = Next1(name[u])]
     ELSE Goes(u, "recording", "cleaning") /\ UNCHANGED try
  /\ UNCHANGED <<tableVars, fileVars, name, whole, withdrawal, others>>

RecordInserted(u) ==
  /\ u \notin cancels /\ agent /\ ~Taken(u)
  /\ Goes(u, "recording", "done")
  /\ row' = [row EXCEPT ![u] = "pending"]
  /\ UNCHANGED <<agent, cancels, fileVars, name, try, whole, withdrawal, others>>

(* On to the next free name: the private copy is renamed onto its          *)
(* placeholder, or the placeholders go; the agent's old copy goes.         *)
Renames(u) ==
  /\ IF Private(name[u]) # Absent
     THEN /\ Goes(u, "renaming", "unlinking")
          /\ private' = [private EXCEPT ![Entry(try[u])] = Private(name[u]),
                                        ![Entry(name[u])] = Absent]
     ELSE Goes(u, "renaming", "drop_try") /\ UNCHANGED private
  /\ UNCHANGED <<tableVars, shared, name, try, whole, withdrawal, others>>

Unlinks(u) ==
  /\ Goes(u, "unlinking", "placing")
  /\ SharedBecomes(name[u], Absent)
  /\ name' = [name EXCEPT ![u] = try[u]]
  /\ UNCHANGED <<tableVars, private, try, whole, withdrawal, others>>

(* Mutant: a guard that was told to keep nothing keeps everything.         *)
GuardKeeps(u) ==
  /\ Goes(u, "cleaning", "done")
  /\ UNCHANGED <<tableVars, fileVars, name, try, whole, withdrawal, others>>

(* Files removed one by one: the placeholders of a rename that failed, and *)
(* PartialUpload::drop.                                                    *)
DropsPrivate(u) ==
  /\ \/ Goes(u, "drop_try", "drop_try_shared") /\ PrivateBecomes(try[u], Absent)
     \/ Goes(u, "cleaning", "cleaning_shared") /\ PrivateBecomes(name[u], Absent)
  /\ UNCHANGED <<tableVars, shared, name, try, whole, withdrawal, others>>

DropsShared(u) ==
  /\ \/ Goes(u, "drop_try_shared", "cleaning") /\ SharedBecomes(try[u], Absent)
     \/ Goes(u, "cleaning_shared", "done") /\ SharedBecomes(name[u], Absent)
  /\ UNCHANGED <<tableVars, private, name, try, whole, withdrawal, others>>

--------------------------------------------------------------------------------
(* Withdrawals.                                                            *)

(* cancel_by_client_id, one transaction: a pending row is withdrawn, a     *)
(* sent one left alone, and for one that is not there a cancel is left.    *)
(* Cancels older than an hour go; no upload is that long in recording.     *)
Cancel(u) ==
  /\ agent /\ u \notin withdrawn
  /\ \E old \in SUBSET {v \in cancels : at[v] = "done"} :
       cancels' = (cancels \ old) \union (IF row[u] = "none" THEN {u} ELSE {})
  /\ row' = IF row[u] = "pending" THEN [row EXCEPT ![u] = "none"] ELSE row
  /\ withdrawal' = IF row[u] = "pending" THEN [withdrawal EXCEPT ![u] = "private"] ELSE withdrawal
  /\ withdrawn' = IF row[u] = "sent" THEN withdrawn ELSE withdrawn \union {u}
  /\ UNCHANGED <<agent, fileVars, at, name, try, whole, sendVars, runnerVars, aside, stranded>>

(* delete_upload, by name: a sent file is refused.                         *)
Withdraw(u) ==
  /\ row[u] = "pending"
  /\ row' = [row EXCEPT ![u] = "none"]
  /\ withdrawal' = [withdrawal EXCEPT ![u] = "private"]
  /\ withdrawn' = withdrawn \union {u}
  /\ UNCHANGED <<agent, cancels, fileVars, at, name, try, whole, sendVars, runnerVars, aside, stranded>>

(* remove_copies: the private copy first.                                  *)
RemovesPrivate(u) ==
  /\ withdrawal[u] = "private"
  /\ withdrawal' = [withdrawal EXCEPT ![u] = "shared"]
  /\ PrivateBecomes(name[u], Absent)
  /\ UNCHANGED <<tableVars, shared, at, name, try, whole, others>>

RemovesShared(u) ==
  /\ withdrawal[u] = "shared"
  /\ withdrawal' = [withdrawal EXCEPT ![u] = "none"]
  /\ SharedBecomes(name[u], Absent)
  /\ UNCHANGED <<tableVars, private, at, name, try, whole, others>>

--------------------------------------------------------------------------------
(* Sends.                                                                  *)

SGoes(s, from, to) == sat[s] = from /\ sat' = [sat EXCEPT ![s] = to]

(* Mutant: rows are claimed whoever else has claimed them.                 *)
ClaimsAny(s) ==
  \E us \in SUBSET Recorded \ {{}} :
    /\ SGoes(s, "idle", "checking")
    /\ row' = [u \in Uploads |-> IF u \in us THEN "sent" ELSE row[u]]
    /\ parts' = [parts EXCEPT ![s] = us]
    /\ UNCHANGED <<agent, cancels, fileVars, uploadVars, runnerVars, aside, history>>

(* claim_uploads: the rows of the names the page asks for, all pending, or *)
(* none of them.                                                           *)
Claims(s) ==
  \E names \in SUBSET {name[u] : u \in {v \in Uploads : at[v] = "done"}} \ {{}} :
    LET us == {u \in Recorded : name[u] \in names} IN
    /\ IF /\ Cardinality(names) <= MaxAttachments
          /\ \A n \in names : \E u \in us : name[u] = n /\ row[u] = "pending"
       THEN /\ SGoes(s, "idle", "checking")
            /\ row' = [u \in Uploads |-> IF u \in us THEN "sent" ELSE row[u]]
            /\ parts' = [parts EXCEPT ![s] = us]
       ELSE SGoes(s, "idle", "done") /\ UNCHANGED <<row, parts>>
    /\ UNCHANGED <<agent, cancels, fileVars, uploadVars, runnerVars, aside, history>>

(* Each copy the agent has changed is restored from the private one, as    *)
(* far as that goes.                                                       *)
Checks(s) ==
  /\ \E us \in SUBSET {u \in parts[s] : Shared(name[u]) = u \/ Matches(u, Private(name[u]))} :
       /\ SGoes(s, "checking", IF us = parts[s] THEN "sending" ELSE "releasing")
       /\ shared' = [n \in Names |-> IF \E u \in us : Entry(name[u]) = n
                                    THEN CHOOSE u \in us : Entry(name[u]) = n ELSE shared[n]]
  /\ UNCHANGED <<tableVars, private, uploadVars, parts, runnerVars, aside, history>>

(* The command is queued if the runner's channel is open.                  *)
Sends(s) ==
  /\ IF runner = "up"
     THEN SGoes(s, "sending", "done") /\ queue' = Append(queue, s)
     ELSE SGoes(s, "sending", "releasing") /\ UNCHANGED queue
  /\ UNCHANGED <<tableVars, fileVars, uploadVars, parts, runner, undelivered, aside, history>>

Releases(s) ==
  /\ SGoes(s, "releasing", "done")
  /\ Release(parts[s])
  /\ parts' = [parts EXCEPT ![s] = {}]
  /\ UNCHANGED <<agent, cancels, fileVars, uploadVars, runnerVars, aside, history>>

(* The client goes away, and its send is dropped at an await with what it  *)
(* holds.                                                                  *)
SendDropped(s) ==
  /\ \E from \in {"checking", "sending", "releasing"} : SGoes(s, from, "dropped")
  /\ UNCHANGED <<tableVars, fileVars, uploadVars, parts, runnerVars, aside, history>>

--------------------------------------------------------------------------------
(* The runner.                                                             *)

RunnerStarts ==
  /\ agent /\ runner = "down"
  /\ runner' = "up"
  /\ UNCHANGED <<tableVars, fileVars, uploadVars, sendVars, queue, undelivered, aside, history>>

(* send_user_message: to the child and the event log.                      *)
RunnerTakes ==
  /\ runner = "up" /\ queue # <<>>
  /\ queue' = Tail(queue)
  /\ UNCHANGED <<tableVars, fileVars, uploadVars, sendVars, runner, undelivered, aside, history>>

(* drop_unsent: the channel is closed and emptied, and then what was in it *)
(* released.                                                               *)
RunnerExits ==
  /\ runner = "up"
  /\ runner' = "closing" /\ queue' = <<>>
  /\ undelivered' = {queue[i] : i \in DOMAIN queue}
  /\ UNCHANGED <<tableVars, fileVars, uploadVars, sendVars, aside, history>>

DropsUnsent ==
  /\ runner = "closing"
  /\ runner' = "down" /\ undelivered' = {}
  /\ Release(UNION {parts[s] : s \in undelivered})
  /\ parts' = [s \in Senders |-> IF s \in undelivered THEN {} ELSE parts[s]]
  /\ UNCHANGED <<agent, cancels, fileVars, uploadVars, sat, queue, aside, history>>

--------------------------------------------------------------------------------
(* The agent, its delete, a download, the server's end.                    *)

(* The agent writes, moves away or removes what is in its own folder.      *)
AgentTouches ==
  /\ touches < MaxTouches /\ touches' = touches + 1
  /\ \E n \in Names, file \in {Absent, Other} : Shared(n) # file /\ SharedBecomes(n, file)
  /\ UNCHANGED <<tableVars, private, uploadVars, sendVars, runnerVars, wiping, reader, history>>

(* delete, once it has waited for the runner to go.  The code waits for a  *)
(* deadline and then goes on; a runner still up by then is left out.       *)
AgentDeleted ==
  /\ agent /\ runner = "down"
  /\ agent' = FALSE /\ wiping' = "private"
  /\ row' = [u \in Uploads |-> "none"] /\ cancels' = {}
  /\ UNCHANGED <<fileVars, uploadVars, sendVars, runnerVars, reader, touches, history>>

WipesPrivate ==
  /\ wiping = "private"
  /\ wiping' = "shared"
  /\ private' = [n \in Names |-> Absent]
  /\ UNCHANGED <<tableVars, shared, uploadVars, sendVars, runnerVars, reader, touches, history>>

WipesShared ==
  /\ wiping = "shared"
  /\ wiping' = "done"
  /\ shared' = [n \in Names |-> Absent]
  /\ UNCHANGED <<tableVars, private, uploadVars, sendVars, runnerVars, reader, touches, history>>

(* download_upload: the row, and later whatever its name holds, if that is *)
(* still what the row says.                                                *)
LooksUp ==
  /\ reader = Idle
  /\ \E u \in Recorded : reader' = <<u, "looked">>
  /\ UNCHANGED <<tableVars, fileVars, uploadVars, sendVars, runnerVars, wiping, touches, history>>

Serves ==
  /\ \E u \in Uploads : LET file == Private(name[u]) IN
       /\ reader = <<u, "looked">>
       /\ reader' = IF Matches(u, file) THEN <<u, file[1]>> ELSE Idle
  /\ UNCHANGED <<tableVars, fileVars, uploadVars, sendVars, runnerVars, wiping, touches, history>>

(* The server dies.  Tables and files stay as they are; a runner, queued   *)
(* messages and everything under way are gone.                             *)
ServerDies ==
  /\ at' = [u \in Uploads |-> IF at[u] = "idle" THEN "idle" ELSE "done"]
  /\ withdrawal' = [u \in Uploads |-> "none"]
  /\ stranded' = stranded \union {u \in Uploads :
       at[u] \in Busy \/ withdrawal[u] # "none" \/ wiping \in {"private", "shared"}}
  /\ sat' = [s \in Senders |-> IF sat[s] \in {"idle", "done"} THEN sat[s] ELSE "dropped"]
  /\ runner' = "down" /\ queue' = <<>> /\ undelivered' = {}
  /\ wiping' = IF wiping = "no" THEN "no" ELSE "done"
  /\ UNCHANGED <<tableVars, fileVars, name, try, whole, parts, reader, touches, withdrawn>>

Upload(u) ==
  \/ Begins(u) \/ ReservesPrivate(u) \/ ReservesShared(u) \/ Undoes(u) \/ LastByte(u)
  \/ StreamEnds(u) \/ Places(u) \/ FinishFails(u) \/ RecordCancelled(u) \/ RecordTaken(u)
  \/ RecordInserted(u) \/ Renames(u) \/ Unlinks(u) \/ DropsPrivate(u) \/ DropsShared(u)
Withdrawal(u) == Cancel(u) \/ Withdraw(u) \/ RemovesPrivate(u) \/ RemovesShared(u)
Message(s) == Claims(s) \/ Checks(s) \/ Sends(s) \/ Releases(s) \/ SendDropped(s)
Runner == RunnerStarts \/ RunnerTakes \/ RunnerExits \/ DropsUnsent
Delete == AgentDeleted \/ WipesPrivate \/ WipesShared
Download == LooksUp \/ Serves

Next ==
  \/ \E u \in Uploads : Upload(u) \/ Withdrawal(u)
  \/ \E s \in Senders : Message(s)
  \/ Runner \/ AgentTouches \/ Delete \/ Download \/ ServerDies

Spec == Init /\ [][Next]_vars

--------------------------------------------------------------------------------
(* Properties.                                                             *)

(* A row always has its file: whatever is recorded can be sent, restored   *)
(* and downloaded, through every withdrawal, rename and clean-up of other  *)
(* uploads that had or tried the same name.  And a file its row: nothing   *)
(* is left under a name once nobody is at work on it, but what a dying     *)
(* server left (finish_upload: "there is never a file without a row or a   *)
(* row without its files").                                                *)
AtWorkOn(u, n) ==
  \/ at[u] \in Busy /\ n \in {Entry(name[u]), Entry(try[u])}
  \/ withdrawal[u] = "private" /\ n = Entry(name[u])

RowHasItsFile == \A u \in Recorded : Private(name[u]) = Whole(u)
FileHasItsRow ==
  \A n \in Names : private[n] # Absent =>
    \/ wiping = "private"
    \/ \E u \in Uploads :
         \/ u \in Recorded /\ n = Entry(name[u])
         \/ AtWorkOn(u, n)
         \/ u \in stranded /\ n \in {Entry(name[u]), Entry(try[u])}
RowsAndFilesAgree == RowHasItsFile /\ FileHasItsRow

(* Two rows never have names the filesystem could take for one.            *)
NamesAreDistinct == \A u, v \in Recorded : Fold(name[u]) = Fold(name[v]) => u = v

(* An upload is marked sent exactly while one send holds it, as long as    *)
(* its message waits and for good once that is delivered or lost with a    *)
(* dropped handler: two tabs never both send it, one that is in a message  *)
(* is never offered again nor withdrawn, and one whose message was refused *)
(* or dropped by the runner is pending again.                              *)
SentInOneMessage ==
  \A u \in Recorded :
    Cardinality({s \in Senders : u \in parts[s]}) = IF row[u] = "sent" THEN 1 ELSE 0

(* An upload the page has withdrawn is never there again, however its      *)
(* cancel and its recording race each other (cancel_by_client_id: "so a    *)
(* cancel either lands before it (and wins) or finds the row").            *)
CancelHolds == \A u \in withdrawn : row[u] = "none"

(* A download is of the bytes that were uploaded, though the name may have *)
(* passed to another upload between the look-up and the opening.           *)
DownloadIsTheUpload == \A u, v \in Uploads : reader = <<u, v>> => u = v
================================================================================
