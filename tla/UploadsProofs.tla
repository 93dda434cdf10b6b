----------------------------- MODULE UploadsProofs -----------------------------
(***************************************************************************)
(* Proofs about Uploads, for any uploads, senders, names and bounds, on    *)
(* filesystems that fold names and on those that do not: rows and private  *)
(* copies agree, names are distinct, an upload is in one message, a        *)
(* withdrawn one stays withdrawn.                                          *)
(***************************************************************************)
EXTENDS Uploads, FiniteSetTheorems, WellFoundedInduction, TLAPS

States == Busy \union {"idle", "done"}

(* Names, and what the disk takes them for.                                *)
LEMMA NameFacts ==
  ASSUME NEW n \in Names
  PROVE  n[1] \in Spellings /\ n[2] \in 1..MaxSuffix /\ Entry(n) \in Names
<1>1. n[1] \in Spellings /\ n[2] \in 1..MaxSuffix
  BY DEF Names
<1>2. (CHOOSE s \in Spellings : TRUE) \in Spellings
  BY <1>1
<1>3. QED
  BY <1>1, <1>2 DEF Names, Entry

LEMMA Next1Facts ==
  ASSUME NEW n \in Names, Fold(n) < MaxSuffix
  PROVE  Next1(n) \in Names
<1>1. n[1] \in Spellings /\ n[2] \in 1..MaxSuffix /\ MaxSuffix \in Nat
  BY NameFacts, UploadsAssumption
<1>2. n[2] + 1 \in 1..MaxSuffix
  BY <1>1 DEF Fold
<1>3. QED
  BY <1>1, <1>2 DEF Next1, Names

(* A set of numbers with a bound has a greatest.                           *)
LEMMA GreatestOf ==
  ASSUME NEW B \in Nat, NEW S \in SUBSET (0..B), S # {}
  PROVE  Max(S) \in S /\ \A y \in S : Max(S) >= y
<1> DEFINE T == {B - x : x \in S}
           Less == OpToRel(<, Nat)
<1>1. \A x \in S : x \in 0..B /\ B - x \in Nat
  OBVIOUS
<1>2. \A t \in T : \E x \in S : t = B - x
  OBVIOUS
<1>3. \A x \in S : B - x \in T
  OBVIOUS
<1>4. \A x, y \in Nat : x < y <=> <<x, y>> \in Less
  BY DEF OpToRel
<1>5. IsWellFoundedOn(Less, Nat)
  BY NatLessThanWellFounded
<1> HIDE DEF T, Less
<1>6. T \subseteq Nat
  BY <1>1, <1>2
<1>7. T # {}
  BY <1>3
<1>8. PICK t \in T : \A u \in T : ~(<<u, t>> \in Less)
  BY <1>5, <1>6, <1>7, WFMin
<1>9. \A u \in T : ~(u < t)
  BY <1>4, <1>6, <1>8
<1>10. PICK x \in S : t = B - x
  BY <1>2
<1>11. \A y \in S : x >= y
  <2> SUFFICES ASSUME NEW y \in S PROVE x >= y
    OBVIOUS
  <2>1. ~(B - y < B - x)
    BY <1>3, <1>9, <1>10
  <2>2. QED
    BY <2>1, <1>1
<1>12. QED
  BY <1>11 DEF Max

LEMMA FirstSuffixType ==
  ASSUME name \in [Uploads -> Names] PROVE FirstSuffix \in Nat \ {0}
<1> DEFINE S == {Fold(name[u]) : u \in Recorded}
<1>1. MaxSuffix \in Nat
  BY UploadsAssumption
<1>2. \A u \in Recorded : Fold(name[u]) \in 0..MaxSuffix
  <2> SUFFICES ASSUME NEW u \in Recorded PROVE Fold(name[u]) \in 0..MaxSuffix
    OBVIOUS
  <2>1. name[u] \in Names
    BY DEF Recorded
  <2>2. QED
    BY <1>1, <2>1, NameFacts DEF Fold
<1>3. S \subseteq 0..MaxSuffix
  BY <1>2
<1>4. CASE Recorded = {}
  BY <1>4 DEF FirstSuffix
<1>5. CASE Recorded # {}
  <2>1. S # {}
    BY <1>5
  <2> HIDE DEF S
  <2>2. Max(S) \in 0..MaxSuffix
    BY <1>1, <1>3, <2>1, GreatestOf
  <2>3. FirstSuffix = Max(S) + 1
    BY <1>5 DEF FirstSuffix, S
  <2>4. QED
    BY <2>2, <2>3
<1>6. QED
  BY <1>4, <1>5

--------------------------------------------------------------------------------
(* Types.                                                                  *)

DiskTypes == private \in [Names -> PrivateFile] /\ shared \in [Names -> SharedFile]
TableTypes ==
  /\ agent \in BOOLEAN /\ row \in [Uploads -> {"none", "pending", "sent"}]
  /\ cancels \subseteq Uploads
UploadTypes ==
  /\ at \in [Uploads -> States]
  /\ name \in [Uploads -> Names] /\ try \in [Uploads -> Names]
  /\ whole \in [Uploads -> BOOLEAN]
  /\ withdrawal \in [Uploads -> {"none", "private", "shared"}]
SendTypes ==
  /\ sat \in [Senders -> {"idle", "checking", "sending", "releasing", "done", "dropped"}]
  /\ parts \in [Senders -> SUBSET Uploads]
RunnerTypes ==
  /\ runner \in {"down", "up", "closing"}
  /\ queue \in Seq(Senders) /\ undelivered \subseteq Senders
AsideTypes ==
  /\ wiping \in {"no", "private", "shared", "done"}
  /\ reader \in {Idle} \union (Uploads \X ({"looked"} \union Uploads))
  /\ touches \in 0..MaxTouches
  /\ withdrawn \subseteq Uploads /\ stranded \subseteq Uploads
Types ==
  /\ DiskTypes /\ TableTypes /\ UploadTypes /\ SendTypes /\ RunnerTypes /\ AsideTypes

LEMMA TypesAre == Types <=> TypeOK
BY DEF Types, DiskTypes, TableTypes, UploadTypes, SendTypes, RunnerTypes, AsideTypes, TypeOK, States

LEMMA WritesPrivate ==
  ASSUME DiskTypes, NEW n \in Names, NEW file \in PrivateFile, PrivateBecomes(n, file)
  PROVE  private' \in [Names -> PrivateFile]
BY DEF DiskTypes, PrivateBecomes

LEMMA WritesShared ==
  ASSUME DiskTypes, NEW n \in Names, NEW file \in SharedFile, SharedBecomes(n, file)
  PROVE  shared' \in [Names -> SharedFile]
BY DEF DiskTypes, SharedBecomes

LEMMA FileTypes ==
  /\ Absent \in PrivateFile /\ Absent \in SharedFile /\ Other \in SharedFile
  /\ \A u \in Uploads : Part(u) \in PrivateFile /\ Whole(u) \in PrivateFile /\ u \in SharedFile
BY DEF PrivateFile, SharedFile, Part, Whole

(* An upload's own steps.                                                  *)
LEMMA UploadKeepsTypes ==
  ASSUME Types, NEW u \in Uploads, Upload(u) PROVE Types'
<1> USE DEF Types
<1>1. /\ UNCHANGED <<agent, withdrawal, others>>
      /\ SendTypes' /\ RunnerTypes' /\ AsideTypes' /\ withdrawal' \in [Uploads -> {"none", "private", "shared"}]
  <2>1. UNCHANGED <<agent, withdrawal, others>>
    BY DEF Upload, Begins, ReservesPrivate, ReservesShared, Undoes, LastByte, StreamEnds, Places,
           FinishFails, RecordCancelled, RecordTaken, RecordInserted, Renames, Unlinks,
           DropsPrivate, DropsShared, tableVars
  <2>2. QED
    BY <2>1 DEF others, sendVars, runnerVars, aside, history, SendTypes, RunnerTypes, AsideTypes,
                UploadTypes
<1>2. TableTypes'
  BY <1>1 DEF Upload, Begins, ReservesPrivate, ReservesShared, Undoes, LastByte, StreamEnds, Places,
           FinishFails, RecordCancelled, RecordTaken, RecordInserted, Renames, Unlinks,
           DropsPrivate, DropsShared, tableVars, TableTypes
<1>3. name[u] \in Names /\ try[u] \in Names
  BY DEF UploadTypes
<1>4. at' \in [Uploads -> States]
  <2>1. ASSUME NEW from, NEW to \in States, Goes(u, from, to) PROVE at' \in [Uploads -> States]
    BY <2>1 DEF Goes, UploadTypes
  <2>2. \E from, to \in States : Goes(u, from, to)
    BY DEF Upload, Begins, ReservesPrivate, PassesOver, GivenUp, ReservesShared, Undoes, LastByte,
           StreamEnds, Places, FinishFails, RecordCancelled, RecordTaken, RecordInserted, Renames,
           Unlinks, DropsPrivate, DropsShared, States, Busy, Recording, Cleaning
  <2>3. QED
    BY <2>1, <2>2
<1>5. whole' \in [Uploads -> BOOLEAN] /\ name' \in [Uploads -> Names]
  <2>1. whole' = whole \/ whole' = [whole EXCEPT ![u] = TRUE]
    BY DEF Upload, Begins, ReservesPrivate, ReservesShared, Undoes, LastByte, StreamEnds, Places,
           FinishFails, RecordCancelled, RecordTaken, RecordInserted, Renames, Unlinks,
           DropsPrivate, DropsShared
  <2>2. name' = name \/ name' = [name EXCEPT ![u] = try[u]]
    BY DEF Upload, Begins, ReservesPrivate, ReservesShared, Undoes, LastByte, StreamEnds, Places,
           FinishFails, RecordCancelled, RecordTaken, RecordInserted, Renames, Unlinks,
           DropsPrivate, DropsShared
  <2>3. QED
    BY <1>3, <2>1, <2>2 DEF UploadTypes
<1>6. try' \in [Uploads -> Names]
  <2>1. ASSUME NEW n \in Names, try' = [try EXCEPT ![u] = n] PROVE try' \in [Uploads -> Names]
    BY <2>1 DEF UploadTypes
  <2>2. CASE Begins(u)
    <3>1. FirstSuffix \in Nat \ {0} /\ MaxSuffix \in Nat
      BY FirstSuffixType, UploadsAssumption DEF UploadTypes
    <3>2. CASE FirstSuffix > MaxSuffix
      BY <2>2, <3>2 DEF Begins, UploadTypes
    <3>3. CASE ~(FirstSuffix > MaxSuffix)
      <4>1. <<name[u][1], FirstSuffix>> \in Names
        BY <1>3, <3>1, <3>3, NameFacts DEF Names
      <4>2. try' = [try EXCEPT ![u] = <<name[u][1], FirstSuffix>>]
        BY <2>2, <3>3 DEF Begins
      <4>3. QED
        BY <2>1, <4>1, <4>2
    <3>4. QED
      BY <3>2, <3>3
  <2>3. \/ Begins(u) \/ try' = try
        \/ Fold(try[u]) < MaxSuffix /\ try' = [try EXCEPT ![u] = Next1(try[u])]
        \/ Fold(name[u]) < MaxSuffix /\ try' = [try EXCEPT ![u] = Next1(name[u])]
    BY DEF Upload, ReservesPrivate, PassesOver, ReservesShared, Undoes, LastByte, StreamEnds,
           Places, FinishFails, RecordCancelled, RecordTaken, RecordInserted, Renames, Unlinks,
           DropsPrivate, DropsShared
  <2>4. QED
    BY <1>3, <2>1, <2>2, <2>3, Next1Facts DEF UploadTypes
<1>7. private' \in [Names -> PrivateFile]
  <2>1. CASE Renames(u)
    <3>1. Entry(name[u]) \in Names /\ Entry(try[u]) \in Names
      BY <1>3, NameFacts
    <3>2. Private(name[u]) \in PrivateFile /\ Absent \in PrivateFile
      BY <3>1, FileTypes DEF Private, DiskTypes
    <3>3. QED
      BY <2>1, <3>1, <3>2 DEF Renames, DiskTypes
  <2>2. ASSUME ~Renames(u)
        PROVE  \/ private' = private
               \/ \E n \in {name[u], try[u]}, file \in {Absent, Part(u), Whole(u)} :
                    PrivateBecomes(n, file)
    BY <2>2 DEF Upload, Begins, ReservesPrivate, PassesOver, ReservesShared, Undoes, LastByte,
           StreamEnds, Places, FinishFails, RecordCancelled, RecordTaken, RecordInserted, Unlinks,
           DropsPrivate, DropsShared, fileVars
  <2>3. {name[u], try[u]} \subseteq Names /\ {Absent, Part(u), Whole(u)} \subseteq PrivateFile
    BY <1>3, FileTypes
  <2>4. ASSUME ~Renames(u) PROVE private' \in [Names -> PrivateFile]
    <3>1. CASE private' = private
      BY <3>1 DEF DiskTypes
    <3>2. ASSUME NEW n \in {name[u], try[u]}, NEW file \in {Absent, Part(u), Whole(u)},
                 PrivateBecomes(n, file)
          PROVE  private' \in [Names -> PrivateFile]
      <4>1. n \in Names /\ file \in PrivateFile
        BY <2>3
      <4>2. QED
        BY <3>2, <4>1, WritesPrivate
    <3>3. QED
      BY <2>2, <2>4, <3>1, <3>2
  <2>5. QED
    BY <2>1, <2>4
<1>8. shared' \in [Names -> SharedFile]
  <2>1. \/ shared' = shared
        \/ \E n \in {name[u], try[u]}, file \in {Absent, Other, u} : SharedBecomes(n, file)
    BY DEF Upload, Begins, ReservesPrivate, ReservesShared, Undoes, LastByte, StreamEnds, Places,
           FinishFails, RecordCancelled, RecordTaken, RecordInserted, Renames, Unlinks,
           DropsPrivate, DropsShared, fileVars
  <2>2. {name[u], try[u]} \subseteq Names /\ {Absent, Other, u} \subseteq SharedFile
    BY <1>3, FileTypes
  <2>3. CASE shared' = shared
    BY <2>3 DEF DiskTypes
  <2>4. ASSUME NEW n \in {name[u], try[u]}, NEW file \in {Absent, Other, u}, SharedBecomes(n, file)
        PROVE  shared' \in [Names -> SharedFile]
    <3>1. n \in Names /\ file \in SharedFile
      BY <2>2
    <3>2. QED
      BY <2>4, <3>1, WritesShared
  <2>5. QED
    BY <2>1, <2>3, <2>4
<1>9. QED
  BY <1>1, <1>2, <1>4, <1>5, <1>6, <1>7, <1>8 DEF DiskTypes, UploadTypes

(* The steps of everybody else.                                            *)
LEMMA WithdrawalKeepsTypes ==
  ASSUME Types, NEW u \in Uploads, Withdrawal(u) PROVE Types'
<1> USE DEF Types
<1>1. name[u] \in Names
  BY DEF UploadTypes
<1>2. CASE Cancel(u)
  <2>1. UNCHANGED <<agent, fileVars, at, name, try, whole, sendVars, runnerVars, aside, stranded>>
    BY <1>2 DEF Cancel
  <2>2. cancels' \subseteq Uploads
    BY <1>2 DEF Cancel, TableTypes
  <2>3. /\ row' \in [Uploads -> {"none", "pending", "sent"}]
        /\ withdrawal' \in [Uploads -> {"none", "private", "shared"}]
        /\ withdrawn' \subseteq Uploads
    BY <1>2 DEF Cancel, TableTypes, UploadTypes, AsideTypes
  <2>4. QED
    BY <2>1, <2>2, <2>3 DEF fileVars, sendVars, runnerVars, aside, DiskTypes, TableTypes,
       UploadTypes, SendTypes, RunnerTypes, AsideTypes
<1>3. CASE Withdraw(u)
  BY <1>3 DEF Withdraw, fileVars, sendVars, runnerVars, aside, DiskTypes, TableTypes,
       UploadTypes, SendTypes, RunnerTypes, AsideTypes
<1>4. CASE RemovesPrivate(u)
  <2>1. private' \in [Names -> PrivateFile]
    BY <1>1, <1>4, FileTypes, WritesPrivate DEF RemovesPrivate
  <2>2. QED
    BY <1>4, <2>1 DEF RemovesPrivate, tableVars, others, sendVars, runnerVars, aside, history,
       DiskTypes, TableTypes, UploadTypes, SendTypes, RunnerTypes, AsideTypes
<1>5. CASE RemovesShared(u)
  <2>1. shared' \in [Names -> SharedFile]
    BY <1>1, <1>5, FileTypes, WritesShared DEF RemovesShared
  <2>2. QED
    BY <1>5, <2>1 DEF RemovesShared, tableVars, others, sendVars, runnerVars, aside, history,
       DiskTypes, TableTypes, UploadTypes, SendTypes, RunnerTypes, AsideTypes
<1>6. QED
  BY <1>2, <1>3, <1>4, <1>5 DEF Withdrawal

LEMMA ReleaseType ==
  ASSUME TableTypes, NEW us, Release(us)
  PROVE  row' \in [Uploads -> {"none", "pending", "sent"}]
BY DEF TableTypes, Release

LEMMA MessageKeepsTypes ==
  ASSUME Types, NEW s \in Senders, Message(s) PROVE Types'
<1> USE DEF Types
<1>1. /\ UNCHANGED <<agent, cancels, private, uploadVars, aside, history, runner, undelivered>>
      /\ AsideTypes' /\ UploadTypes' /\ private' \in [Names -> PrivateFile]
  <2>1. UNCHANGED <<agent, cancels, private, uploadVars, aside, history, runner, undelivered>>
    BY DEF Message, Claims, Checks, Sends, Releases, SendDropped, tableVars, fileVars, runnerVars
  <2>2. QED
    BY <2>1 DEF uploadVars, aside, history, AsideTypes, UploadTypes, DiskTypes
<1>2. sat' \in [Senders -> {"idle", "checking", "sending", "releasing", "done", "dropped"}]
  BY DEF Message, Claims, Checks, Sends, Releases, SendDropped, SGoes, SendTypes
<1>3. parts' \in [Senders -> SUBSET Uploads]
  <2>1. CASE Claims(s)
    BY <2>1 DEF Claims, SendTypes, Recorded
  <2>2. CASE ~Claims(s)
    BY <2>2 DEF Message, Checks, Sends, Releases, SendDropped, sendVars, SendTypes
  <2>3. QED
    BY <2>1, <2>2
<1>4. row' \in [Uploads -> {"none", "pending", "sent"}]
  <2>1. CASE Claims(s)
    BY <2>1 DEF Claims, TableTypes
  <2>2. CASE Releases(s)
    BY <2>2, ReleaseType DEF Releases
  <2>3. CASE ~Claims(s) /\ ~Releases(s)
    BY <2>3 DEF Message, Checks, Sends, SendDropped, tableVars, TableTypes
  <2>4. QED
    BY <2>1, <2>2, <2>3
<1>5. shared' \in [Names -> SharedFile]
  <2>1. CASE Checks(s)
    <3>1. PICK us \in SUBSET parts[s] :
            shared' = [n \in Names |-> IF \E u \in us : Entry(name[u]) = n
                                    THEN CHOOSE u \in us : Entry(name[u]) = n ELSE shared[n]]
      BY <2>1 DEF Checks
    <3>2. us \subseteq SharedFile
      BY <3>1, FileTypes DEF SendTypes
    <3>3. ASSUME NEW n \in Names, \E u \in us : Entry(name[u]) = n
          PROVE  (CHOOSE u \in us : Entry(name[u]) = n) \in SharedFile
      BY <3>2, <3>3
    <3>4. QED
      BY <3>1, <3>3 DEF DiskTypes
  <2>2. CASE ~Checks(s)
    BY <2>2 DEF Message, Claims, Sends, Releases, SendDropped, fileVars, DiskTypes
  <2>3. QED
    BY <2>1, <2>2
<1>6. queue' \in Seq(Senders)
  BY DEF Message, Claims, Checks, Sends, Releases, SendDropped, runnerVars, RunnerTypes
<1>7. QED
  BY <1>1, <1>2, <1>3, <1>4, <1>5, <1>6 DEF DiskTypes, TableTypes, SendTypes, RunnerTypes

LEMMA RunnerKeepsTypes == ASSUME Types, Runner PROVE Types'
<1> USE DEF Types
<1>1. UNCHANGED <<agent, cancels, fileVars, uploadVars, sat, aside, history>>
  BY DEF Runner, RunnerStarts, RunnerTakes, RunnerExits, DropsUnsent, tableVars, sendVars
<1>2. DiskTypes' /\ UploadTypes' /\ AsideTypes'
  BY <1>1 DEF fileVars, uploadVars, aside, history, DiskTypes, UploadTypes, AsideTypes
<1>3. CASE RunnerStarts
  BY <1>2, <1>3 DEF RunnerStarts, tableVars, sendVars, TableTypes, SendTypes, RunnerTypes
<1>4. CASE RunnerTakes
  <2>1. queue' \in Seq(Senders)
    BY <1>4 DEF RunnerTakes, RunnerTypes
  <2>2. QED
    BY <1>2, <1>4, <2>1 DEF RunnerTakes, tableVars, sendVars, TableTypes, SendTypes, RunnerTypes
<1>5. CASE RunnerExits
  <2>1. queue' \in Seq(Senders) /\ undelivered' \subseteq Senders
    BY <1>5 DEF RunnerExits, RunnerTypes
  <2>2. QED
    BY <1>2, <1>5, <2>1 DEF RunnerExits, tableVars, sendVars, TableTypes, SendTypes, RunnerTypes
<1>6. CASE DropsUnsent
  <2>1. row' \in [Uploads -> {"none", "pending", "sent"}]
    BY <1>6, ReleaseType DEF DropsUnsent
  <2>2. parts' \in [Senders -> SUBSET Uploads]
    BY <1>6 DEF DropsUnsent, SendTypes
  <2>3. QED
    BY <1>1, <1>2, <1>6, <2>1, <2>2 DEF DropsUnsent, TableTypes, SendTypes, RunnerTypes
<1>7. QED
  BY <1>3, <1>4, <1>5, <1>6 DEF Runner

LEMMA RestKeepsTypes ==
  ASSUME Types, AgentTouches \/ Delete \/ Download \/ ServerDies PROVE Types'
<1> USE DEF Types
<1>1. CASE AgentTouches
  <2>1. PICK n \in Names, file \in {Absent, Other} : SharedBecomes(n, file)
    BY <1>1 DEF AgentTouches
  <2>2. shared' \in [Names -> SharedFile]
    BY <2>1, FileTypes, WritesShared
  <2>3. touches' \in 0..MaxTouches
    BY <1>1, UploadsAssumption DEF AgentTouches, AsideTypes
  <2>4. QED
    BY <1>1, <2>2, <2>3 DEF AgentTouches, tableVars, uploadVars, sendVars, runnerVars, history,
       DiskTypes, TableTypes, UploadTypes, SendTypes, RunnerTypes, AsideTypes
<1>2. CASE AgentDeleted
  BY <1>2 DEF AgentDeleted, fileVars, uploadVars, sendVars, runnerVars, history,
       DiskTypes, TableTypes, UploadTypes, SendTypes, RunnerTypes, AsideTypes
<1>3. CASE WipesPrivate
  BY <1>3, FileTypes DEF WipesPrivate, tableVars, uploadVars, sendVars, runnerVars, history,
       DiskTypes, TableTypes, UploadTypes, SendTypes, RunnerTypes, AsideTypes
<1>4. CASE WipesShared
  BY <1>4, FileTypes DEF WipesShared, tableVars, uploadVars, sendVars, runnerVars, history,
       DiskTypes, TableTypes, UploadTypes, SendTypes, RunnerTypes, AsideTypes
<1>5. CASE LooksUp
  <2>1. PICK u \in Uploads : reader' = <<u, "looked">>
    BY <1>5 DEF LooksUp, Recorded
  <2>2. reader' \in {Idle} \union (Uploads \X ({"looked"} \union Uploads))
    BY <2>1
  <2>3. QED
    BY <1>5, <2>2 DEF LooksUp, tableVars, fileVars, uploadVars, sendVars, runnerVars, history,
       DiskTypes, TableTypes, UploadTypes, SendTypes, RunnerTypes, AsideTypes
<1>6. CASE Serves
  <2>1. PICK u \in Uploads : reader' = <<u, Whole(u)[1]>> \/ reader' = Idle
    BY <1>6 DEF Serves, Matches
  <2>2. reader' \in {Idle} \union (Uploads \X ({"looked"} \union Uploads))
    BY <2>1 DEF Whole
  <2>3. QED
    BY <1>6, <2>2 DEF Serves, tableVars, fileVars, uploadVars, sendVars, runnerVars, history,
       DiskTypes, TableTypes, UploadTypes, SendTypes, RunnerTypes, AsideTypes
<1>7. CASE ServerDies
  <2>1. UNCHANGED <<tableVars, fileVars, name, try, whole, parts, reader, touches, withdrawn>>
    BY <1>7 DEF ServerDies
  <2>2. /\ at' \in [Uploads -> States]
        /\ withdrawal' \in [Uploads -> {"none", "private", "shared"}]
    BY <1>7 DEF ServerDies, UploadTypes, States
  <2>3. sat' \in [Senders -> {"idle", "checking", "sending", "releasing", "done", "dropped"}]
    BY <1>7 DEF ServerDies, SendTypes
  <2>4. /\ runner' = "down" /\ queue' \in Seq(Senders) /\ undelivered' = {}
        /\ wiping' \in {"no", "private", "shared", "done"} /\ stranded' \subseteq Uploads
    BY <1>7 DEF ServerDies, AsideTypes
  <2>5. QED
    BY <2>1, <2>2, <2>3, <2>4 DEF tableVars, fileVars, DiskTypes, TableTypes, UploadTypes,
       SendTypes, RunnerTypes, AsideTypes
<1>8. QED
  BY <1>1, <1>2, <1>3, <1>4, <1>5, <1>6, <1>7 DEF Delete, Download

LEMMA InitTypes == Init => Types
<1> SUFFICES ASSUME Init PROVE Types
  OBVIOUS
<1>1. PICK asked \in Askings : name = [u \in Uploads |-> <<asked[u], 1>>]
  BY DEF Init
<1>2. \A u \in Uploads : <<asked[u], 1>> \in Names
  BY <1>1, UploadsAssumption DEF Names
<1>3. name \in [Uploads -> Names] /\ try = name
  BY <1>1, <1>2 DEF Init
<1>4. QED
  BY <1>3, FileTypes, UploadsAssumption
     DEF Init, Types, DiskTypes, TableTypes, UploadTypes, SendTypes, RunnerTypes, AsideTypes,
         States, Idle

LEMMA StepKeepsTypes == ASSUME Types, [Next]_vars PROVE Types'
<1>1. CASE UNCHANGED vars
  BY <1>1 DEF vars, tableVars, fileVars, uploadVars, others, sendVars, runnerVars, aside, history,
     Types, DiskTypes, TableTypes, UploadTypes, SendTypes, RunnerTypes, AsideTypes
<1>2. CASE Next
  BY <1>2, UploadKeepsTypes, WithdrawalKeepsTypes, MessageKeepsTypes, RunnerKeepsTypes,
     RestKeepsTypes DEF Next
<1>3. QED
  BY <1>1, <1>2

(* Every variable keeps its type.                                          *)
THEOREM TypeCorrect == Spec => []TypeOK
<1>1. Spec => []Types
  BY InitTypes, StepKeepsTypes, PTL DEF Spec
<1>2. QED
  BY <1>1, TypesAre, PTL

--------------------------------------------------------------------------------
(* The invariant.  How far an upload is: only a finished one has a row or  *)
(* is withdrawn, and rows go with the agent.                               *)
StageInv ==
  /\ wiping # "no" => ~agent
  /\ \A u \in Uploads :
       /\ at[u] \in {"idle", "streaming"} => ~whole[u]
       /\ at[u] \in {"placing", "recording", "renaming", "unlinking", "drop_try",
                    "drop_try_shared"} => whole[u]
       /\ row[u] # "none" => agent /\ at[u] = "done" /\ whole[u]
       /\ withdrawal[u] # "none" => row[u] = "none" /\ at[u] = "done" /\ whole[u]

(* A withdrawn upload has no row, and will have none: its cancel waits for *)
(* it, or it is past recording, or the agent is gone.                      *)
CancelInv ==
  \A u \in withdrawn :
    /\ row[u] = "none"
    /\ ~agent \/ u \in cancels \/ at[u] \in {"cleaning", "cleaning_shared", "done"}

(* What is marked sent is in one send's hands.                             *)
SendInv ==
  /\ \A s \in Senders : sat[s] = "idle" => parts[s] = {}
  /\ \A s, t \in Senders, u \in Uploads : u \in parts[s] /\ u \in parts[t] => s = t
  /\ agent => \A u \in Uploads : (row[u] = "sent") <=> (\E s \in Senders : u \in parts[s])

(* The private files an upload answers for: under its name, and under the  *)
(* name it has reserved to move to.                                        *)
HasName(u) ==
  \/ at[u] \in {"streaming", "placing", "recording", "renaming", "cleaning"}
  \/ whole[u] /\ at[u] \in {"probing", "half", "undoing"}
  \/ row[u] # "none" \/ withdrawal[u] = "private"
HasTry(u) == at[u] \in {"half", "undoing", "renaming", "unlinking", "drop_try"}

(* While the agent is there, they are its own, so no two uploads answer    *)
(* for the same file.                                                      *)
Holds(u) ==
  /\ HasName(u) => private[Entry(name[u])] = <<u, whole[u]>>
  /\ HasTry(u) => private[Entry(try[u])] = IF at[u] = "unlinking" THEN Whole(u) ELSE Part(u)
  /\ at[u] \notin {"drop_try", "drop_try_shared"}
HoldInv == agent => \A u \in Uploads : Holds(u)

(* Somebody answers for every file, or it is to be wiped, or its server    *)
(* has died.  That is so without the agent too, when an upload may find    *)
(* its file wiped and another's in its place.                              *)
Answers(u, n) ==
  \/ HasName(u) /\ n = Entry(name[u])
  \/ HasTry(u) /\ n = Entry(try[u])
  \/ at[u] = "done" /\ u \in stranded /\ n \in {Entry(name[u]), Entry(try[u])}
  \/ at[u] = "done" /\ wiping = "private" /\ n = Entry(name[u])
FileInv == \A n \in Names : private[n] # Absent => \E u \in Uploads : Answers(u, n)

UploadInv ==
  /\ Types /\ StageInv /\ CancelInv /\ NamesAreDistinct /\ SendInv /\ HoldInv /\ FileInv

--------------------------------------------------------------------------------
(* What the steps leave alone.                                             *)

LEMMA UploadFrame ==
  ASSUME Types, StageInv, NEW u \in Uploads, Upload(u)
  PROVE  /\ UNCHANGED <<agent, withdrawal, others>>
         /\ at[u] # "done" /\ row[u] = "none" /\ withdrawal[u] = "none"
         /\ \A v \in Uploads \ {u} : /\ at'[v] = at[v] /\ name'[v] = name[v] /\ try'[v] = try[v]
                                    /\ whole'[v] = whole[v] /\ row'[v] = row[v]
<1>1. UNCHANGED <<agent, withdrawal, others>>
  BY DEF Upload, Begins, ReservesPrivate, ReservesShared, Undoes, LastByte, StreamEnds, Places,
         FinishFails, RecordCancelled, RecordTaken, RecordInserted, Renames, Unlinks,
         DropsPrivate, DropsShared, tableVars
<1>2. \E from \in States \ {"done"}, to \in States : Goes(u, from, to)
  BY DEF Upload, Begins, ReservesPrivate, PassesOver, GivenUp, ReservesShared, Undoes, LastByte,
         StreamEnds, Places, FinishFails, RecordCancelled, RecordTaken, RecordInserted, Renames,
         Unlinks, DropsPrivate, DropsShared, States, Busy, Recording, Cleaning
<1>3. at[u] # "done" /\ \A v \in Uploads \ {u} : at'[v] = at[v]
  BY <1>2 DEF Goes, Types, UploadTypes
<1>4. /\ whole' = whole \/ whole' = [whole EXCEPT ![u] = TRUE]
      /\ name' = name \/ name' = [name EXCEPT ![u] = try[u]]
      /\ row' = row \/ row' = [row EXCEPT ![u] = "pending"]
  BY DEF Upload, Begins, ReservesPrivate, ReservesShared, Undoes, LastByte, StreamEnds, Places,
         FinishFails, RecordCancelled, RecordTaken, RecordInserted, Renames, Unlinks,
         DropsPrivate, DropsShared, tableVars
<1>5. \/ try' = try \/ \E n : try' = [try EXCEPT ![u] = n]
  BY DEF Upload, Begins, ReservesPrivate, PassesOver, ReservesShared, Undoes, LastByte, StreamEnds,
         Places, FinishFails, RecordCancelled, RecordTaken, RecordInserted, Renames, Unlinks,
         DropsPrivate, DropsShared
<1>6. QED
  BY <1>1, <1>3, <1>4, <1>5 DEF Types, UploadTypes, TableTypes, StageInv

(* Sends, the runner, the agent and downloads neither make nor unmake a    *)
(* row, and leave the private files alone.                                 *)
LEMMA RestFrame ==
  ASSUME Types, (\E s \in Senders : Message(s)) \/ Runner \/ AgentTouches \/ Download
  PROVE  /\ UNCHANGED <<agent, cancels, private, at, name, try, whole, withdrawal, wiping,
                       withdrawn, stranded>>
         /\ \A u \in Uploads : (row'[u] = "none") <=> (row[u] = "none")
<1>1. CASE \E s \in Senders : Message(s)
  <2>1. PICK s \in Senders : Message(s)
    BY <1>1
  <2>2. UNCHANGED <<agent, cancels, private, uploadVars, aside, history>>
    BY <2>1 DEF Message, Claims, Checks, Sends, Releases, SendDropped, tableVars, fileVars
  <2>3. CASE Claims(s)
    BY <2>2, <2>3 DEF Claims, Recorded, uploadVars, aside, history, Types, TableTypes
  <2>4. CASE ~Claims(s)
    BY <2>1, <2>2, <2>4 DEF Message, Checks, Sends, Releases, SendDropped, Release, tableVars,
       uploadVars, aside, history, Types, TableTypes
  <2>5. QED
    BY <2>3, <2>4
<1>2. CASE Runner
  BY <1>2 DEF Runner, RunnerStarts, RunnerTakes, RunnerExits, DropsUnsent, Release, tableVars,
     fileVars, uploadVars, aside, history, Types, TableTypes
<1>3. CASE AgentTouches \/ Download
  BY <1>3 DEF AgentTouches, Download, LooksUp, Serves, tableVars, fileVars, uploadVars, history
<1>4. QED
  BY <1>1, <1>2, <1>3

LEMMA WithdrawalFrame ==
  ASSUME Types, StageInv, NEW u \in Uploads, Withdrawal(u)
  PROVE  /\ UNCHANGED <<agent, at, name, try, whole, sendVars, runnerVars, aside, stranded>>
         /\ \A v \in Uploads \ {u} : row'[v] = row[v] /\ withdrawal'[v] = withdrawal[v]
         /\ row'[u] = row[u] \/ (row[u] = "pending" /\ row'[u] = "none")
<1>1. CASE Cancel(u)
  <2>1. UNCHANGED <<agent, at, name, try, whole, sendVars, runnerVars, aside, stranded>>
    BY <1>1 DEF Cancel
  <2>2. /\ row' = IF row[u] = "pending" THEN [row EXCEPT ![u] = "none"] ELSE row
        /\ withdrawal' = IF row[u] = "pending" THEN [withdrawal EXCEPT ![u] = "private"]
                         ELSE withdrawal
    BY <1>1 DEF Cancel
  <2>3. /\ \A v \in Uploads \ {u} : row'[v] = row[v] /\ withdrawal'[v] = withdrawal[v]
        /\ row'[u] = row[u] \/ (row[u] = "pending" /\ row'[u] = "none")
    BY <2>2 DEF Types, TableTypes, UploadTypes
  <2>4. QED
    BY <2>1, <2>3
<1>2. CASE Withdraw(u)
  BY <1>2 DEF Withdraw, Types, TableTypes, UploadTypes
<1>3. CASE RemovesPrivate(u)
  <2>1. UNCHANGED <<agent, row, at, name, try, whole, sendVars, runnerVars, aside, stranded>>
    BY <1>3 DEF RemovesPrivate, tableVars, others, history
  <2>2. \A v \in Uploads \ {u} : withdrawal'[v] = withdrawal[v]
    BY <1>3 DEF RemovesPrivate, Types, UploadTypes
  <2>3. QED
    BY <2>1, <2>2
<1>4. CASE RemovesShared(u)
  <2>1. UNCHANGED <<agent, row, at, name, try, whole, sendVars, runnerVars, aside, stranded>>
    BY <1>4 DEF RemovesShared, tableVars, others, history
  <2>2. \A v \in Uploads \ {u} : withdrawal'[v] = withdrawal[v]
    BY <1>4 DEF RemovesShared, Types, UploadTypes
  <2>3. QED
    BY <2>1, <2>2
<1>5. QED
  BY <1>1, <1>2, <1>3, <1>4 DEF Withdrawal

--------------------------------------------------------------------------------
(* How far an upload is.                                                   *)

LEMMA StageKept == ASSUME Types, StageInv, Next PROVE StageInv'
<1>1. ASSUME NEW u \in Uploads, Upload(u) PROVE StageInv'
  <2>1. /\ UNCHANGED <<agent, withdrawal, wiping>>
        /\ at[u] # "done" /\ row[u] = "none" /\ withdrawal[u] = "none"
        /\ \A v \in Uploads \ {u} : at'[v] = at[v] /\ whole'[v] = whole[v] /\ row'[v] = row[v]
    BY <1>1, UploadFrame DEF others, aside
  <2>2. /\ at'[u] \in {"idle", "streaming"} => ~whole'[u]
        /\ at'[u] \in {"placing", "recording", "renaming", "unlinking", "drop_try",
                    "drop_try_shared"} => whole'[u]
        /\ row'[u] # "none" => agent /\ at'[u] = "done" /\ whole'[u]
    BY <1>1, <2>1
       DEF Upload, Begins, ReservesPrivate, PassesOver, GivenUp, ReservesShared, Undoes, LastByte,
         StreamEnds, Places, FinishFails, RecordCancelled, RecordTaken, RecordInserted, Renames,
         Unlinks, DropsPrivate, DropsShared, Goes, tableVars, StageInv, Types, UploadTypes, TableTypes
  <2>3. QED
    BY <2>1, <2>2 DEF StageInv
<1>2. ASSUME NEW u \in Uploads, Withdrawal(u) PROVE StageInv'
  <2>1. UNCHANGED <<agent, at, whole, wiping>>
    BY <1>2, WithdrawalFrame DEF aside
  <2>2. \A v \in Uploads \ {u} : row'[v] = row[v] /\ withdrawal'[v] = withdrawal[v]
    BY <1>2, WithdrawalFrame
  <2>3. /\ row'[u] = row[u] \/ row'[u] = "none"
        /\ withdrawal'[u] # "none" => row'[u] = "none" /\ at[u] = "done" /\ whole[u]
    BY <1>2 DEF Withdrawal, Cancel, Withdraw, RemovesPrivate, RemovesShared, tableVars, StageInv,
                Types, UploadTypes, TableTypes
  <2>4. QED
    BY <2>1, <2>2, <2>3 DEF StageInv
<1>3. ASSUME (\E s \in Senders : Message(s)) \/ Runner \/ AgentTouches \/ Download PROVE StageInv'
  BY <1>3, RestFrame DEF StageInv
<1>4. CASE Delete
  BY <1>4 DEF Delete, AgentDeleted, WipesPrivate, WipesShared, tableVars, uploadVars, StageInv
<1>5. CASE ServerDies
  BY <1>5 DEF ServerDies, tableVars, StageInv, Types, UploadTypes, States
<1>6. QED
  BY <1>1, <1>2, <1>3, <1>4, <1>5 DEF Next

(* Withdrawals.                                                            *)
LEMMA CancelKept == ASSUME Types, StageInv, CancelInv, Next PROVE CancelInv'
<1> withdrawn \subseteq Uploads
  BY DEF Types, AsideTypes
<1>1. ASSUME NEW u \in Uploads, Upload(u) PROVE CancelInv'
  <2>1. /\ UNCHANGED <<agent, withdrawn>> /\ at[u] # "done"
        /\ \A v \in Uploads \ {u} : at'[v] = at[v] /\ row'[v] = row[v]
    BY <1>1, UploadFrame DEF others, history
  <2>2. \A v \in cancels \ {u} : v \in cancels'
    BY <1>1 DEF Upload, Begins, ReservesPrivate, ReservesShared, Undoes, LastByte, StreamEnds, Places,
         FinishFails, RecordCancelled, RecordTaken, RecordInserted, Renames, Unlinks,
         DropsPrivate, DropsShared, tableVars
  <2>3. ASSUME u \in withdrawn
        PROVE  /\ row'[u] = "none"
               /\ ~agent \/ u \in cancels' \/ at'[u] \in {"cleaning", "cleaning_shared", "done"}
    <3>1. row[u] = "none"
      BY <2>3 DEF CancelInv
    <3>2. ~agent \/ u \in cancels \/ at[u] \in {"cleaning", "cleaning_shared"}
      BY <2>1, <2>3 DEF CancelInv
    <3>3. QED
      BY <1>1, <3>1, <3>2
       DEF Upload, Begins, ReservesPrivate, PassesOver, GivenUp, ReservesShared, Undoes, LastByte,
         StreamEnds, Places, FinishFails, RecordCancelled, RecordTaken, RecordInserted, Renames,
         Unlinks, DropsPrivate, DropsShared, Goes, tableVars, Types, UploadTypes, TableTypes
  <2>4. QED
    BY <2>1, <2>2, <2>3 DEF CancelInv
<1>2. ASSUME NEW u \in Uploads, Withdrawal(u) PROVE CancelInv'
  <2>1. UNCHANGED <<agent, at>>
    BY <1>2, WithdrawalFrame
  <2>2. CASE Cancel(u)
    <3>1. \A v \in cancels : v \in cancels' \/ at[v] = "done"
      BY <2>2 DEF Cancel
    <3>2. /\ withdrawn' = IF row[u] = "sent" THEN withdrawn ELSE withdrawn \union {u}
          /\ row' = IF row[u] = "pending" THEN [row EXCEPT ![u] = "none"] ELSE row
          /\ row[u] = "none" => u \in cancels'
      BY <2>2 DEF Cancel
    <3>3. row[u] = "pending" => at[u] = "done"
      BY DEF StageInv
    <3>4. row[u] \in {"none", "pending", "sent"}
      BY DEF Types, TableTypes
    <3>5. QED
      BY <2>1, <3>1, <3>2, <3>3, <3>4 DEF CancelInv, Types, TableTypes
  <2>3. CASE Withdraw(u)
    BY <2>1, <2>3 DEF Withdraw, CancelInv, StageInv, Types, TableTypes
  <2>4. CASE RemovesPrivate(u) \/ RemovesShared(u)
    BY <2>1, <2>4 DEF RemovesPrivate, RemovesShared, tableVars, others, history, CancelInv
  <2>5. QED
    BY <1>2, <2>2, <2>3, <2>4 DEF Withdrawal
<1>3. ASSUME (\E s \in Senders : Message(s)) \/ Runner \/ AgentTouches \/ Download PROVE CancelInv'
  BY <1>3, RestFrame DEF CancelInv
<1>4. CASE Delete
  BY <1>4 DEF Delete, AgentDeleted, WipesPrivate, WipesShared, tableVars, uploadVars, history, CancelInv
<1>5. CASE ServerDies
  BY <1>5 DEF ServerDies, tableVars, CancelInv, Types, UploadTypes
<1>6. QED
  BY <1>1, <1>2, <1>3, <1>4, <1>5 DEF Next

(* Names.                                                                  *)
LEMMA NamesKept == ASSUME Types, StageInv, NamesAreDistinct, Next PROVE NamesAreDistinct'
<1>1. ASSUME NEW u \in Uploads, Upload(u) PROVE NamesAreDistinct'
  <2>1. \A v \in Uploads \ {u} : name'[v] = name[v] /\ row'[v] = row[v]
    BY <1>1, UploadFrame
  <2>2. row[u] = "none"
    BY <1>1, UploadFrame
  <2>3. CASE RecordInserted(u)
    <3>1. name' = name /\ Recorded' \subseteq Recorded \union {u}
      BY <2>1, <2>3 DEF RecordInserted, Recorded
    <3>2. \A v \in Recorded : Fold(name[v]) # Fold(name[u])
      BY <2>3 DEF RecordInserted, Taken
    <3>3. QED
      BY <3>1, <3>2 DEF NamesAreDistinct
  <2>4. CASE ~RecordInserted(u)
    <3>1. row' = row
      BY <1>1, <2>4 DEF Upload, Begins, ReservesPrivate, ReservesShared, Undoes, LastByte, StreamEnds,
         Places, FinishFails, RecordCancelled, RecordTaken, Renames, Unlinks, DropsPrivate,
         DropsShared, tableVars
    <3>2. u \notin Recorded /\ Recorded' = Recorded
      BY <2>2, <3>1 DEF Recorded
    <3>3. QED
      BY <2>1, <3>2 DEF NamesAreDistinct, Recorded
  <2>5. QED
    BY <2>3, <2>4
<1>2. ASSUME NEW u \in Uploads, Withdrawal(u) PROVE NamesAreDistinct'
  BY <1>2, WithdrawalFrame DEF NamesAreDistinct, Recorded
<1>3. ASSUME (\E s \in Senders : Message(s)) \/ Runner \/ AgentTouches \/ Download
      PROVE  NamesAreDistinct'
  BY <1>3, RestFrame DEF NamesAreDistinct, Recorded
<1>4. CASE Delete \/ ServerDies
  BY <1>4 DEF Delete, AgentDeleted, WipesPrivate, WipesShared, ServerDies, tableVars, uploadVars,
              NamesAreDistinct, Recorded
<1>5. QED
  BY <1>1, <1>2, <1>3, <1>4 DEF Next

--------------------------------------------------------------------------------
(* Sends.                                                                  *)

(* A send's upload is let go: nobody else had it.                          *)
LEMMA LettingGo ==
  ASSUME Types, SendInv, UNCHANGED agent, NEW ss \in SUBSET Senders,
         NEW us, us = UNION {parts[s] : s \in ss}, Release(us),
         parts' = [s \in Senders |-> IF s \in ss THEN {} ELSE parts[s]],
         \A s \in Senders : sat'[s] = "idle" => parts'[s] = {}
  PROVE  SendInv'
<1>1. \A s, t \in Senders, u \in Uploads : u \in parts'[s] /\ u \in parts'[t] => s = t
  BY DEF SendInv
<1>2. ASSUME agent, NEW u \in Uploads
      PROVE  (row'[u] = "sent") <=> (\E s \in Senders : u \in parts'[s])
  <2>1. (row[u] = "sent") <=> (\E s \in Senders : u \in parts[s])
    BY <1>2 DEF SendInv
  <2>2. CASE u \in us
    <3>1. PICK s \in ss : u \in parts[s]
      BY <2>2
    <3>2. row'[u] = "pending"
      BY <2>1, <2>2, <3>1 DEF Release
    <3>3. \A t \in Senders : u \notin parts'[t]
      BY <3>1 DEF SendInv
    <3>4. QED
      BY <3>2, <3>3
  <2>3. CASE u \notin us
    <3>1. row'[u] = row[u]
      BY <2>3 DEF Release
    <3>2. \A s \in Senders : u \in parts'[s] <=> u \in parts[s]
      BY <2>3
    <3>3. QED
      BY <2>1, <3>1, <3>2
  <2>4. QED
    BY <2>2, <2>3
<1>3. QED
  BY <1>1, <1>2 DEF SendInv

LEMMA SendKept == ASSUME Types, StageInv, NamesAreDistinct, SendInv, Next PROVE SendInv'
<1>1. ASSUME NEW u \in Uploads, Upload(u) PROVE SendInv'
  <2>1. /\ UNCHANGED <<agent, sat, parts>> /\ row[u] = "none"
        /\ \A v \in Uploads \ {u} : row'[v] = row[v]
    BY <1>1, UploadFrame DEF others, sendVars
  <2>2. row'[u] \in {"none", "pending"}
    BY <1>1, <2>1 DEF Upload, Begins, ReservesPrivate, ReservesShared, Undoes, LastByte, StreamEnds,
         Places, FinishFails, RecordCancelled, RecordTaken, RecordInserted, Renames, Unlinks,
         DropsPrivate, DropsShared, tableVars, Types, TableTypes
  <2>3. QED
    BY <2>1, <2>2 DEF SendInv
<1>2. ASSUME NEW u \in Uploads, Withdrawal(u) PROVE SendInv'
  <2>1. /\ UNCHANGED <<agent, sat, parts>>
        /\ \A v \in Uploads : (row'[v] = "sent") <=> (row[v] = "sent")
    BY <1>2, WithdrawalFrame DEF sendVars
  <2>2. QED
    BY <2>1 DEF SendInv
<1>3. ASSUME NEW s \in Senders, Message(s) PROVE SendInv'
  <2>1. /\ agent' = agent
        /\ \A t \in Senders : sat'[t] = "idle" => sat[t] = "idle" /\ t # s
    <3>1. \E from, to : to # "idle" /\ SGoes(s, from, to)
      BY <1>3 DEF Message, Claims, Checks, Sends, Releases, SendDropped
    <3>2. agent' = agent
      BY <1>3 DEF Message, Claims, Checks, Sends, Releases, SendDropped, tableVars
    <3>3. QED
      BY <3>1, <3>2 DEF SGoes, Types, SendTypes
  <2>2. CASE Claims(s)
    <3>1. PICK names \in SUBSET {name[u] : u \in {v \in Uploads : at[v] = "done"}} \ {{}} :
            LET us == {u \in Recorded : name[u] \in names} IN
            IF /\ Cardinality(names) <= MaxAttachments
               /\ \A n \in names : \E u \in us : name[u] = n /\ row[u] = "pending"
            THEN /\ SGoes(s, "idle", "checking")
                 /\ row' = [u \in Uploads |-> IF u \in us THEN "sent" ELSE row[u]]
                 /\ parts' = [parts EXCEPT ![s] = us]
            ELSE SGoes(s, "idle", "done") /\ UNCHANGED <<row, parts>>
      BY <2>2 DEF Claims
    <3> DEFINE us == {u \in Recorded : name[u] \in names}
               Offered == /\ Cardinality(names) <= MaxAttachments
                          /\ \A n \in names : \E u \in us : name[u] = n /\ row[u] = "pending"
    <3>2. CASE ~Offered
      <4>1. UNCHANGED <<row, parts>>
        BY <3>1, <3>2
      <4>2. QED
        BY <2>1, <4>1 DEF SendInv
    <3>3. CASE Offered
      <4>1. /\ row' = [u \in Uploads |-> IF u \in us THEN "sent" ELSE row[u]]
            /\ parts' = [parts EXCEPT ![s] = us] /\ sat[s] = "idle"
        BY <3>1, <3>3 DEF SGoes
      <4>2. \A v \in us : row[v] = "pending"
        <5> SUFFICES ASSUME NEW v \in us PROVE row[v] = "pending"
          OBVIOUS
        <5>1. PICK u \in us : name[u] = name[v] /\ row[u] = "pending"
          BY <3>3
        <5>2. u = v
          BY <5>1 DEF NamesAreDistinct, Fold
        <5>3. QED
          BY <5>1, <5>2
      <4>3. us \subseteq Uploads /\ parts[s] = {} /\ (us # {} => agent)
        BY <4>1 DEF SendInv, Recorded, StageInv
      <4>4. \A v \in us, t \in Senders : v \notin parts[t]
        BY <4>2, <4>3 DEF SendInv
      <4> HIDE DEF us
      <4>5. /\ \A t \in Senders : parts'[t] = IF t = s THEN us ELSE parts[t]
            /\ \A u \in Uploads : row'[u] = IF u \in us THEN "sent" ELSE row[u]
        BY <4>1 DEF Types, SendTypes
      <4>6. \A u \in Uploads, t \in Senders :
              u \in parts'[t] <=> (u \in us /\ t = s) \/ u \in parts[t]
        BY <4>3, <4>4, <4>5
      <4>7. \A t, w \in Senders, u \in Uploads : u \in parts'[t] /\ u \in parts'[w] => t = w
        BY <4>4, <4>6 DEF SendInv
      <4>8. agent => \A u \in Uploads :
              (row'[u] = "sent") <=> (\E t \in Senders : u \in parts'[t])
        BY <4>5, <4>6 DEF SendInv
      <4>9. \A t \in Senders : sat'[t] = "idle" => parts'[t] = {}
        BY <2>1, <4>5 DEF SendInv
      <4>10. QED
        BY <2>1, <4>7, <4>8, <4>9 DEF SendInv
    <3>4. QED
      BY <3>2, <3>3
  <2>3. CASE Releases(s)
    <3>1. Release(parts[s]) /\ parts' = [parts EXCEPT ![s] = {}]
      BY <2>3 DEF Releases
    <3>2. parts' = [t \in Senders |-> IF t \in {s} THEN {} ELSE parts[t]]
      BY <3>1 DEF Types, SendTypes
    <3>3. parts[s] = UNION {parts[t] : t \in {s}}
      OBVIOUS
    <3>4. \A t \in Senders : sat'[t] = "idle" => parts'[t] = {}
      BY <2>1, <3>2 DEF SendInv
    <3>5. QED
      BY <2>1, <3>1, <3>2, <3>3, <3>4, LettingGo
  <2>4. CASE ~Claims(s) /\ ~Releases(s)
    <3>1. UNCHANGED <<row, parts>>
      BY <1>3, <2>4 DEF Message, Checks, Sends, SendDropped, tableVars
    <3>2. QED
      BY <2>1, <3>1 DEF SendInv
  <2>5. QED
    BY <2>2, <2>3, <2>4
<1>4. CASE Runner
  <2>1. CASE DropsUnsent
    <3>1. /\ UNCHANGED <<agent, sat>> /\ Release(UNION {parts[s] : s \in undelivered})
          /\ parts' = [s \in Senders |-> IF s \in undelivered THEN {} ELSE parts[s]]
          /\ undelivered \subseteq Senders
      BY <2>1 DEF DropsUnsent, Types, RunnerTypes
    <3>2. \A t \in Senders : sat'[t] = "idle" => parts'[t] = {}
      BY <3>1 DEF SendInv
    <3>3. QED
      BY <3>1, <3>2, LettingGo
  <2>2. CASE ~DropsUnsent
    BY <1>4, <2>2 DEF Runner, RunnerStarts, RunnerTakes, RunnerExits, tableVars, sendVars, SendInv
  <2>3. QED
    BY <2>1, <2>2
<1>5. CASE AgentTouches \/ Download
  BY <1>5 DEF AgentTouches, Download, LooksUp, Serves, tableVars, sendVars, SendInv
<1>6. CASE Delete
  BY <1>6 DEF Delete, AgentDeleted, WipesPrivate, WipesShared, tableVars, sendVars, SendInv
<1>7. CASE ServerDies
  <2>1. UNCHANGED <<agent, row, parts>> /\ \A s \in Senders : sat'[s] = "idle" => sat[s] = "idle"
    BY <1>7 DEF ServerDies, tableVars, Types, SendTypes
  <2>2. QED
    BY <2>1 DEF SendInv
<1>8. QED
  BY <1>1, <1>2, <1>3, <1>4, <1>5, <1>6, <1>7 DEF Next

--------------------------------------------------------------------------------
(* Private files.                                                          *)

LEMMA ContentFacts ==
  /\ \A u, v \in Uploads, b, c \in BOOLEAN : <<u, b>> = <<v, c>> => u = v /\ b = c
  /\ \A u \in Uploads, b \in BOOLEAN : <<u, b>> # Absent
  /\ \A u \in Uploads : Part(u) # Absent /\ Whole(u) # Absent /\ Part(u) # Whole(u)
BY DEF Absent, Part, Whole

(* While the agent is there, an upload writes, moves and removes only what *)
(* is its own.                                                             *)
LEMMA TouchesOwn ==
  ASSUME Types, StageInv, NEW u \in Uploads, Upload(u), Holds(u), NEW n \in Names
  PROVE  private'[n] = private[n] \/ private[n] \in {Absent, Part(u), Whole(u)}
<1>1. name[u] \in Names /\ try[u] \in Names /\ whole[u] \in BOOLEAN
  BY DEF Types, UploadTypes
<1>2. /\ HasName(u) => private[Entry(name[u])] \in {Part(u), Whole(u)}
      /\ HasTry(u) => private[Entry(try[u])] \in {Part(u), Whole(u)}
      /\ at[u] \notin {"drop_try", "drop_try_shared"}
  BY <1>1 DEF Holds, Part, Whole
<1>3. private \in [Names -> PrivateFile]
  BY DEF Types, DiskTypes
<1>4. CASE ReservesPrivate(u)
  BY <1>3, <1>4 DEF ReservesPrivate, PrivateBecomes, Private
<1>5. CASE Undoes(u)
  <2>1. at[u] = "undoing" /\ PrivateBecomes(try[u], Absent)
    BY <1>5 DEF Undoes, PassesOver, Goes
  <2>2. QED
    BY <1>2, <1>3, <2>1 DEF HasTry, PrivateBecomes
<1>6. CASE LastByte(u)
  BY <1>3, <1>6 DEF LastByte, PrivateBecomes, Private
<1>7. CASE Renames(u)
  <2>1. at[u] = "renaming"
    BY <1>7 DEF Renames, Goes
  <2>2. \/ private' = private
        \/ private' = [private EXCEPT ![Entry(try[u])] = Private(name[u]),
                                      ![Entry(name[u])] = Absent]
    BY <1>7 DEF Renames
  <2>3. QED
    BY <1>2, <1>3, <2>1, <2>2 DEF HasTry, HasName
<1>8. CASE DropsPrivate(u)
  <2>1. at[u] = "cleaning" /\ PrivateBecomes(name[u], Absent)
    BY <1>2, <1>8 DEF DropsPrivate, Goes
  <2>2. QED
    BY <1>2, <1>3, <2>1 DEF HasName, PrivateBecomes
<1>9. CASE ~(ReservesPrivate(u) \/ Undoes(u) \/ LastByte(u) \/ Renames(u) \/ DropsPrivate(u))
  BY <1>9 DEF Upload, Begins, ReservesShared, StreamEnds, Places, FinishFails, RecordCancelled,
              RecordTaken, RecordInserted, Unlinks, DropsShared, fileVars
<1>10. QED
  BY <1>4, <1>5, <1>6, <1>7, <1>8, <1>9

(* Nobody else's file is among them.                                       *)
LEMMA OthersHold ==
  ASSUME Types, NEW u \in Uploads, NEW v \in Uploads, v # u, Holds(v),
         at'[v] = at[v], name'[v] = name[v], try'[v] = try[v], whole'[v] = whole[v],
         (row'[v] = "none") <=> (row[v] = "none"), withdrawal'[v] = withdrawal[v],
         \A n \in Names : private'[n] = private[n] \/ private[n] \in {Absent, Part(u), Whole(u)}
  PROVE  Holds(v)'
<1>1. Entry(name[v]) \in Names /\ Entry(try[v]) \in Names /\ whole[v] \in BOOLEAN
  BY NameFacts DEF Types, UploadTypes
<1>2. ~(<<v, whole[v]>> \in {Absent, Part(u), Whole(u)})
  BY <1>1, ContentFacts DEF Part, Whole
<1>3. ~(Part(v) \in {Absent, Part(u), Whole(u)}) /\ ~(Whole(v) \in {Absent, Part(u), Whole(u)})
  BY ContentFacts DEF Part, Whole
<1>4. HasName(v)' <=> HasName(v)
  BY DEF HasName
<1>5. HasTry(v)' <=> HasTry(v)
  BY DEF HasTry
<1>6. HasName(v) => private'[Entry(name[v])] = <<v, whole[v]>>
  BY <1>1, <1>2 DEF Holds
<1>7. HasTry(v) => private'[Entry(try[v])] = IF at[v] = "unlinking" THEN Whole(v) ELSE Part(v)
  BY <1>1, <1>3 DEF Holds
<1>8. Entry(name'[v]) = Entry(name[v]) /\ Entry(try'[v]) = Entry(try[v])
  OBVIOUS
<1>9. HasName(v)' => private'[Entry(name'[v])] = <<v, whole'[v]>>
  BY <1>4, <1>6, <1>8
<1>10. HasTry(v)' => private'[Entry(try'[v])] = IF at'[v] = "unlinking" THEN Whole(v) ELSE Part(v)
  BY <1>5, <1>7, <1>8
<1>11. at'[v] \notin {"drop_try", "drop_try_shared"}
  BY DEF Holds
<1>12. QED
  BY <1>9, <1>10, <1>11 DEF Holds

(* And what an upload holds after its own step.                            *)
LEMMA OwnHold ==
  ASSUME Types, StageInv, NEW u \in Uploads, Upload(u), Holds(u)
  PROVE  Holds(u)'
<1> DEFINE a == at'[u]
           Mine(w, h, t) ==
             /\ (\/ a \in {"streaming", "placing", "recording", "renaming", "cleaning"}
                 \/ (w /\ a \in {"probing", "half", "undoing"}) \/ row'[u] # "none")
                  => h = <<u, w>>
             /\ a \in {"half", "undoing", "renaming", "unlinking", "drop_try"}
                  => t = IF a = "unlinking" THEN Whole(u) ELSE Part(u)
             /\ a \notin {"drop_try", "drop_try_shared"}
<1>1. /\ name[u] \in Names /\ try[u] \in Names /\ whole[u] \in BOOLEAN
      /\ Entry(name[u]) \in Names /\ Entry(try[u]) \in Names
  BY NameFacts DEF Types, UploadTypes
<1>2. /\ row[u] = "none" /\ withdrawal[u] = "none" /\ withdrawal' = withdrawal
      /\ private \in [Names -> PrivateFile] /\ at \in [Uploads -> States]
      /\ name \in [Uploads -> Names] /\ try \in [Uploads -> Names]
      /\ whole \in [Uploads -> BOOLEAN] /\ row \in [Uploads -> {"none", "pending", "sent"}]
  BY UploadFrame DEF Types, DiskTypes, UploadTypes, TableTypes
<1>3. at[u] \notin {"drop_try", "drop_try_shared"}
  BY DEF Holds
<1>4. SUFFICES Mine(whole'[u], private'[Entry(name'[u])], private'[Entry(try'[u])])
  <2>1. Holds(u)' <=> Mine(whole'[u], private'[Entry(name'[u])], private'[Entry(try'[u])])
    BY <1>2 DEF Holds, HasName, HasTry, Entry, Whole, Part
  <2>2. QED
    BY <2>1
<1>5. CASE Begins(u)
  <2>1. at[u] = "idle" /\ ~whole[u] /\ whole' = whole /\ row' = row
    BY <1>5 DEF Begins, Goes, StageInv, tableVars
  <2>2. a \in {"done", "probing"}
    BY <1>2, <1>5 DEF Begins, Goes
  <2>3. QED
    BY <1>2, <2>1, <2>2
<1>6. CASE ReservesPrivate(u)
  <2>1. at[u] = "probing" /\ row' = row /\ whole' = whole /\ name' = name
    BY <1>6 DEF ReservesPrivate, PassesOver, Goes, tableVars
  <2>2. CASE Private(try[u]) = Absent
    <3>1. a = "half" /\ PrivateBecomes(try[u], Part(u)) /\ try' = try
      BY <1>2, <1>6, <2>2 DEF ReservesPrivate, Goes
    <3>2. whole[u] => private[Entry(name[u])] = <<u, whole[u]>>
      BY <2>1 DEF Holds, HasName
    <3>3. whole[u] => Entry(name[u]) # Entry(try[u])
      BY <1>1, <2>2, <3>2, ContentFacts DEF Private
    <3>4. QED
      BY <1>1, <1>2, <2>1, <3>1, <3>2, <3>3 DEF PrivateBecomes
  <2>3. CASE Private(try[u]) # Absent
    <3>1. private' = private /\ a \in {"probing", GivenUp(u)}
      BY <1>2, <1>6, <2>3 DEF ReservesPrivate, PassesOver, Goes
    <3>2. whole[u] => private[Entry(name[u])] = <<u, whole[u]>>
      BY <2>1 DEF Holds, HasName
    <3>3. QED
      BY <1>1, <1>2, <2>1, <3>1, <3>2 DEF GivenUp
  <2>4. QED
    BY <2>2, <2>3
<1>7. CASE ReservesShared(u)
  <2>1. /\ at[u] = "half" /\ row' = row /\ whole' = whole /\ try' = try /\ private' = private
        /\ private[Entry(try[u])] = Part(u)
    BY <1>7 DEF ReservesShared, Goes, tableVars, Holds, HasTry
  <2>2. whole[u] => private[Entry(name[u])] = <<u, whole[u]>>
    BY <2>1 DEF Holds, HasName
  <2>3. \/ a = "renaming" /\ whole[u] /\ name' = name
        \/ a = "streaming" /\ ~whole[u] /\ name'[u] = try[u]
        \/ a = "undoing" /\ name' = name
    BY <1>2, <1>7 DEF ReservesShared, Goes
  <2>4. QED
    BY <1>1, <1>2, <2>1, <2>2, <2>3 DEF Part
<1>8. CASE Undoes(u)
  <2>1. /\ at[u] = "undoing" /\ row' = row /\ whole' = whole /\ name' = name
        /\ PrivateBecomes(try[u], Absent) /\ a \in {"probing", GivenUp(u)}
    BY <1>2, <1>8 DEF Undoes, PassesOver, Goes, tableVars
  <2>2. /\ private[Entry(try[u])] = Part(u)
        /\ whole[u] => private[Entry(name[u])] = <<u, whole[u]>>
    BY <2>1 DEF Holds, HasName, HasTry
  <2>3. whole[u] => Entry(name[u]) # Entry(try[u])
    BY <1>1, <2>2, ContentFacts DEF Whole, Part
  <2>4. whole[u] => private'[Entry(name[u])] = <<u, whole[u]>>
    BY <1>1, <1>2, <2>1, <2>2, <2>3 DEF PrivateBecomes
  <2>5. QED
    BY <1>1, <1>2, <2>1, <2>4 DEF GivenUp
<1>9. CASE LastByte(u)
  <2>1. /\ at[u] = "streaming" /\ a = "placing" /\ row' = row /\ whole'[u] = TRUE /\ name' = name
        /\ ~whole[u]
    BY <1>2, <1>9 DEF LastByte, Goes, tableVars, StageInv
  <2>2. private[Entry(name[u])] = Part(u)
    BY <1>1, <2>1 DEF Holds, HasName, Part
  <2>3. PrivateBecomes(name[u], Whole(u))
    BY <1>9, <2>2 DEF LastByte, Private
  <2>4. private'[Entry(name[u])] = <<u, TRUE>>
    BY <1>1, <1>2, <2>3 DEF PrivateBecomes, Whole
  <2>5. QED
    BY <1>1, <1>2, <2>1, <2>4
<1>10. CASE StreamEnds(u) \/ FinishFails(u) \/ RecordCancelled(u) \/ RecordTaken(u)
             \/ RecordInserted(u) \/ Places(u)
  <2>1. /\ at[u] \in {"streaming", "placing", "recording"}
        /\ whole' = whole /\ name' = name /\ private' = private
    BY <1>10 DEF StreamEnds, FinishFails, RecordCancelled, RecordTaken, RecordInserted, Places, Goes,
                 fileVars
  <2>2. private[Entry(name[u])] = <<u, whole[u]>>
    BY <2>1 DEF Holds, HasName
  <2>3. a \in {"cleaning", "recording", "probing", "done"}
    BY <1>2, <1>10 DEF StreamEnds, FinishFails, RecordCancelled, RecordTaken, RecordInserted, Places,
                       Goes
  <2>4. QED
    BY <1>1, <1>2, <2>1, <2>2, <2>3
<1>11. CASE Renames(u)
  <2>1. at[u] = "renaming" /\ row' = row /\ whole' = whole /\ name' = name /\ try' = try /\ whole[u]
    BY <1>11 DEF Renames, Goes, tableVars, StageInv
  <2>2. private[Entry(name[u])] = Whole(u) /\ private[Entry(try[u])] = Part(u)
    BY <1>1, <2>1 DEF Holds, HasName, HasTry, Whole
  <2>3. Private(name[u]) = Whole(u) /\ Whole(u) # Absent /\ Entry(name[u]) # Entry(try[u])
    BY <2>2, ContentFacts DEF Private
  <2>4. a = "unlinking" /\ private' = [private EXCEPT ![Entry(try[u])] = Private(name[u]),
                                                    ![Entry(name[u])] = Absent]
    BY <1>2, <1>11, <2>3 DEF Renames, Goes
  <2>5. private'[Entry(try[u])] = Whole(u)
    BY <1>1, <1>2, <2>3, <2>4
  <2>6. QED
    BY <1>1, <1>2, <2>1, <2>4, <2>5
<1>12. CASE Unlinks(u)
  <2>1. /\ at[u] = "unlinking" /\ row' = row /\ whole' = whole /\ name'[u] = try[u] /\ whole[u]
        /\ private' = private /\ a = "placing"
    BY <1>2, <1>12 DEF Unlinks, Goes, tableVars, StageInv
  <2>2. private[Entry(try[u])] = Whole(u)
    BY <2>1 DEF Holds, HasTry
  <2>3. QED
    BY <1>1, <1>2, <2>1, <2>2 DEF Whole
<1>13. CASE DropsPrivate(u) \/ DropsShared(u)
  <2>1. a \in {"cleaning_shared", "done"} /\ row' = row
    BY <1>2, <1>3, <1>13 DEF DropsPrivate, DropsShared, Goes, tableVars
  <2>2. QED
    BY <1>2, <2>1
<1>14. QED
  BY <1>5, <1>6, <1>7, <1>8, <1>9, <1>10, <1>11, <1>12, <1>13 DEF Upload

LEMMA HoldKept == ASSUME Types, StageInv, HoldInv, Next PROVE HoldInv'
<1>1. ASSUME NEW u \in Uploads, Upload(u) PROVE HoldInv'
  <2> SUFFICES ASSUME agent', NEW v \in Uploads PROVE Holds(v)'
    BY DEF HoldInv
  <2>1. agent
    BY <1>1, UploadFrame
  <2>2. Holds(u) /\ Holds(v)
    BY <2>1 DEF HoldInv
  <2>3. CASE v = u
    BY <1>1, <2>2, <2>3, OwnHold
  <2>4. CASE v # u
    <3>1. \A n \in Names : private'[n] = private[n] \/ private[n] \in {Absent, Part(u), Whole(u)}
      BY <1>1, <2>2, TouchesOwn
    <3>2. /\ at'[v] = at[v] /\ name'[v] = name[v] /\ try'[v] = try[v] /\ whole'[v] = whole[v]
          /\ row'[v] = row[v] /\ withdrawal' = withdrawal
      BY <1>1, <2>4, UploadFrame
    <3>3. QED
      BY <2>2, <2>4, <3>1, <3>2, OthersHold
  <2>5. QED
    BY <2>3, <2>4
<1>2. ASSUME NEW u \in Uploads, Withdrawal(u) PROVE HoldInv'
  <2> SUFFICES ASSUME agent', NEW v \in Uploads PROVE Holds(v)'
    BY DEF HoldInv
  <2>1. UNCHANGED <<agent, at, name, try, whole>>
    BY <1>2, WithdrawalFrame
  <2>2. Holds(u) /\ Holds(v)
    BY <2>1 DEF HoldInv
  <2>3. name[u] \in Names /\ Entry(name[u]) \in Names /\ private \in [Names -> PrivateFile]
    BY NameFacts DEF Types, UploadTypes, DiskTypes
  <2>4. CASE v = u
    <3>1. at[u] = "done" \/ UNCHANGED <<row, private, withdrawal>>
      BY <1>2 DEF Withdrawal, Cancel, Withdraw, RemovesPrivate, RemovesShared, fileVars, StageInv
    <3>2. CASE UNCHANGED <<row, private, withdrawal>>
      BY <2>1, <2>2, <2>4, <3>2 DEF Holds, HasName, HasTry
    <3>3. CASE at[u] = "done"
      <4>1. HasName(u)' => HasName(u) /\ private' = private
        BY <1>2, <2>1, <3>3 DEF Withdrawal, Cancel, Withdraw, RemovesPrivate, RemovesShared, fileVars,
           tableVars, HasName, StageInv, Types, TableTypes, UploadTypes
      <4>2. QED
        BY <2>1, <2>2, <2>4, <3>3, <4>1 DEF Holds, HasTry
    <3>4. QED
      BY <3>1, <3>2, <3>3
  <2>5. CASE v # u
    <3>1. \A n \in Names : private'[n] = private[n] \/ private[n] \in {Absent, Part(u), Whole(u)}
      <4>1. CASE RemovesPrivate(u)
        <5>1. private[Entry(name[u])] \in {Part(u), Whole(u)}
          BY <2>2, <4>1 DEF RemovesPrivate, Holds, HasName, Part, Whole, Types, UploadTypes
        <5>2. QED
          BY <2>3, <4>1, <5>1 DEF RemovesPrivate, PrivateBecomes
      <4>2. CASE ~RemovesPrivate(u)
        BY <1>2, <4>2 DEF Withdrawal, Cancel, Withdraw, RemovesShared, fileVars
      <4>3. QED
        BY <4>1, <4>2
    <3>2. row'[v] = row[v] /\ withdrawal'[v] = withdrawal[v]
      BY <1>2, <2>5, WithdrawalFrame
    <3>3. QED
      BY <2>1, <2>2, <2>5, <3>1, <3>2, OthersHold
  <2>6. QED
    BY <2>4, <2>5
<1>3. ASSUME (\E s \in Senders : Message(s)) \/ Runner \/ AgentTouches \/ Download PROVE HoldInv'
  <2>1. /\ UNCHANGED <<agent, private, at, name, try, whole, withdrawal>>
        /\ \A u \in Uploads : (row'[u] = "none") <=> (row[u] = "none")
    BY <1>3, RestFrame
  <2>2. ASSUME NEW u \in Uploads, Holds(u) PROVE Holds(u)'
    BY <2>1, <2>2 DEF Holds, HasName, HasTry
  <2>3. QED
    BY <2>1, <2>2 DEF HoldInv
<1>4. CASE Delete
  <2>1. ~agent'
    BY <1>4 DEF Delete, AgentDeleted, WipesPrivate, WipesShared, tableVars, StageInv
  <2>2. QED
    BY <2>1 DEF HoldInv
<1>5. CASE ServerDies
  <2>1. UNCHANGED <<agent, row, private, name, whole>>
    BY <1>5 DEF ServerDies, tableVars, fileVars
  <2>2. ASSUME NEW u \in Uploads, Holds(u) PROVE Holds(u)'
    <3>1. at'[u] \in {"idle", "done"} /\ withdrawal'[u] = "none"
      BY <1>5 DEF ServerDies
    <3>2. (at'[u] = "idle") => at[u] = "idle" /\ ~whole[u]
      BY <1>5 DEF ServerDies, StageInv
    <3>3. HasName(u)' => HasName(u)
      BY <2>1, <3>1, <3>2 DEF HasName
    <3>4. QED
      BY <2>1, <2>2, <3>1, <3>3 DEF Holds, HasTry
  <2>3. QED
    BY <2>1, <2>2 DEF HoldInv
<1>6. QED
  BY <1>1, <1>2, <1>3, <1>4, <1>5 DEF Next

(* A file an upload answered for, and that its step leaves, it still       *)
(* answers for; and for one it makes.                                      *)
LEMMA UploadAnswers ==
  ASSUME Types, StageInv, NEW u \in Uploads, Upload(u), NEW n \in Names, private'[n] # Absent
  PROVE  Answers(u, n)' \/ (private'[n] = private[n] /\ ~Answers(u, n))
<1> DEFINE Named(w, a) == \/ a \in {"streaming", "placing", "recording", "renaming", "cleaning"}
                         \/ (w /\ a \in {"probing", "half", "undoing"})
           Tried(a) == a \in {"half", "undoing", "renaming", "unlinking", "drop_try"}
           Before == \/ (Named(whole[u], at[u]) /\ n = Entry(name[u]))
                     \/ (Tried(at[u]) /\ n = Entry(try[u]))
           After == \/ ((Named(whole'[u], at'[u]) \/ row'[u] # "none") /\ n = Entry(name'[u]))
                    \/ (Tried(at'[u]) /\ n = Entry(try'[u]))
<1>1. /\ row[u] = "none" /\ withdrawal[u] = "none" /\ withdrawal' = withdrawal /\ at[u] # "done"
      /\ name[u] \in Names /\ try[u] \in Names /\ whole[u] \in BOOLEAN
      /\ Entry(name[u]) \in Names /\ Entry(try[u]) \in Names
      /\ private \in [Names -> PrivateFile] /\ at \in [Uploads -> States]
      /\ name \in [Uploads -> Names] /\ try \in [Uploads -> Names]
      /\ whole \in [Uploads -> BOOLEAN] /\ row \in [Uploads -> {"none", "pending", "sent"}]
  BY UploadFrame, NameFacts DEF Types, UploadTypes, DiskTypes, TableTypes
<1>2. Answers(u, n) => Before
  BY <1>1 DEF Answers, HasName, HasTry
<1>3. After => Answers(u, n)'
  BY <1>1 DEF Answers, HasName, HasTry
<1>4. SUFFICES After \/ (private'[n] = private[n] /\ ~Before)
  BY <1>2, <1>3
<1>5. CASE Begins(u)
  <2>1. at[u] = "idle" /\ private' = private
    BY <1>5 DEF Begins, Goes, fileVars
  <2>2. QED
    BY <2>1
<1>6. CASE ReservesPrivate(u)
  <2>1. at[u] = "probing" /\ whole' = whole /\ name' = name
    BY <1>6 DEF ReservesPrivate, PassesOver, Goes
  <2>2. CASE Private(try[u]) = Absent
    <3>1. at'[u] = "half" /\ try' = try /\ private' = [private EXCEPT ![Entry(try[u])] = Part(u)]
      BY <1>1, <1>6, <2>2 DEF ReservesPrivate, Goes, PrivateBecomes
    <3>2. QED
      BY <1>1, <2>1, <3>1
  <2>3. CASE Private(try[u]) # Absent
    <3>1. private' = private /\ at'[u] \in {"probing", GivenUp(u)}
      BY <1>1, <1>6, <2>3 DEF ReservesPrivate, PassesOver, Goes
    <3>2. QED
      BY <1>1, <2>1, <3>1 DEF GivenUp
  <2>4. QED
    BY <2>2, <2>3
<1>7. CASE ReservesShared(u)
  <2>1. at[u] = "half" /\ whole' = whole /\ try' = try /\ private' = private
    BY <1>7 DEF ReservesShared, Goes
  <2>2. \/ at'[u] = "renaming" /\ whole[u] /\ name' = name
        \/ at'[u] = "streaming" /\ ~whole[u] /\ name'[u] = try[u]
        \/ at'[u] = "undoing" /\ name' = name
    BY <1>1, <1>7 DEF ReservesShared, Goes
  <2>3. QED
    BY <1>1, <2>1, <2>2
<1>8. CASE Undoes(u)
  <2>1. /\ at[u] = "undoing" /\ whole' = whole /\ name' = name
        /\ private' = [private EXCEPT ![Entry(try[u])] = Absent] /\ at'[u] \in {"probing", GivenUp(u)}
    BY <1>1, <1>8 DEF Undoes, PassesOver, Goes, PrivateBecomes
  <2>2. QED
    BY <1>1, <2>1 DEF GivenUp
<1>9. CASE LastByte(u)
  <2>1. at[u] = "streaming" /\ at'[u] = "placing" /\ name' = name
    BY <1>1, <1>9 DEF LastByte, Goes
  <2>2. private' = private \/ private' = [private EXCEPT ![Entry(name[u])] = Whole(u)]
    BY <1>9 DEF LastByte, PrivateBecomes
  <2>3. QED
    BY <1>1, <2>1, <2>2
<1>10. CASE StreamEnds(u) \/ FinishFails(u) \/ RecordCancelled(u) \/ RecordTaken(u)
             \/ RecordInserted(u) \/ Places(u)
  <2>1. /\ at[u] \in {"streaming", "placing", "recording"}
        /\ whole' = whole /\ name' = name /\ private' = private
    BY <1>10 DEF StreamEnds, FinishFails, RecordCancelled, RecordTaken, RecordInserted, Places, Goes,
                 fileVars
  <2>2. \/ at'[u] \in {"cleaning", "recording"}
        \/ at'[u] = "probing" /\ whole[u]
        \/ at'[u] = "done" /\ row'[u] = "pending"
    BY <1>1, <1>10 DEF StreamEnds, FinishFails, RecordCancelled, RecordTaken, RecordInserted, Places,
                       Goes, StageInv
  <2>3. QED
    BY <1>1, <2>1, <2>2
<1>11. CASE Renames(u)
  <2>1. at[u] = "renaming" /\ name' = name /\ try' = try
    BY <1>11 DEF Renames, Goes
  <2>2. CASE Private(name[u]) = Absent
    <3>1. private' = private /\ at'[u] = "drop_try" /\ private[Entry(name[u])] = Absent
      BY <1>1, <1>11, <2>2 DEF Renames, Goes, Private
    <3>2. QED
      BY <1>1, <2>1, <3>1
  <2>3. CASE Private(name[u]) # Absent
    <3>1. at'[u] = "unlinking" /\ private' = [private EXCEPT ![Entry(try[u])] = Private(name[u]),
                                                           ![Entry(name[u])] = Absent]
      BY <1>1, <1>11, <2>3 DEF Renames, Goes
    <3>2. QED
      BY <1>1, <2>1, <3>1
  <2>4. QED
    BY <2>2, <2>3
<1>12. CASE Unlinks(u)
  <2>1. /\ at[u] = "unlinking" /\ name'[u] = try[u] /\ private' = private /\ at'[u] = "placing"
    BY <1>1, <1>12 DEF Unlinks, Goes
  <2>2. QED
    BY <1>1, <2>1
<1>13. CASE DropsPrivate(u)
  <2>1. name' = name /\ try' = try /\ whole' = whole
    BY <1>13 DEF DropsPrivate
  <2>2. \/ /\ at[u] = "drop_try" /\ private' = [private EXCEPT ![Entry(try[u])] = Absent]
        \/ /\ at[u] = "cleaning" /\ private' = [private EXCEPT ![Entry(name[u])] = Absent]
    BY <1>13 DEF DropsPrivate, Goes, PrivateBecomes
  <2>3. QED
    BY <1>1, <2>1, <2>2
<1>14. CASE DropsShared(u)
  <2>1. at[u] \in {"drop_try_shared", "cleaning_shared"} /\ private' = private
    BY <1>14 DEF DropsShared, Goes
  <2>2. QED
    BY <1>1, <2>1
<1>15. QED
  BY <1>5, <1>6, <1>7, <1>8, <1>9, <1>10, <1>11, <1>12, <1>13, <1>14 DEF Upload

LEMMA FileKept == ASSUME Types, StageInv, FileInv, Next PROVE FileInv'
<1>1. ASSUME NEW u \in Uploads, Upload(u) PROVE FileInv'
  <2> SUFFICES ASSUME NEW n \in Names, private'[n] # Absent PROVE \E w \in Uploads : Answers(w, n)'
    BY DEF FileInv
  <2>1. CASE Answers(u, n)'
    BY <2>1
  <2>2. CASE private'[n] = private[n] /\ ~Answers(u, n)
    <3>1. PICK w \in Uploads : Answers(w, n)
      BY <2>2 DEF FileInv
    <3>2. w # u
      BY <2>2, <3>1
    <3>3. /\ at'[w] = at[w] /\ name'[w] = name[w] /\ try'[w] = try[w] /\ whole'[w] = whole[w]
          /\ row'[w] = row[w] /\ UNCHANGED <<withdrawal, stranded, wiping>>
      BY <1>1, <3>2, UploadFrame DEF others, history, aside
    <3>4. Answers(w, n)'
      BY <3>1, <3>3 DEF Answers, HasName, HasTry
    <3>5. QED
      BY <3>4
  <2>3. QED
    BY <1>1, <2>1, <2>2, UploadAnswers
<1>2. ASSUME NEW u \in Uploads, Withdrawal(u) PROVE FileInv'
  <2> SUFFICES ASSUME NEW n \in Names, private'[n] # Absent PROVE \E w \in Uploads : Answers(w, n)'
    BY DEF FileInv
  <2>1. /\ UNCHANGED <<at, name, try, whole, stranded, wiping>>
        /\ \A v \in Uploads \ {u} : row'[v] = row[v] /\ withdrawal'[v] = withdrawal[v]
    BY <1>2, WithdrawalFrame DEF aside
  <2>2. \/ private' = private
        \/ RemovesPrivate(u) /\ private' = [private EXCEPT ![Entry(name[u])] = Absent]
    BY <1>2 DEF Withdrawal, Cancel, Withdraw, RemovesPrivate, RemovesShared, fileVars, PrivateBecomes
  <2>3. private[n] # Absent /\ (RemovesPrivate(u) => private'[n] = private[n] /\ n # Entry(name[u]))
    BY <2>2 DEF Types, DiskTypes, RemovesPrivate, PrivateBecomes
  <2>4. PICK w \in Uploads : Answers(w, n)
    BY <2>3 DEF FileInv
  <2>5. CASE w # u
    BY <2>1, <2>4, <2>5 DEF Answers, HasName, HasTry
  <2>6. CASE w = u
    <3>1. CASE RemovesPrivate(u)
      <4>1. row' = row /\ withdrawal[u] = "private"
        BY <3>1 DEF RemovesPrivate, tableVars
      <4>2. at[u] = "done" /\ row[u] = "none"
        BY <4>1 DEF StageInv
      <4>3. Answers(u, n)'
        BY <2>1, <2>3, <2>4, <2>6, <3>1, <4>1, <4>2 DEF Answers, HasName, HasTry
      <4>4. QED
        BY <4>3
    <3>2. CASE ~RemovesPrivate(u)
      <4>1. \/ row' = row /\ (withdrawal'[u] = withdrawal[u] \/ withdrawal[u] = "shared")
            \/ withdrawal'[u] = "private"
        BY <1>2, <3>2 DEF Withdrawal, Cancel, Withdraw, RemovesShared, tableVars, Types, UploadTypes,
           TableTypes
      <4>2. HasName(u) => HasName(u)'
        BY <2>1, <4>1 DEF HasName
      <4>3. Answers(u, n)'
        BY <2>1, <2>4, <2>6, <4>2 DEF Answers, HasTry
      <4>4. QED
        BY <4>3
    <3>3. QED
      BY <3>1, <3>2
  <2>7. QED
    BY <2>5, <2>6
<1>3. ASSUME (\E s \in Senders : Message(s)) \/ Runner \/ AgentTouches \/ Download PROVE FileInv'
  <2>1. /\ UNCHANGED <<private, at, name, try, whole, withdrawal, wiping, stranded>>
        /\ \A u \in Uploads : (row'[u] = "none") <=> (row[u] = "none")
    BY <1>3, RestFrame
  <2>2. ASSUME NEW u \in Uploads, NEW n \in Names, Answers(u, n) PROVE Answers(u, n)'
    BY <2>1, <2>2 DEF Answers, HasName, HasTry
  <2>3. QED
    BY <2>1, <2>2 DEF FileInv
<1>4. CASE AgentDeleted
  <2>1. /\ UNCHANGED <<private, at, name, try, whole, withdrawal, stranded>> /\ wiping' = "private"
    BY <1>4 DEF AgentDeleted, fileVars, uploadVars, history
  <2>2. ASSUME NEW u \in Uploads, NEW n \in Names, Answers(u, n) PROVE Answers(u, n)'
    <3>1. row[u] # "none" => at[u] = "done"
      BY DEF StageInv
    <3>2. QED
      BY <2>1, <2>2, <3>1 DEF Answers, HasName, HasTry
  <2>3. QED
    BY <2>1, <2>2 DEF FileInv
<1>5. CASE WipesPrivate
  BY <1>5 DEF WipesPrivate, FileInv
<1>6. CASE WipesShared
  <2>1. /\ UNCHANGED <<private, row, at, name, try, whole, withdrawal, stranded>> /\ wiping = "shared"
    BY <1>6 DEF WipesShared, tableVars, uploadVars, history
  <2>2. ASSUME NEW u \in Uploads, NEW n \in Names, Answers(u, n) PROVE Answers(u, n)'
    BY <2>1, <2>2 DEF Answers, HasName, HasTry
  <2>3. QED
    BY <2>1, <2>2 DEF FileInv
<1>7. CASE ServerDies
  <2>1. /\ UNCHANGED <<private, row, name, try, whole>>
        /\ \A u \in Uploads : at'[u] = IF at[u] = "idle" THEN "idle" ELSE "done"
        /\ stranded' = stranded \union {u \in Uploads :
              at[u] \in Busy \/ withdrawal[u] # "none" \/ wiping \in {"private", "shared"}}
    BY <1>7 DEF ServerDies, tableVars, fileVars
  <2>2. ASSUME NEW u \in Uploads, NEW n \in Names, Answers(u, n) PROVE Answers(u, n)'
    <3>1. CASE row[u] # "none" /\ n = Entry(name[u])
      BY <2>1, <3>1 DEF Answers, HasName
    <3>2. CASE ~(row[u] # "none" /\ n = Entry(name[u]))
      <4>1. n \in {Entry(name[u]), Entry(try[u])} /\ at[u] # "idle"
        BY <2>2, <3>2 DEF Answers, HasName, HasTry, StageInv
      <4>2. u \in stranded'
        BY <2>1, <2>2, <3>2 DEF Answers, HasName, HasTry, Busy, Recording, Cleaning
      <4>3. at'[u] = "done"
        BY <2>1, <4>1
      <4>4. QED
        BY <2>1, <4>1, <4>2, <4>3 DEF Answers
    <3>3. QED
      BY <3>1, <3>2
  <2>3. QED
    BY <2>1, <2>2 DEF FileInv
<1>8. QED
  BY <1>1, <1>2, <1>3, <1>4, <1>5, <1>6, <1>7 DEF Next, Delete

--------------------------------------------------------------------------------
(* The theorems.                                                           *)

LEMMA InitInv == Init => UploadInv
<1> SUFFICES ASSUME Init PROVE UploadInv
  OBVIOUS
<1>1. Types
  BY InitTypes
<1>2. /\ agent = TRUE /\ row = [u \in Uploads |-> "none"] /\ wiping = "no" /\ withdrawn = {}
      /\ private = [n \in Names |-> Absent]
      /\ at = [u \in Uploads |-> "idle"] /\ whole = [u \in Uploads |-> FALSE]
      /\ withdrawal = [u \in Uploads |-> "none"]
      /\ sat = [s \in Senders |-> "idle"] /\ parts = [s \in Senders |-> {}]
  BY DEF Init
<1>3. StageInv /\ CancelInv /\ FileInv /\ SendInv
  BY <1>2 DEF StageInv, CancelInv, FileInv, SendInv
<1>4. NamesAreDistinct
  BY <1>2 DEF NamesAreDistinct, Recorded
<1>5. HoldInv
  BY <1>2 DEF HoldInv, Holds, HasName, HasTry
<1>6. QED
  BY <1>1, <1>3, <1>4, <1>5 DEF UploadInv

LEMMA StepInv == ASSUME UploadInv, [Next]_vars PROVE UploadInv'
<1>1. Types'
  BY StepKeepsTypes DEF UploadInv
<1>2. CASE Next
  BY <1>1, <1>2, StageKept, CancelKept, NamesKept, SendKept, HoldKept, FileKept DEF UploadInv
<1>3. CASE UNCHANGED vars
  <2>1. UNCHANGED <<agent, row, cancels, private, at, name, try, whole, withdrawal, sat, parts, wiping,
                    withdrawn, stranded>>
    BY <1>3 DEF vars, tableVars, fileVars, uploadVars, others, sendVars, aside, history
  <2>2. StageInv' /\ CancelInv' /\ NamesAreDistinct' /\ SendInv'
    BY <2>1 DEF UploadInv, StageInv, CancelInv, NamesAreDistinct, Recorded, SendInv
  <2>3. HoldInv' /\ FileInv'
    BY <2>1 DEF UploadInv, HoldInv, FileInv, Holds, Answers, HasName, HasTry
  <2>4. QED
    BY <1>1, <2>2, <2>3 DEF UploadInv
<1>4. QED
  BY <1>2, <1>3

(* The inductive invariant holds.                                          *)
THEOREM UploadInvHolds == Spec => []UploadInv
BY InitInv, StepInv, PTL DEF Spec

(* A recorded upload's private copy is there and whole, and a private copy *)
(* without a row is somebody's who is at work on that very name, or was    *)
(* left by a server that died: finish_upload, PartialUpload::drop and      *)
(* remove_copies never take another upload's file, whatever names the two  *)
(* tried.                                                                  *)
THEOREM RowsAndFilesAgreeHolds == Spec => []RowsAndFilesAgree
<1>1. ASSUME UploadInv PROVE RowsAndFilesAgree
  <2>1. ASSUME NEW u \in Recorded PROVE Private(name[u]) = Whole(u)
    <3>1. u \in Uploads /\ row[u] # "none"
      BY <2>1 DEF Recorded
    <3>2. agent /\ whole[u] = TRUE
      BY <1>1, <3>1 DEF UploadInv, StageInv, Types, UploadTypes
    <3>3. Holds(u) /\ HasName(u)
      BY <1>1, <3>1, <3>2 DEF UploadInv, HoldInv, HasName
    <3>4. QED
      BY <3>2, <3>3 DEF Holds, Private, Whole
  <2>2. FileHasItsRow
    <3> SUFFICES ASSUME NEW n \in Names, private[n] # Absent, wiping # "private"
                 PROVE  \E u \in Uploads :
                          \/ u \in Recorded /\ n = Entry(name[u])
                          \/ AtWorkOn(u, n)
                          \/ u \in stranded /\ n \in {Entry(name[u]), Entry(try[u])}
      BY DEF FileHasItsRow
    <3>1. PICK u \in Uploads : Answers(u, n)
      BY <1>1 DEF UploadInv, FileInv
    <3>2. HasName(u) /\ n = Entry(name[u]) => (u \in Recorded /\ n = Entry(name[u])) \/ AtWorkOn(u, n)
      BY DEF HasName, AtWorkOn, Recorded, Busy, Recording, Cleaning
    <3>3. HasTry(u) /\ n = Entry(try[u]) => AtWorkOn(u, n)
      BY DEF HasTry, AtWorkOn, Busy, Recording, Cleaning
    <3>4. QED
      BY <3>1, <3>2, <3>3 DEF Answers
  <2>3. QED
    BY <2>1, <2>2 DEF RowsAndFilesAgree, RowHasItsFile
<1>2. QED
  BY <1>1, UploadInvHolds, PTL

(* record_upload never lets two rows have names a filesystem could take    *)
(* for one.                                                                *)
THEOREM NamesAreDistinctHolds == Spec => []NamesAreDistinct
BY UploadInvHolds, PTL DEF UploadInv

(* claim_uploads and release_uploads: a sent upload is in exactly one      *)
(* send's hands, a pending one in none's.                                  *)
THEOREM SentInOneMessageHolds == Spec => []SentInOneMessage
<1>1. ASSUME UploadInv PROVE SentInOneMessage
  <2> SUFFICES ASSUME NEW u \in Recorded
               PROVE  Cardinality({s \in Senders : u \in parts[s]}) =
                        IF row[u] = "sent" THEN 1 ELSE 0
    BY DEF SentInOneMessage
  <2>1. u \in Uploads /\ agent
    BY <1>1 DEF Recorded, UploadInv, StageInv
  <2>2. /\ (row[u] = "sent") <=> (\E s \in Senders : u \in parts[s])
        /\ \A s, t \in Senders : u \in parts[s] /\ u \in parts[t] => s = t
    BY <1>1, <2>1 DEF UploadInv, SendInv
  <2>3. CASE row[u] = "sent"
    <3>1. PICK s \in Senders : u \in parts[s]
      BY <2>2, <2>3
    <3>2. {t \in Senders : u \in parts[t]} = {s}
      BY <2>2, <3>1
    <3>3. QED
      BY <2>3, <3>2, FS_Singleton
  <2>4. CASE row[u] # "sent"
    <3>1. {t \in Senders : u \in parts[t]} = {}
      BY <2>2, <2>4
    <3>2. QED
      BY <2>4, <3>1, FS_EmptySet
  <2>5. QED
    BY <2>3, <2>4
<1>2. QED
  BY <1>1, UploadInvHolds, PTL

(* A withdrawn upload is never there again, however cancel_by_client_id    *)
(* and record_upload race each other.                                      *)
THEOREM CancelHoldsAlways == Spec => []CancelHolds
<1>1. UploadInv => CancelHolds
  BY DEF UploadInv, CancelInv, CancelHolds
<1>2. QED
  BY <1>1, UploadInvHolds, PTL

(* download_upload sends the bytes of the upload it looked up, or none.    *)
THEOREM DownloadIsTheUploadHolds == Spec => []DownloadIsTheUpload
<1>1. Init => DownloadIsTheUpload
  BY DEF Init, Idle, DownloadIsTheUpload
<1>2. ASSUME DownloadIsTheUpload, [Next]_vars PROVE DownloadIsTheUpload'
  <2>1. CASE LooksUp
    <3>1. PICK u : reader' = <<u, "looked">>
      BY <2>1 DEF LooksUp
    <3>2. QED
      BY <3>1, UploadsAssumption DEF DownloadIsTheUpload
  <2>2. CASE Serves
    <3>1. PICK u \in Uploads : reader' = IF Matches(u, Private(name[u]))
                                        THEN <<u, Private(name[u])[1]>> ELSE Idle
      BY <2>2 DEF Serves
    <3>2. reader' = <<u, u>> \/ reader' = Idle
      <4>1. <<u, TRUE>>[1] = u
        OBVIOUS
      <4>2. Matches(u, Private(name[u])) => Private(name[u])[1] = u
        BY <4>1 DEF Matches, Whole
      <4>3. QED
        BY <3>1, <4>2
    <3>3. QED
      BY <3>2 DEF DownloadIsTheUpload, Idle
  <2>3. CASE ~LooksUp /\ ~Serves
    <3>1. reader' = reader
      BY <1>2, <2>3 DEF Next, Upload, Withdrawal, Message, Runner, Delete, Download, vars, others,
         aside, Begins, ReservesPrivate, ReservesShared, Undoes, LastByte, StreamEnds, Places,
         FinishFails, RecordCancelled, RecordTaken, RecordInserted, Renames, Unlinks,
         DropsPrivate, DropsShared, Cancel, Withdraw, RemovesPrivate, RemovesShared, Claims, Checks,
         Sends, Releases, SendDropped, RunnerStarts, RunnerTakes, RunnerExits, DropsUnsent,
         AgentTouches, AgentDeleted, WipesPrivate, WipesShared, ServerDies
    <3>2. QED
      BY <1>2, <3>1 DEF DownloadIsTheUpload
  <2>4. QED
    BY <2>1, <2>2, <2>3
<1>3. QED
  BY <1>1, <1>2, PTL DEF Spec
================================================================================
