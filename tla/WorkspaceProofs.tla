---------------------------- MODULE WorkspaceProofs ----------------------------
(***************************************************************************)
(* Proofs about Workspace, for any numbers of spawns, deletes and clones,  *)
(* any folders, requests and bounds: an unforced delete loses no work,     *)
(* none removes what is another's, rows and worktrees agree, a clone is    *)
(* not removed by another's clean-up.                                      *)
(***************************************************************************)
EXTENDS Workspace, Sequences, TLAPS

(* Names: a branch made for a slug is that slug's alone, and not Main.     *)
LEMMA BranchFacts ==
  /\ Main \in Branches /\ Main # NoBranch
  /\ \A s \in Slugs : BranchName(s) \in Branches /\ BranchName(s) # Main /\ BranchName(s) # NoBranch
  /\ \A s, t \in Slugs : BranchName(s) = BranchName(t) => s = t
  /\ \A b \in Branches : b # NoBranch
<1>1. \A s \in Slugs : s[1] \in Tasks /\ s[2] \in 1..MaxSuffix /\ s = <<s[1], s[2]>>
  BY DEF Slugs
<1>2. ASSUME NEW s \in Slugs PROVE BranchName(s) # Main /\ BranchName(s) # NoBranch
  <2>1. Len(BranchName(s)) = 3 /\ Len(Main) = 1 /\ Len(NoBranch) = 0
    BY DEF BranchName, Main, NoBranch
  <2>2. QED
    BY <2>1
<1>3. ASSUME NEW s \in Slugs, NEW t \in Slugs, BranchName(s) = BranchName(t) PROVE s = t
  BY <1>1, <1>3 DEF BranchName
<1>4. Main # NoBranch
  BY DEF Main, NoBranch
<1>5. QED
  BY <1>2, <1>3, <1>4 DEF Branches

LEMMA NoRowIsNone == NoRow \notin Row
BY DEF NoRow, Row, Slugs

LEMMA NoTreeIsNone == NoTree \notin Tree
BY BranchFacts DEF NoTree, Tree

LEMMA NoOneIsAgent ==
  /\ Nobody \notin Agents /\ Other \notin Agents /\ Nobody # Other
BY DEF Nobody, Other, Agents

(* unique_name answers a free one.                                         *)
LEMMA UniqueNameFacts ==
  ASSUME NEW task \in Tasks, NEW taken, NameLeft(task, taken)
  PROVE  UniqueName(task, taken) \in Slugs /\ UniqueName(task, taken) \notin taken
<1>1. \E n \in 1..MaxSuffix : FirstFree(n, task, taken)
  BY DEF NameLeft
<1> DEFINE k == CHOOSE n \in 1..MaxSuffix : FirstFree(n, task, taken)
<1>2. k \in 1..MaxSuffix /\ FirstFree(k, task, taken)
  BY <1>1
<1>3. UniqueName(task, taken) = <<task, k>>
  BY DEF UniqueName
<1> HIDE DEF k
<1>4. QED
  BY <1>2, <1>3 DEF FirstFree, Slugs

--------------------------------------------------------------------------------
(* Types.                                                                  *)

(* A row as prepare_workspace makes them.                                  *)
Sound(r) ==
  /\ r \in Row
  /\ r.uses_worktree => r.is_git /\ r.branch \in Branches
  /\ r.branch_is_new => r.branch = BranchName(r.slug)

Idle == [at |-> "idle"]
Job == [at : {"status", "log", "tree", "branch", "row"}, agent : Agents, rec : Row,
        force : BOOLEAN, drop : BOOLEAN, dirty : BOOLEAN]

(* A row is written once, at the end of its agent's spawn.                 *)
RowTypes ==
  /\ row \in [Agents -> Row \union {NoRow}]
  /\ \A a \in Agents : row[a] # NoRow => Sound(row[a]) /\ SpawnAt(a, "done")
  /\ \A a \in Rows, b \in Rows : row[a].slug = row[b].slug => a = b
Well(x) ==
  /\ x.at \in {"idle", "taken", "named", "prepared", "done"}
  /\ x.at = "taken" => x.req \in Request
  /\ x.at \in {"named", "prepared"} => Sound(x.row)
  /\ x.at = "named" => /\ x.in_place \in BOOLEAN /\ x.row.branch \in Branches
                      /\ x.row.uses_worktree = ~x.in_place
SpawnTypes == DOMAIN spawn = Agents /\ \A a \in Agents : Well(spawn[a])
(* The row that a delete goes by is the agent's or it has none any more.   *)
DelTypes ==
  /\ del \in [Deletes -> Job \union {Idle}]
  /\ \A d \in Deletes : del[d].at # "idle" =>
       /\ Sound(Rec(d)) /\ SpawnAt(del[d].agent, "done")
       /\ row[del[d].agent] \in {NoRow, Rec(d)}
CloneTypes ==
  /\ clone \in [Clones -> {"idle", "checked", "running", "failed", "done"}]
  /\ disk \in [Folders -> {"absent", "partial", "there"}]
TreeTypes ==
  /\ trees \in [Paths -> Tree \union {NoTree}]
  /\ litter \subseteq Paths /\ \A p \in litter : trees[p] = NoTree
BranchTypes ==
  /\ made \in [Folders -> [Branches -> Agents \union {Nobody, Other}]]
  /\ tips \in [Folders -> [Branches -> SUBSET Commits]]
  /\ head \in [Folders -> Branches]
WorkTypes ==
  /\ dirty \in [Folders -> BOOLEAN] /\ shut \subseteq Folders
  /\ commits \in 0..MaxCommits /\ pushed \subseteq Commits /\ moves \in 0..MaxMoves
HistTypes ==
  /\ stranded \subseteq Paths /\ halfway \subseteq {a \in Agents : SpawnAt(a, "done")}
  /\ dropped \subseteq halfway
  /\ robbed \subseteq Agents \union {Other} /\ lost \in BOOLEAN /\ wiped \in BOOLEAN
  /\ excused \subseteq {"deletes", "clones"}
Types == /\ RowTypes /\ SpawnTypes /\ DelTypes /\ CloneTypes /\ TreeTypes /\ BranchTypes
         /\ WorkTypes /\ HistTypes

LEMMA InitTypes == Init => Types
<1> SUFFICES ASSUME Init PROVE Types
  OBVIOUS
<1>1. RowTypes
  BY DEF Init, RowTypes, Rows
<1>2. SpawnTypes
  BY DEF Init, SpawnTypes, Well
<1>3. DelTypes
  BY DEF Init, DelTypes, Idle
<1>4. CloneTypes
  BY DEF Init, CloneTypes
<1>5. TreeTypes
  BY DEF Init, TreeTypes
<1>6. BranchTypes
  <2>1. \A f \in Folders : OnlyMain(f) \in [Branches -> Agents \union {Nobody, Other}]
    BY DEF OnlyMain
  <2>2. NoTips \in [Branches -> SUBSET Commits]
    BY DEF NoTips
  <2>3. QED
    BY <2>1, <2>2, BranchFacts DEF Init, BranchTypes
<1>7. WorkTypes
  BY WorkspaceAssumption DEF Init, WorkTypes
<1>8. HistTypes
  BY DEF Init, HistTypes
<1>9. QED
  BY <1>1, <1>2, <1>3, <1>4, <1>5, <1>6, <1>7, <1>8 DEF Types

(* A spawn's own step.                                                     *)
LEMMA OwnSpawn ==
  ASSUME SpawnTypes, NEW a \in Agents, NEW x, spawn' = [spawn EXCEPT ![a] = x]
  PROVE  /\ DOMAIN spawn' = Agents /\ spawn'[a] = x
         /\ \A b \in Agents : b # a => spawn'[b] = spawn[b]
BY DEF SpawnTypes

LEMMA SpawnTyped ==
  ASSUME Types, NEW a \in Agents, NEW x, spawn' = [spawn EXCEPT ![a] = x], Well(x),
         ~SpawnAt(a, "done"), UNCHANGED <<row, halfway, del>>
  PROVE  RowTypes' /\ SpawnTypes' /\ DelTypes' /\ (halfway \subseteq {b \in Agents : SpawnAt(b, "done")})'
<1>1. /\ DOMAIN spawn' = Agents /\ spawn'[a] = x
      /\ \A b \in Agents : b # a => spawn'[b] = spawn[b]
  BY OwnSpawn DEF Types
<1>2. \A b \in Agents : SpawnAt(b, "done") => SpawnAt(b, "done")'
  BY <1>1 DEF SpawnAt
<1>3. SpawnTypes'
  BY <1>1 DEF Types, SpawnTypes
<1>4. RowTypes'
  BY <1>2 DEF Types, RowTypes, Rows
<1>5. DelTypes'
  <2> SUFFICES ASSUME NEW d \in Deletes, del[d].at # "idle"
               PROVE  SpawnAt(del[d].agent, "done")'
    BY DEF Types, DelTypes, Rec
  <2>1. SpawnAt(del[d].agent, "done") /\ del[d].agent \in Agents
    BY DEF Types, DelTypes, Job, Idle
  <2>2. QED
    BY <1>2, <2>1
<1>6. (halfway \subseteq {b \in Agents : SpawnAt(b, "done")})'
  BY <1>2 DEF Types, HistTypes
<1>7. QED
  BY <1>3, <1>4, <1>5, <1>6

(* What a spawn may have read and made.                                    *)
LEMMA SpawnFacts ==
  ASSUME Types, NEW a \in Agents
  PROVE  /\ Well(spawn[a])
         /\ SpawnAt(a, "taken") => /\ spawn[a].req \in Request
                                  /\ spawn[a].req.folder \in Folders /\ spawn[a].req.task \in Tasks
         /\ spawn[a].at \in {"named", "prepared"} =>
              /\ Sound(spawn[a].row) /\ spawn[a].row.folder \in Folders
              /\ spawn[a].row.slug \in Slugs /\ WorkPath(spawn[a].row) \in Paths
BY DEF Types, SpawnTypes, Well, SpawnAt, Request, Sound, Row, WorkPath, Paths

LEMMA SpawnBeginsTypes ==
  ASSUME Types, NEW a \in Agents, NEW r \in Requests[a], SpawnBegins(a, r) PROVE Types'
<1> DEFINE x == [at |-> "taken", req |-> r, taken |-> TakenNames]
<1>1. Well(x)
  BY WorkspaceAssumption DEF Well
<1>2. spawn' = [spawn EXCEPT ![a] = x] /\ UNCHANGED <<rowVars, del, clone, disk, gitVars, seenVars>>
  BY DEF SpawnBegins
<1>3. ~SpawnAt(a, "done")
  BY DEF SpawnBegins, SpawnAt
<1> HIDE DEF x
<1>4. RowTypes' /\ SpawnTypes' /\ DelTypes' /\ (halfway \subseteq {b \in Agents : SpawnAt(b, "done")})'
  BY <1>1, <1>2, <1>3, SpawnTyped DEF rowVars
<1>5. QED
  BY <1>2, <1>4 DEF Types, CloneTypes, TreeTypes, BranchTypes, WorkTypes, HistTypes, rowVars,
                    gitVars, seenVars, histVars

(* A spawn ends, and makes and writes nothing.                             *)
LEMMA SpawnEndsTypes ==
  ASSUME Types, NEW a \in Agents, SpawnEnds(a), ~SpawnAt(a, "done"),
         UNCHANGED <<row, halfway, dropped, del, clone, disk, gitVars, seenVars>>,
                     (stranded \subseteq Paths)'
  PROVE  Types'
<1> DEFINE x == [at |-> "done"]
<1>1. Well(x)
  BY DEF Well
<1>2. spawn' = [spawn EXCEPT ![a] = x]
  BY DEF SpawnEnds
<1> HIDE DEF x
<1>3. RowTypes' /\ SpawnTypes' /\ DelTypes' /\ (halfway \subseteq {b \in Agents : SpawnAt(b, "done")})'
  BY <1>1, <1>2, SpawnTyped
<1>4. QED
  BY <1>3 DEF Types, CloneTypes, TreeTypes, BranchTypes, WorkTypes, HistTypes,
              gitVars, seenVars, histVars

(* ... or has a row in mind, and makes nothing for it yet.                 *)
LEMMA SpawnMovesTypes ==
  ASSUME Types, NEW a \in Agents, NEW x, Well(x), spawn' = [spawn EXCEPT ![a] = x],
         ~SpawnAt(a, "done"), UNCHANGED <<rowVars, del, clone, disk, gitVars, seenVars>>
  PROVE  Types'
<1>1. RowTypes' /\ SpawnTypes' /\ DelTypes' /\ (halfway \subseteq {b \in Agents : SpawnAt(b, "done")})'
  BY SpawnTyped DEF rowVars
<1>2. QED
  BY <1>1 DEF Types, CloneTypes, TreeTypes, BranchTypes, WorkTypes, HistTypes, rowVars,
              gitVars, seenVars, histVars

(* The rows prepare_workspace comes to.                                    *)
LEMMA PreparesNothingFacts ==
  ASSUME Types, NEW a \in Agents, PreparesNothing(a), ~SpawnEnds(a)
  PROVE  \E r : /\ Sound(r) /\ ~r.uses_worktree /\ ~r.branch_is_new /\ Prepared(a, r)
                /\ r.slug \notin spawn[a].taken
<1> DEFINE r == spawn[a].req
           f == r.folder
           stays == Kind[f] = "git" /\ r.branch = "stay"
           x == [slug |-> UniqueName(r.task, spawn[a].taken), folder |-> f,
                 is_git |-> stays, branch |-> IF stays THEN CurrentBranch(f) ELSE NoBranch,
                 base_ref |-> NoBranch, uses_worktree |-> FALSE, branch_is_new |-> FALSE]
<1>1. r \in Request /\ f \in Folders /\ r.task \in Tasks
  BY SpawnFacts DEF PreparesNothing
<1>2. NameLeft(r.task, spawn[a].taken) /\ Prepared(a, x)
  BY DEF PreparesNothing
<1>3. UniqueName(r.task, spawn[a].taken) \in Slugs
      /\ UniqueName(r.task, spawn[a].taken) \notin spawn[a].taken
  BY <1>1, <1>2, UniqueNameFacts
<1>4. CurrentBranch(f) \in Branches \union {NoBranch}
  BY <1>1 DEF CurrentBranch, Types, BranchTypes
<1>5. stays \in BOOLEAN
  OBVIOUS
<1>6. x \in Row
  BY <1>1, <1>3, <1>4, <1>5 DEF Row
<1>7. QED
  BY <1>2, <1>3, <1>6 DEF Sound

LEMMA ChoosesNamesFacts ==
  ASSUME Types, NEW a \in Agents, ChoosesNames(a), ~SpawnEnds(a)
  PROVE  \E r : /\ Sound(r) /\ r.branch \in Branches /\ r.slug \notin spawn[a].taken
                /\ r.uses_worktree = ~spawn[a].req.in_place
                /\ spawn' = [spawn EXCEPT ![a] =
                      [at |-> "named", in_place |-> spawn[a].req.in_place, row |-> r]]
<1> DEFINE r == spawn[a].req
           f == r.folder
           existing == IF GitRuns(f) THEN {b \in Branches : Exists(f, b)} ELSE {}
           new == r.branch = "new"
           taken == IF new THEN Unavailable(spawn[a].taken, existing) ELSE spawn[a].taken
           slug == UniqueName(r.task, taken)
           x == [slug |-> slug, folder |-> f, is_git |-> TRUE,
                 branch |-> IF new THEN BranchName(slug) ELSE r.reuse,
                 base_ref |-> IF new THEN head[f] ELSE NoBranch,
                 uses_worktree |-> ~r.in_place, branch_is_new |-> new]
<1>1. r \in Request /\ f \in Folders /\ r.task \in Tasks /\ r.in_place \in BOOLEAN
  BY SpawnFacts DEF ChoosesNames, Request
<1>2. NameLeft(r.task, taken) /\ (new \/ r.reuse \in existing)
      /\ spawn' = [spawn EXCEPT ![a] = [at |-> "named", in_place |-> r.in_place, row |-> x]]
  BY DEF ChoosesNames
<1>3. slug \in Slugs /\ slug \notin taken
  BY <1>1, <1>2, UniqueNameFacts
<1>4. slug \notin spawn[a].taken
  BY <1>3 DEF Unavailable
<1>5. existing \subseteq Branches /\ head[f] \in Branches /\ BranchName(slug) \in Branches
  BY <1>1, <1>3, BranchFacts DEF Types, BranchTypes
<1> HIDE DEF slug, existing, taken
<1>6. x.branch \in Branches
  BY <1>2, <1>5
<1>7. x \in Row
  BY <1>1, <1>3, <1>5, <1>6 DEF Row
<1>8. Sound(x)
  BY <1>6, <1>7 DEF Sound
<1>9. QED
  BY <1>2, <1>4, <1>6, <1>8

(* What making a branch does.                                              *)
LEMMA MakesBranches ==
  ASSUME Types, NEW a \in Agents, NEW r, Sound(r), r.branch \in Branches, Makes(r, a), MayMake(r)
  PROVE  /\ made' \in [Folders -> [Branches -> Agents \union {Nobody, Other}]]
         /\ tips' \in [Folders -> [Branches -> SUBSET Commits]]
         /\ ~r.branch_is_new => made' = made
         /\ \A f \in Folders, b \in Branches :
              made'[f][b] = IF r.branch_is_new /\ f = r.folder /\ b = r.branch THEN a ELSE made[f][b]
         /\ r.branch_is_new => made[r.folder][r.branch] = Nobody
<1>1. r.folder \in Folders
  BY DEF Sound, Row
<1>2. CASE ~r.branch_is_new
  BY <1>2 DEF Makes, Types, BranchTypes
<1>3. CASE r.branch_is_new
  <2>1. r.base_ref \in Branches /\ made[r.folder][r.branch] = Nobody
    BY <1>3 DEF MayMake, Exists
  <2>2. made' = [made EXCEPT ![r.folder][r.branch] = a]
    BY <1>3 DEF Makes
  <2>3. tips' = [tips EXCEPT ![r.folder][r.branch] = tips[r.folder][r.base_ref]]
    BY <1>3 DEF Makes
  <2>4. made \in [Folders -> [Branches -> Agents \union {Nobody, Other}]]
        /\ tips \in [Folders -> [Branches -> SUBSET Commits]]
    BY DEF Types, BranchTypes
  <2>5. tips[r.folder][r.base_ref] \in SUBSET Commits
    BY <1>1, <2>1, <2>4
  <2>6. tips' \in [Folders -> [Branches -> SUBSET Commits]]
    BY <1>1, <2>3, <2>4, <2>5
  <2>7. QED
    BY <1>1, <1>3, <2>1, <2>2, <2>4, <2>6
<1>4. r.branch_is_new \in BOOLEAN
  BY DEF Sound, Row
<1>5. QED
  BY <1>2, <1>3, <1>4

LEMMA PreparedTyped ==
  ASSUME Types, NEW a \in Agents, NEW r, Sound(r), Prepared(a, r), ~SpawnAt(a, "done"),
         UNCHANGED <<rowVars, del>>
  PROVE  /\ RowTypes' /\ SpawnTypes' /\ DelTypes'
         /\ (halfway \subseteq {b \in Agents : SpawnAt(b, "done")})'
         /\ spawn'[a] = [at |-> "prepared", row |-> r]
         /\ \A b \in Agents : b # a => spawn'[b] = spawn[b]
<1> DEFINE x == [at |-> "prepared", row |-> r]
<1>1. Well(x)
  BY DEF Well
<1>2. spawn' = [spawn EXCEPT ![a] = x]
  BY DEF Prepared
<1> HIDE DEF x
<1>3. RowTypes' /\ SpawnTypes' /\ DelTypes' /\ (halfway \subseteq {b \in Agents : SpawnAt(b, "done")})'
  BY <1>1, <1>2, SpawnTyped DEF rowVars
<1>4. spawn'[a] = x /\ \A b \in Agents : b # a => spawn'[b] = spawn[b]
  BY <1>2, OwnSpawn DEF Types
<1>5. QED
  BY <1>3, <1>4 DEF x

LEMMA MakesInPlaceTypes == ASSUME Types, NEW a \in Agents, MakesInPlace(a) PROVE Types'
<1> DEFINE r == spawn[a].row
<1>1. Sound(r) /\ r.branch \in Branches /\ r.folder \in Folders
  BY SpawnFacts DEF MakesInPlace, SpawnAt, Well
<1>2. MayMake(r) /\ Makes(r, a) /\ head' = [head EXCEPT ![r.folder] = r.branch] /\ Prepared(a, r)
  BY DEF MakesInPlace
<1>3. ~SpawnAt(a, "done")
  BY DEF MakesInPlace, SpawnAt
<1>4. UNCHANGED <<rowVars, del, clone, disk, dirty, trees, litter, shut, commits, pushed, seenVars>>
  BY DEF MakesInPlace
<1> HIDE DEF r
<1>5. RowTypes' /\ SpawnTypes' /\ DelTypes' /\ (halfway \subseteq {b \in Agents : SpawnAt(b, "done")})'
  BY <1>1, <1>2, <1>3, <1>4, PreparedTyped
<1>6. BranchTypes'
  <2>1. /\ made' \in [Folders -> [Branches -> Agents \union {Nobody, Other}]]
        /\ tips' \in [Folders -> [Branches -> SUBSET Commits]]
    BY <1>1, <1>2, MakesBranches
  <2>2. head' \in [Folders -> Branches]
    BY <1>1, <1>2 DEF Types, BranchTypes
  <2>3. QED
    BY <2>1, <2>2 DEF BranchTypes
<1>7. QED
  BY <1>4, <1>5, <1>6 DEF Types, CloneTypes, TreeTypes, WorkTypes, HistTypes, rowVars, seenVars,
                          histVars

(* The worktree that is made.                                              *)
LEMMA MakesWorktreeFacts ==
  ASSUME Types, NEW a \in Agents, MakesWorktree(a)
  PROVE  \E r \in Row :
    LET p == WorkPath(r) IN
      /\ r = spawn[a].row /\ Sound(r) /\ r.branch \in Branches /\ r.uses_worktree
      /\ p \in Paths /\ p[1] = r.folder /\ r.folder \in Folders /\ r.slug \in Slugs
      /\ trees[p] = NoTree /\ p \notin litter /\ GitRuns(r.folder)
      /\ MayMake(r) /\ Makes(r, a) /\ Prepared(a, r) /\ ~SpawnAt(a, "done")
      /\ trees' \in [Paths -> Tree \union {NoTree}]
      /\ trees'[p] = [branch |-> r.branch, dirty |-> FALSE, maker |-> a, there |-> TRUE]
      /\ trees'[p] \in Tree
      /\ \A q \in Paths : q # p => trees'[q] = trees[q]
<1> DEFINE r == spawn[a].row
           p == WorkPath(r)
           t == [branch |-> r.branch, dirty |-> FALSE, maker |-> a, there |-> TRUE]
<1>1. SpawnAt(a, "named") /\ Well(spawn[a]) /\ ~spawn[a].in_place
  BY SpawnFacts DEF MakesWorktree
<1>2. Sound(r) /\ r.branch \in Branches /\ r.uses_worktree
  BY <1>1 DEF SpawnAt, Well
<1>3. r \in Row /\ r.folder \in Folders /\ r.slug \in Slugs /\ p \in Paths /\ p[1] = r.folder
  BY <1>2 DEF Sound, Row, WorkPath, Paths
<1>4. /\ MayMake(r) /\ trees[p] = NoTree /\ Makes(r, a) /\ ~OnDisk(p) /\ Prepared(a, r)
      /\ trees' = [trees EXCEPT ![p] = t]
  BY DEF MakesWorktree, WorkPath
<1>5. t \in Tree
  BY <1>2 DEF Tree
<1>6. ~SpawnAt(a, "done") /\ p \notin litter /\ GitRuns(r.folder)
  BY <1>1, <1>4 DEF SpawnAt, OnDisk, MayMake
<1> HIDE DEF r, t
<1>7. /\ trees' \in [Paths -> Tree \union {NoTree}]
      /\ trees'[p] = t /\ \A q \in Paths : q # p => trees'[q] = trees[q]
  BY <1>3, <1>4, <1>5 DEF Types, TreeTypes
<1>8. QED
  BY <1>2, <1>3, <1>4, <1>5, <1>6, <1>7 DEF t, r

LEMMA MakesWorktreeTypes == ASSUME Types, NEW a \in Agents, MakesWorktree(a) PROVE Types'
<1>1. PICK r \in Row :
        /\ Sound(r) /\ r.branch \in Branches /\ WorkPath(r) \notin litter /\ WorkPath(r) \in Paths
        /\ MayMake(r) /\ Makes(r, a) /\ Prepared(a, r) /\ ~SpawnAt(a, "done")
        /\ trees' \in [Paths -> Tree \union {NoTree}]
        /\ \A q \in Paths : q # WorkPath(r) => trees'[q] = trees[q]
  BY MakesWorktreeFacts
<1>2. UNCHANGED <<rowVars, del, clone, disk, head, dirty, litter, shut, commits, pushed, seenVars>>
  BY DEF MakesWorktree
<1>3. RowTypes' /\ SpawnTypes' /\ DelTypes' /\ (halfway \subseteq {b \in Agents : SpawnAt(b, "done")})'
  BY <1>1, <1>2, PreparedTyped
<1>4. BranchTypes'
  BY <1>1, <1>2, MakesBranches DEF Types, BranchTypes
<1>5. TreeTypes'
  BY <1>1, <1>2 DEF Types, TreeTypes
<1>6. QED
  BY <1>2, <1>3, <1>4, <1>5 DEF Types, CloneTypes, WorkTypes, HistTypes, rowVars, seenVars, histVars

LEMMA InsertsTypes == ASSUME Types, NEW a \in Agents, Inserts(a) PROVE Types'
<1> DEFINE r == spawn[a].row
           x == [at |-> "done"]
<1>1. SpawnAt(a, "prepared") /\ Sound(r) /\ \A b \in Rows : Slug(b) # r.slug
  BY SpawnFacts DEF Inserts, MayInsert, SpawnAt
<1>2. row' = [row EXCEPT ![a] = r] /\ spawn' = [spawn EXCEPT ![a] = x]
      /\ UNCHANGED <<stranded, halfway, dropped, del, clone, disk, gitVars, seenVars>>
  BY DEF Inserts, SpawnEnds
<1>3. row \in [Agents -> Row \union {NoRow}] /\ r \in Row /\ r # NoRow
  BY <1>1, NoRowIsNone DEF Types, RowTypes, Sound
<1>4. row'[a] = r /\ row' \in [Agents -> Row \union {NoRow}]
      /\ \A b \in Agents : b # a => row'[b] = row[b]
  BY <1>2, <1>3
<1>5. Well(x) /\ DOMAIN spawn' = Agents /\ spawn'[a] = x
      /\ \A b \in Agents : b # a => spawn'[b] = spawn[b]
  BY <1>2, OwnSpawn DEF Well, Types
<1> HIDE DEF r, x
<1>6. \A b \in Agents : SpawnAt(b, "done") => SpawnAt(b, "done")' /\ row'[b] = row[b]
  BY <1>1, <1>4, <1>5 DEF SpawnAt
<1>7. RowTypes'
  <2>1. \A b \in Agents : row'[b] # NoRow => Sound(row'[b]) /\ SpawnAt(b, "done")'
    <3> SUFFICES ASSUME NEW b \in Agents, row'[b] # NoRow PROVE Sound(row'[b]) /\ SpawnAt(b, "done")'
      OBVIOUS
    <3>1. CASE b = a
      BY <1>1, <1>4, <1>5, <3>1 DEF SpawnAt, x
    <3>2. CASE b # a
      BY <1>4, <1>6, <3>2 DEF Types, RowTypes
    <3>3. QED
      BY <3>1, <3>2
  <2>2. \A b, c \in Rows' : row'[b].slug = row'[c].slug => b = c
    <3>1. \A b \in Rows' : b # a => b \in Rows /\ row'[b] = row[b]
      BY <1>4 DEF Rows
    <3>2. \A b \in Rows : row[b].slug # r.slug
      BY <1>1 DEF Slug
    <3>3. QED
      BY <1>4, <3>1, <3>2 DEF Types, RowTypes
  <2>3. QED
    BY <1>4, <2>1, <2>2 DEF RowTypes
<1>8. SpawnTypes'
  BY <1>5 DEF Types, SpawnTypes
<1>9. DelTypes'
  <2> SUFFICES ASSUME NEW d \in Deletes, del[d].at # "idle"
               PROVE  SpawnAt(del[d].agent, "done")' /\ row'[del[d].agent] = row[del[d].agent]
    BY <1>2 DEF Types, DelTypes, Rec
  <2>1. SpawnAt(del[d].agent, "done") /\ del[d].agent \in Agents
    BY DEF Types, DelTypes, Job, Idle
  <2>2. QED
    BY <1>2, <1>6, <2>1
<1>10. HistTypes'
  BY <1>2, <1>6 DEF Types, HistTypes, seenVars, histVars
<1>11. QED
  BY <1>2, <1>7, <1>8, <1>9, <1>10 DEF Types, CloneTypes, TreeTypes, BranchTypes, WorkTypes,
                                       gitVars,
                                       seenVars

LEMMA SpawningTypes == ASSUME Types, NEW a \in Agents, Spawning(a) PROVE Types'
<1>1. CASE \E r \in Requests[a] : SpawnBegins(a, r)
  BY <1>1, SpawnBeginsTypes
<1>2. CASE PreparesNothing(a) /\ ~SpawnEnds(a)
  <2>1. PICK r : Sound(r) /\ Prepared(a, r)
    BY <1>2, PreparesNothingFacts
  <2> DEFINE x == [at |-> "prepared", row |-> r]
  <2>2. Well(x) /\ spawn' = [spawn EXCEPT ![a] = x]
    BY <2>1 DEF Well, Prepared
  <2> HIDE DEF x
  <2>3. QED
    BY <1>2, <2>2, SpawnMovesTypes DEF PreparesNothing, SpawnAt
<1>3. CASE ChoosesNames(a) /\ ~SpawnEnds(a)
  <2>1. PICK r : /\ Sound(r) /\ r.branch \in Branches
                 /\ r.uses_worktree = ~spawn[a].req.in_place
                 /\ spawn' = [spawn EXCEPT ![a] =
                      [at |-> "named", in_place |-> spawn[a].req.in_place, row |-> r]]
    BY <1>3, ChoosesNamesFacts
  <2> DEFINE x == [at |-> "named", in_place |-> spawn[a].req.in_place, row |-> r]
  <2>2. spawn[a].req.in_place \in BOOLEAN
    BY <1>3, SpawnFacts DEF ChoosesNames, Request
  <2>3. Well(x) /\ spawn' = [spawn EXCEPT ![a] = x]
    BY <2>1, <2>2 DEF Well
  <2> HIDE DEF x
  <2>4. QED
    BY <1>3, <2>3, SpawnMovesTypes DEF ChoosesNames, SpawnAt
<1>4. CASE (PreparesNothing(a) \/ ChoosesNames(a) \/ SpawnFails(a)) /\ SpawnEnds(a)
  <2>1. ~SpawnAt(a, "done") /\ UNCHANGED <<rowVars, del, clone, disk, gitVars, seenVars>>
    BY <1>4 DEF PreparesNothing, ChoosesNames, SpawnFails, SpawnAt
  <2>2. (stranded \subseteq Paths)'
    BY <2>1 DEF Types, HistTypes, rowVars
  <2>3. QED
    BY <1>4, <2>1, <2>2, SpawnEndsTypes DEF rowVars
<1>5. CASE Strands(a)
  <2>1. SpawnAt(a, "prepared") /\ SpawnEnds(a)
        /\ UNCHANGED <<row, halfway, dropped, del, clone, disk, gitVars, seenVars>>
    BY <1>5 DEF Strands
  <2>2. WorkPath(spawn[a].row) \in Paths
    BY <2>1, SpawnFacts DEF SpawnAt
  <2>3. (stranded \subseteq Paths)'
    BY <1>5, <2>2 DEF Strands, WorkPath, Types, HistTypes
  <2>4. QED
    BY <2>1, <2>3, SpawnEndsTypes DEF SpawnAt
<1>6. QED
  BY <1>1, <1>2, <1>3, <1>4, <1>5, MakesInPlaceTypes, MakesWorktreeTypes, InsertsTypes
     DEF Spawning, SpawnFails, InsertRefused, SpawnDropped

(* What a delete goes by, and how it goes on.                              *)
LEMMA JobFacts ==
  ASSUME Types, NEW d \in Deletes, del[d].at # "idle"
  PROVE  /\ del[d] \in Job /\ del[d].agent \in Agents /\ SpawnAt(del[d].agent, "done")
         /\ Sound(Rec(d)) /\ Rec(d) \in Row /\ Rec(d).folder \in Folders /\ Rec(d).slug \in Slugs
         /\ WorkPath(Rec(d)) \in Paths /\ WorkPath(Rec(d))[1] = Rec(d).folder
         /\ row[del[d].agent] \in {NoRow, Rec(d)}
BY DEF Types, DelTypes, Job, Idle, Rec, Sound, Row, WorkPath, Paths

LEMMA DelGoesFacts ==
  ASSUME Types, NEW d \in Deletes, del[d].at # "idle", NEW s \in {"log", "tree", "branch", "row"},
         DelGoes(d, s)
  PROVE  /\ del' \in [Deletes -> Job \union {Idle}] /\ del'[d].at = s
         /\ del'[d].agent = del[d].agent /\ Rec(d)' = Rec(d) /\ del'[d].force = del[d].force
         /\ \A e \in Deletes : e # d => del'[e] = del[e]
<1>1. del \in [Deletes -> Job \union {Idle}] /\ del[d] \in Job
  BY JobFacts DEF Types, DelTypes
<1>2. del' = [del EXCEPT ![d].at = s]
  BY DEF DelGoes
<1>3. [del[d] EXCEPT !.at = s] \in Job
  BY <1>1 DEF Job
<1>4. del'[d] = [del[d] EXCEPT !.at = s] /\ \A e \in Deletes : e # d => del'[e] = del[e]
  BY <1>1, <1>2
<1>5. QED
  BY <1>1, <1>2, <1>3, <1>4 DEF Rec, Job

LEMMA DelEndsFacts ==
  ASSUME Types, NEW d \in Deletes, DelEnds(d)
  PROVE  /\ del' \in [Deletes -> Job \union {Idle}] /\ del'[d].at = "idle"
         /\ \A e \in Deletes : e # d => del'[e] = del[e]
<1>1. del \in [Deletes -> Job \union {Idle}] /\ del' = [del EXCEPT ![d] = Idle]
  BY DEF Types, DelTypes, DelEnds, Idle
<1>2. del'[d] = Idle /\ \A e \in Deletes : e # d => del'[e] = del[e]
  BY <1>1
<1>3. QED
  BY <1>1, <1>2 DEF Idle

(* Whatever a delete does, it goes by the same row to the same agent.      *)
SameJob(d) == del'[d].at # "idle" => /\ del[d].at # "idle" /\ del'[d].agent = del[d].agent
                                     /\ Rec(d)' = Rec(d)

LEMMA DelTyped ==
  ASSUME Types, del' \in [Deletes -> Job \union {Idle}], \A d \in Deletes : SameJob(d),
         UNCHANGED spawn, \A a \in Agents : row'[a] \in {NoRow, row[a]}
  PROVE  DelTypes'
<1> SUFFICES ASSUME NEW d \in Deletes, del'[d].at # "idle"
             PROVE  /\ Sound(Rec(d))' /\ SpawnAt(del[d].agent, "done")'
                    /\ row'[del'[d].agent] \in {NoRow, Rec(d)'}
  BY DEF DelTypes
<1>1. del[d].at # "idle" /\ del'[d].agent = del[d].agent /\ Rec(d)' = Rec(d)
  BY DEF SameJob
<1>2. /\ del[d].agent \in Agents /\ SpawnAt(del[d].agent, "done") /\ Sound(Rec(d))
      /\ row[del[d].agent] \in {NoRow, Rec(d)}
  BY <1>1, JobFacts
<1>3. Sound(Rec(d))'
  BY <1>1, <1>2 DEF Sound
<1>4. QED
  BY <1>1, <1>2, <1>3 DEF SpawnAt

LEMMA RowsGoTyped ==
  ASSUME Types, UNCHANGED spawn, row' \in [Agents -> Row \union {NoRow}],
         \A a \in Agents : row'[a] \in {NoRow, row[a]}
  PROVE  RowTypes' /\ SpawnTypes'
BY DEF Types, RowTypes, SpawnTypes, Rows, SpawnAt

(* The steps of a delete that read, or move on, and change nothing else.   *)
Reads(d) == ReadsStatus(d) \/ ReadsLog(d) \/ NothingToRemove(d) \/ RemovalRefused(d)

LEMMA UnsafeFacts ==
  ASSUME Types, NEW d \in Deletes, del[d].at # "idle", Unsafe(d)
  PROVE  /\ del' \in [Deletes -> Job \union {Idle}] /\ \A e \in Deletes : SameJob(e)
         /\ del'[d].at \in {"tree", "idle"} /\ \A e \in Deletes : e # d => del'[e] = del[e]
<1>1. CASE DelGoes(d, "tree")
  BY <1>1, DelGoesFacts DEF SameJob, Rec
<1>2. CASE DelEnds(d)
  BY <1>2, DelEndsFacts DEF SameJob, Rec
<1>3. QED
  BY <1>1, <1>2 DEF Unsafe

LEMMA ReadsFacts ==
  ASSUME Types, NEW d \in Deletes, Reads(d)
  PROVE  /\ del' \in [Deletes -> Job \union {Idle}] /\ \A e \in Deletes : SameJob(e)
         /\ del'[d].at \in {"log", "tree", "idle", "branch"} /\ del[d].at # "idle"
         /\ del[d].at \in {"status", "log", "tree"}
         /\ del'[d].at = "branch" => ~Rec(d).uses_worktree
         /\ \A e \in Deletes : e # d => del'[e] = del[e]
         /\ UNCHANGED <<rowVars, spawn, clone, disk, gitVars, seenVars>>
<1>1. del[d].at # "idle" /\ UNCHANGED <<rowVars, spawn, clone, disk, gitVars, seenVars>>
      /\ del[d].at \in {"status", "log", "tree"}
  BY DEF Reads, ReadsStatus, ReadsLog, NothingToRemove, RemovalRefused, DelAt
<1> DEFINE Same == /\ del' \in [Deletes -> Job \union {Idle}] /\ \A e \in Deletes : SameJob(e)
                   /\ del'[d].at \in {"log", "tree", "idle", "branch"}
                   /\ del'[d].at = "branch" => ~Rec(d).uses_worktree
                   /\ \A e \in Deletes : e # d => del'[e] = del[e]
<1>2. CASE Unsafe(d)
  BY <1>1, <1>2, UnsafeFacts
<1>3. CASE ReadsStatus(d) /\ ~Unsafe(d)
  <2> DEFINE r == Rec(d)
             p == WorkPath(r)
             now == IF r.uses_worktree THEN trees[p] # NoTree /\ trees[p].dirty ELSE dirty[r.folder]
             j == [del[d] EXCEPT !.at = "log", !.dirty = now]
  <2>1. del' = [del EXCEPT ![d].at = "log", ![d].dirty = now]
    BY <1>3 DEF ReadsStatus
  <2>2. del[d] \in Job /\ p \in Paths /\ r.folder \in Folders
    BY <1>1, JobFacts
  <2>3. now \in BOOLEAN
    <3>1. trees[p] # NoTree => trees[p].dirty \in BOOLEAN
      BY <2>2 DEF Types, TreeTypes, Tree
    <3>2. dirty[r.folder] \in BOOLEAN
      BY <2>2 DEF Types, WorkTypes
    <3>3. QED
      BY <3>1, <3>2
  <2> HIDE DEF now
  <2>4. del \in [Deletes -> Job \union {Idle}] /\ j \in Job
    BY <2>2, <2>3 DEF Types, DelTypes, Job
  <2>5. del'[d] = j /\ \A e \in Deletes : e # d => del'[e] = del[e]
    BY <2>1, <2>4
  <2>6. j.at = "log" /\ j.agent = del[d].agent /\ j.rec = del[d].rec
    BY <2>2 DEF Job
  <2>7. del' \in [Deletes -> Job \union {Idle}]
    BY <2>1, <2>4
  <2> HIDE DEF j
  <2>8. QED
    BY <1>1, <2>5, <2>6, <2>7 DEF SameJob, Rec
<1>4. CASE DelGoes(d, "tree")
  BY <1>1, <1>4, DelGoesFacts DEF SameJob, Rec
<1>5. CASE DelEnds(d)
  BY <1>1, <1>5, DelEndsFacts DEF SameJob, Rec
<1>6. CASE NothingToRemove(d)
  <2>1. DelGoes(d, "branch") /\ ~Rec(d).uses_worktree
    BY <1>6 DEF NothingToRemove
  <2>2. QED
    BY <1>1, <2>1, DelGoesFacts DEF SameJob, Rec
<1>7. QED
  BY <1>1, <1>2, <1>3, <1>4, <1>5, <1>6 DEF Reads, ReadsLog, RemovalRefused

LEMMA DeleteBeginsFacts ==
  ASSUME Types, NEW d \in Deletes, NEW a \in Agents, NEW force \in BOOLEAN, NEW drop \in BOOLEAN,
         DeleteBegins(d, a, force, drop)
  PROVE  /\ del' \in [Deletes -> Job \union {Idle}]
         /\ del'[d].at \in {"status", "row"} /\ del'[d].agent = a /\ Rec(d)' = row[a]
         /\ del'[d].at = "row" => ~row[a].uses_worktree
         /\ \A e \in Deletes : e # d => del'[e] = del[e]
         /\ del[d].at = "idle" /\ row[a] # NoRow /\ Sound(row[a]) /\ SpawnAt(a, "done")
         /\ UNCHANGED <<rowVars, spawn, clone, disk, gitVars, lost, robbed, wiped>>
         /\ moves' \in 0..MaxMoves
<1> DEFINE j == [at |-> IF row[a].is_git THEN "status" ELSE "row", agent |-> a,
                 rec |-> row[a], force |-> force, drop |-> drop, dirty |-> FALSE]
<1>1. row[a] # NoRow /\ Sound(row[a]) /\ SpawnAt(a, "done") /\ row[a] \in Row
  BY DEF DeleteBegins, Types, RowTypes, Sound
<1>2. del' = [del EXCEPT ![d] = j] /\ del[d].at = "idle"
      /\ UNCHANGED <<rowVars, spawn, clone, disk, gitVars, lost, robbed, wiped>>
  BY DEF DeleteBegins, DelAt
<1>3. j \in Job
  BY <1>1 DEF Job
<1>4. j.at \in {"status", "row"} /\ j.agent = a /\ j.rec = row[a]
      /\ (j.at = "row" => ~row[a].uses_worktree)
  BY <1>1 DEF Sound, Row
<1> HIDE DEF j
<1>5. del \in [Deletes -> Job \union {Idle}]
  BY DEF Types, DelTypes
<1>6. moves' \in 0..MaxMoves
  BY WorkspaceAssumption DEF DeleteBegins, Moves, Types, WorkTypes
<1>7. QED
  BY <1>1, <1>2, <1>3, <1>4, <1>5, <1>6 DEF Rec

LEMMA RemovesTreeFacts ==
  ASSUME Types, NEW d \in Deletes, RemovesTree(d)
  PROVE  LET p == WorkPath(Rec(d)) IN
         /\ del' \in [Deletes -> Job \union {Idle}] /\ \A e \in Deletes : SameJob(e)
         /\ del'[d].at = "branch" /\ del[d].at = "tree" /\ Rec(d).uses_worktree
         /\ \A e \in Deletes : e # d => del'[e] = del[e]
         /\ p \in Paths /\ trees[p] \in Tree /\ trees[p].maker \in Agents
         /\ trees' \in [Paths -> Tree \union {NoTree}] /\ trees'[p] = NoTree
         /\ \A q \in Paths : q # p => trees'[q] = trees[q]
         /\ stranded' \in {stranded, stranded \ {p}} /\ Robs(d, trees[p].maker)
         /\ UNCHANGED <<row, halfway, dropped, spawn, clone, disk, made, tips, head, dirty, litter,
                        shut,
                        commits, pushed, moves, wiped, excused>>
<1> DEFINE p == WorkPath(Rec(d))
<1>1. /\ del[d].at = "tree" /\ DelGoes(d, "branch") /\ trees[p] # NoTree /\ Rec(d).uses_worktree
      /\ trees' = [trees EXCEPT ![p] = NoTree] /\ Robs(d, trees[p].maker)
      /\ stranded' = IF trees[p].maker = del[d].agent THEN stranded ELSE stranded \ {p}
      /\ UNCHANGED <<row, halfway, dropped, spawn, clone, disk, made, tips, head, dirty, litter,
                     shut,
                     commits, pushed, moves, wiped, excused>>
  BY DEF RemovesTree, DelAt, GitRemoves
<1>2. p \in Paths
  BY <1>1, JobFacts
<1> HIDE DEF p
<1>3. trees \in [Paths -> Tree \union {NoTree}] /\ trees[p] \in Tree /\ trees[p].maker \in Agents
  BY <1>1, <1>2 DEF Types, TreeTypes, Tree
<1>4. /\ trees' \in [Paths -> Tree \union {NoTree}] /\ trees'[p] = NoTree
      /\ \A q \in Paths : q # p => trees'[q] = trees[q]
  BY <1>1, <1>2, <1>3
<1>5. /\ del' \in [Deletes -> Job \union {Idle}] /\ \A e \in Deletes : SameJob(e)
      /\ del'[d].at = "branch" /\ \A e \in Deletes : e # d => del'[e] = del[e]
  BY <1>1, DelGoesFacts DEF SameJob, Rec
<1>6. QED
  BY <1>1, <1>2, <1>3, <1>4, <1>5 DEF p

(* What a forced removal does to the worktrees: nothing to another's that  *)
(* is there.                                                               *)
LEMMA FallsBackFacts ==
  ASSUME Types, NEW d \in Deletes, FallsBack(d)
  PROVE  LET p == WorkPath(Rec(d)) IN
         /\ del' \in [Deletes -> Job \union {Idle}] /\ \A e \in Deletes : SameJob(e)
         /\ del'[d].at = "branch" /\ del[d].at = "tree" /\ Rec(d).uses_worktree
         /\ \A e \in Deletes : e # d => del'[e] = del[e]
         /\ p \in Paths /\ trees' \in [Paths -> Tree \union {NoTree}]
         /\ \A q \in Paths : trees'[q] # NoTree =>
              trees[q] # NoTree /\ trees'[q].maker = trees[q].maker
         /\ \A q \in Paths : q # p /\ trees[q] # NoTree /\ trees[q].there => trees'[q] = trees[q]
         /\ stranded' = IF trees'[p] # NoTree THEN stranded \union {p} ELSE stranded \ {p}
         /\ litter' \subseteq litter
         /\ (trees[p] # NoTree /\ Robs(d, trees[p].maker)) \/ robbed' = robbed
         /\ UNCHANGED <<row, halfway, dropped, spawn, clone, disk, made, tips, head, dirty, shut,
                        commits,
                        pushed, moves, lost, wiped, excused>>
<1> DEFINE p == WorkPath(Rec(d))
           f == Rec(d).folder
           Kept(gone) == [q \in Paths |->
                IF q = p /\ gone /\ trees[q] # NoTree THEN [trees[q] EXCEPT !.there = FALSE]
                ELSE trees[q]]
<1>1. /\ del[d].at = "tree" /\ DelGoes(d, "branch") /\ Rec(d).uses_worktree
      /\ UNCHANGED <<row, halfway, dropped, spawn, clone, disk, made, tips, head, dirty, shut,
                     commits,
                     pushed, moves, lost, wiped, excused>>
  BY DEF FallsBack, DelAt
<1>2. PICK gone \in BOOLEAN :
        /\ trees' = [q \in Paths |-> IF GitRuns(f) /\ q[1] = f /\ Kept(gone)[q] # NoTree
                                          /\ ~Kept(gone)[q].there
                                     THEN NoTree ELSE Kept(gone)[q]]
        /\ litter' = IF gone THEN litter \ {p} ELSE litter
        /\ stranded' = IF trees'[p] # NoTree THEN stranded \union {p} ELSE stranded \ {p}
        /\ IF gone /\ trees[p] # NoTree THEN Robs(d, trees[p].maker) ELSE UNCHANGED robbed
  BY DEF FallsBack
<1>3. p \in Paths
  BY <1>1, JobFacts
<1>4. trees \in [Paths -> Tree \union {NoTree}]
  BY DEF Types, TreeTypes
<1> HIDE DEF p, f
<1>5. ASSUME NEW q \in Paths
      PROVE  /\ Kept(gone)[q] \in Tree \union {NoTree}
             /\ Kept(gone)[q] # NoTree => trees[q] # NoTree /\ Kept(gone)[q].maker = trees[q].maker
             /\ q # p => Kept(gone)[q] = trees[q]
  <2>1. trees[q] \in Tree => /\ [trees[q] EXCEPT !.there = FALSE] \in Tree
                             /\ [trees[q] EXCEPT !.there = FALSE].maker = trees[q].maker
    BY DEF Tree
  <2>2. QED
    BY <1>4, <2>1
<1> HIDE DEF Kept
<1>6. ASSUME NEW q \in Paths
      PROVE  /\ trees'[q] \in {NoTree, Kept(gone)[q]}
             /\ Kept(gone)[q] = NoTree \/ Kept(gone)[q].there => trees'[q] = Kept(gone)[q]
  BY <1>2
<1>7. trees' \in [Paths -> Tree \union {NoTree}]
  BY <1>2, <1>5
<1>8. /\ del' \in [Deletes -> Job \union {Idle}] /\ \A e \in Deletes : SameJob(e)
      /\ del'[d].at = "branch" /\ \A e \in Deletes : e # d => del'[e] = del[e]
  BY <1>1, DelGoesFacts DEF SameJob, Rec
<1>9. \A q \in Paths : trees'[q] # NoTree =>
        trees[q] # NoTree /\ trees'[q].maker = trees[q].maker
  BY <1>5, <1>6
<1>10. \A q \in Paths : q # p /\ trees[q] # NoTree /\ trees[q].there => trees'[q] = trees[q]
  BY <1>5, <1>6
<1>11. /\ stranded' = IF trees'[p] # NoTree THEN stranded \union {p} ELSE stranded \ {p}
       /\ litter' \subseteq litter
       /\ (trees[p] # NoTree /\ Robs(d, trees[p].maker)) \/ robbed' = robbed
  BY <1>2
<1>12. QED
  BY <1>1, <1>3, <1>7, <1>8, <1>9, <1>10, <1>11 DEF p

(* The branch goes, or the delete goes on without.                         *)
DropsIt(d) ==
  LET f == Rec(d).folder
      b == Rec(d).branch
  IN /\ Rec(d).branch_is_new /\ b = BranchName(Rec(d).slug) /\ b \in Branches /\ f \in Folders
     /\ GitRuns(f) /\ made[f][b] # Nobody /\ head[f] # b
     /\ del[d].force \/ Merged(d)
     /\ made' = [made EXCEPT ![f][b] = Nobody] /\ tips' = [tips EXCEPT ![f][b] = {}]
     /\ Robs(d, made[f][b])
     /\ lost' = (lost \/ (~del[d].force /\
                   \E c \in tips[f][b] \ pushed : \A o \in Branches \ {b} : c \notin tips[f][o]))

LEMMA DropsBranchFacts ==
  ASSUME Types, NEW d \in Deletes, DropsBranch(d)
  PROVE  /\ del' \in [Deletes -> Job \union {Idle}] /\ \A e \in Deletes : SameJob(e)
         /\ del'[d].at = "row" /\ del[d].at = "branch"
         /\ \A e \in Deletes : e # d => del'[e] = del[e]
         /\ DropsIt(d) \/ UNCHANGED <<made, tips, robbed, lost>>
         /\ UNCHANGED <<rowVars, spawn, clone, disk, head, dirty, trees, litter, shut, commits,
                        pushed, moves, wiped, excused>>
<1>1. /\ del[d].at = "branch" /\ DelGoes(d, "row")
      /\ UNCHANGED <<rowVars, spawn, clone, disk, head, dirty, trees, litter, shut, commits,
                     pushed, moves, wiped, excused>>
  BY DEF DropsBranch, DelAt, BranchKept
<1>2. /\ del' \in [Deletes -> Job \union {Idle}] /\ \A e \in Deletes : SameJob(e)
      /\ del'[d].at = "row" /\ \A e \in Deletes : e # d => del'[e] = del[e]
  BY <1>1, DelGoesFacts DEF SameJob, Rec
<1>3. Sound(Rec(d)) /\ Rec(d).folder \in Folders /\ Rec(d).slug \in Slugs
  BY <1>1, JobFacts
<1>4. DropsIt(d) \/ UNCHANGED <<made, tips, robbed, lost>>
  <2> DEFINE f == Rec(d).folder
             b == Rec(d).branch
  <2>1. CASE MayDrop(d) /\ GitRuns(f) /\ Exists(f, b) /\ ~CheckedOut(f, b) /\ (del[d].force \/ Merged(d))
    <3>1. Rec(d).branch_is_new /\ b = BranchName(Rec(d).slug)
      BY <1>3, <2>1 DEF MayDrop, Sound
    <3>2. made[f][b] # Nobody /\ b \in Branches /\ head[f] # b
      BY <2>1 DEF Exists, CheckedOut
    <3>3. QED
      BY <1>3, <2>1, <3>1, <3>2 DEF DropsBranch, DropsIt
  <2>2. CASE ~(MayDrop(d) /\ GitRuns(f) /\ Exists(f, b) /\ ~CheckedOut(f, b)
               /\ (del[d].force \/ Merged(d)))
    BY <2>2 DEF DropsBranch
  <2>3. QED
    BY <2>1, <2>2
<1>5. QED
  BY <1>1, <1>2, <1>4

LEMMA DropsItTyped ==
  ASSUME Types, NEW d \in Deletes, DropsIt(d)
  PROVE  LET f == Rec(d).folder
             b == Rec(d).branch
         IN /\ made' \in [Folders -> [Branches -> Agents \union {Nobody, Other}]]
            /\ tips' \in [Folders -> [Branches -> SUBSET Commits]]
            /\ \A g \in Folders, c \in Branches :
                 made'[g][c] = IF g = f /\ c = b THEN Nobody ELSE made[g][c]
            /\ made[f][b] \in Agents \union {Other}
<1> DEFINE f == Rec(d).folder
           b == Rec(d).branch
<1>1. /\ f \in Folders /\ b \in Branches /\ made[f][b] # Nobody
      /\ made' = [made EXCEPT ![f][b] = Nobody] /\ tips' = [tips EXCEPT ![f][b] = {}]
  BY DEF DropsIt
<1> HIDE DEF f, b
<1>2. /\ made \in [Folders -> [Branches -> Agents \union {Nobody, Other}]]
      /\ tips \in [Folders -> [Branches -> SUBSET Commits]]
  BY DEF Types, BranchTypes
<1>3. tips' \in [Folders -> [Branches -> SUBSET Commits]]
  BY <1>1, <1>2
<1>4. /\ made' \in [Folders -> [Branches -> Agents \union {Nobody, Other}]]
      /\ \A g \in Folders, c \in Branches :
           made'[g][c] = IF g = f /\ c = b THEN Nobody ELSE made[g][c]
  BY <1>1, <1>2
<1>5. QED
  BY <1>1, <1>2, <1>3, <1>4 DEF f, b

(* Who is robbed.                                                          *)
LEMMA RobsFacts ==
  ASSUME Types, NEW d \in Deletes, del[d].at # "idle",
         NEW m \in Agents \union {Other}, Robs(d, m)
  PROVE  /\ robbed' \subseteq Agents \union {Other}
         /\ robbed' # robbed => m # del[d].agent /\ (m = Other \/ row[m] # NoRow \/ SpawnAt(m, "prepared"))
BY DEF Robs, Types, HistTypes

LEMMA DropsRowFacts ==
  ASSUME Types, NEW d \in Deletes, DropsRow(d)
  PROVE  /\ del' \in [Deletes -> Job \union {Idle}] /\ \A e \in Deletes : SameJob(e)
         /\ del'[d].at = "idle" /\ del[d].at = "row" /\ del[d].agent \in Agents
         /\ \A e \in Deletes : e # d => del'[e] = del[e]
         /\ row' \in [Agents -> Row \union {NoRow}] /\ row'[del[d].agent] = NoRow
         /\ \A a \in Agents : a # del[d].agent => row'[a] = row[a]
         /\ UNCHANGED <<stranded, halfway, dropped, spawn, clone, disk, gitVars, seenVars>>
<1>1. /\ del[d].at = "row" /\ DelEnds(d) /\ row' = [row EXCEPT ![del[d].agent] = NoRow]
      /\ UNCHANGED <<stranded, halfway, dropped, spawn, clone, disk, gitVars, seenVars>>
  BY DEF DropsRow, DelAt
<1>2. del[d].agent \in Agents /\ row \in [Agents -> Row \union {NoRow}]
  BY <1>1, JobFacts DEF Types, RowTypes
<1>3. /\ del' \in [Deletes -> Job \union {Idle}] /\ \A e \in Deletes : SameJob(e)
      /\ del'[d].at = "idle" /\ \A e \in Deletes : e # d => del'[e] = del[e]
  BY <1>1, DelEndsFacts DEF SameJob, Rec
<1>4. QED
  BY <1>1, <1>2, <1>3

LEMMA DeleteDroppedFacts ==
  ASSUME Types, NEW d \in Deletes, DeleteDropped(d)
  PROVE  /\ del' \in [Deletes -> Job \union {Idle}] /\ \A e \in Deletes : SameJob(e)
         /\ del'[d].at = "idle" /\ del[d].at # "idle" /\ del[d].agent \in Agents
         /\ \A e \in Deletes : e # d => del'[e] = del[e]
         /\ halfway' = halfway \union Half(d) /\ dropped' = dropped \union Half(d)
         /\ UNCHANGED <<row, stranded, spawn, clone, disk, gitVars, histVars>>
         /\ moves' \in 0..MaxMoves
<1>1. /\ del[d].at # "idle" /\ DelEnds(d)
      /\ halfway' = halfway \union Half(d) /\ dropped' = dropped \union Half(d)
      /\ UNCHANGED <<row, stranded, spawn, clone, disk, gitVars, histVars>>
  BY DEF DeleteDropped, DelAt
<1>2. del[d].agent \in Agents
  BY <1>1, JobFacts
<1>3. /\ del' \in [Deletes -> Job \union {Idle}] /\ \A e \in Deletes : SameJob(e)
      /\ del'[d].at = "idle" /\ \A e \in Deletes : e # d => del'[e] = del[e]
  BY <1>1, DelEndsFacts DEF SameJob, Rec
<1>4. moves' \in 0..MaxMoves
  BY WorkspaceAssumption DEF DeleteDropped, Moves, Types, WorkTypes
<1>5. QED
  BY <1>1, <1>2, <1>3, <1>4

LEMMA DeletingTypes == ASSUME Types, NEW d \in Deletes, Deleting(d) PROVE Types'
<1>1. CASE Reads(d)
  <2>1. UNCHANGED <<rowVars, spawn, clone, disk, gitVars, seenVars>> /\ DelTypes'
    BY <1>1, ReadsFacts, DelTyped DEF rowVars
  <2>2. RowTypes' /\ SpawnTypes'
    BY <2>1, RowsGoTyped DEF rowVars, Types, RowTypes
  <2>3. QED
    BY <2>1, <2>2 DEF Types, CloneTypes, TreeTypes, BranchTypes, WorkTypes, HistTypes, SpawnAt,
                      rowVars, gitVars, seenVars, histVars
<1>2. CASE \E a \in Agents, force, drop \in BOOLEAN : DeleteBegins(d, a, force, drop)
  <2>1. PICK a \in Agents, force, drop \in BOOLEAN : DeleteBegins(d, a, force, drop)
    BY <1>2
  <2>2. /\ del' \in [Deletes -> Job \union {Idle}]
        /\ del'[d].agent = a /\ Rec(d)' = row[a]
        /\ \A e \in Deletes : e # d => del'[e] = del[e]
        /\ Sound(row[a]) /\ SpawnAt(a, "done")
        /\ UNCHANGED <<rowVars, spawn, clone, disk, gitVars, lost, robbed, wiped>>
        /\ moves' \in 0..MaxMoves
    BY <2>1, DeleteBeginsFacts
  <2>3. RowTypes' /\ SpawnTypes'
    BY <2>2, RowsGoTyped DEF rowVars, Types, RowTypes
  <2>4. DelTypes'
    <3> SUFFICES ASSUME NEW e \in Deletes, del'[e].at # "idle"
                 PROVE  /\ Sound(Rec(e))' /\ SpawnAt(del[e].agent, "done")'
                        /\ row'[del'[e].agent] \in {NoRow, Rec(e)'}
      BY <2>2 DEF DelTypes
    <3>1. CASE e = d
      BY <2>2, <3>1 DEF Sound, SpawnAt, rowVars
    <3>2. CASE e # d
      <4>1. del'[e] = del[e] /\ Rec(e)' = Rec(e)
        BY <2>2, <3>2 DEF Rec
      <4>2. QED
        BY <2>2, <4>1 DEF Types, DelTypes, Sound, SpawnAt, rowVars
    <3>3. QED
      BY <3>1, <3>2
  <2>5. (excused \subseteq {"deletes", "clones"})'
    BY <2>1 DEF DeleteBegins, Types, HistTypes
  <2>6. QED
    BY <2>2, <2>3, <2>4, <2>5 DEF Types, CloneTypes, TreeTypes, BranchTypes, WorkTypes, HistTypes,
                                  SpawnAt, rowVars, gitVars
<1>3. CASE RemovesTree(d)
  <2> DEFINE p == WorkPath(Rec(d))
  <2>1. /\ del' \in [Deletes -> Job \union {Idle}] /\ \A e \in Deletes : SameJob(e)
        /\ del[d].at # "idle" /\ trees[p].maker \in Agents
        /\ trees' \in [Paths -> Tree \union {NoTree}] /\ trees'[p] = NoTree
        /\ \A q \in Paths : q # p => trees'[q] = trees[q]
        /\ stranded' \in {stranded, stranded \ {p}} /\ Robs(d, trees[p].maker)
        /\ UNCHANGED <<row, halfway, dropped, spawn, clone, disk, made, tips, head, dirty, litter,
                       shut,
                       commits, pushed, moves, wiped, excused>>
    BY <1>3, RemovesTreeFacts
  <2>2. DelTypes' /\ RowTypes' /\ SpawnTypes'
    BY <2>1, DelTyped, RowsGoTyped DEF Types, RowTypes
  <2>3. robbed' \subseteq Agents \union {Other}
    BY <2>1, RobsFacts
  <2>4. lost' \in BOOLEAN
    BY <1>3 DEF RemovesTree
  <2> HIDE DEF p
  <2>5. TreeTypes'
    BY <2>1 DEF Types, TreeTypes
  <2>6. HistTypes'
    BY <2>1, <2>3, <2>4 DEF Types, HistTypes, SpawnAt
  <2>7. QED
    BY <2>1, <2>2, <2>5, <2>6 DEF Types, CloneTypes, BranchTypes, WorkTypes
<1>4. CASE FallsBack(d)
  <2> DEFINE p == WorkPath(Rec(d))
  <2>1. /\ del' \in [Deletes -> Job \union {Idle}] /\ \A e \in Deletes : SameJob(e)
        /\ del[d].at # "idle" /\ p \in Paths /\ trees' \in [Paths -> Tree \union {NoTree}]
        /\ \A q \in Paths : trees'[q] # NoTree => trees[q] # NoTree
        /\ stranded' = IF trees'[p] # NoTree THEN stranded \union {p} ELSE stranded \ {p}
        /\ litter' \subseteq litter
        /\ (trees[p] # NoTree /\ Robs(d, trees[p].maker)) \/ robbed' = robbed
        /\ UNCHANGED <<row, halfway, dropped, spawn, clone, disk, made, tips, head, dirty, shut,
                       commits,
                       pushed, moves, lost, wiped, excused>>
    BY <1>4, FallsBackFacts
  <2> HIDE DEF p
  <2>2. DelTypes' /\ RowTypes' /\ SpawnTypes'
    BY <2>1, DelTyped, RowsGoTyped DEF Types, RowTypes
  <2>3. robbed' \subseteq Agents \union {Other}
    <3>1. trees[p] # NoTree => trees[p].maker \in Agents
      BY <2>1 DEF Types, TreeTypes, Tree
    <3>2. QED
      BY <2>1, <3>1, RobsFacts DEF Types, HistTypes
  <2>4. TreeTypes'
    BY <2>1 DEF Types, TreeTypes
  <2>5. HistTypes'
    BY <2>1, <2>3 DEF Types, HistTypes, SpawnAt
  <2>6. QED
    BY <2>1, <2>2, <2>4, <2>5 DEF Types, CloneTypes, BranchTypes, WorkTypes
<1>5. CASE DropsBranch(d)
  <2>1. /\ del' \in [Deletes -> Job \union {Idle}] /\ \A e \in Deletes : SameJob(e)
        /\ del[d].at # "idle" /\ (DropsIt(d) \/ UNCHANGED <<made, tips, robbed, lost>>)
        /\ UNCHANGED <<rowVars, spawn, clone, disk, head, dirty, trees, litter, shut, commits,
                       pushed, moves, wiped, excused>>
    BY <1>5, DropsBranchFacts
  <2>2. DelTypes' /\ RowTypes' /\ SpawnTypes'
    BY <2>1, DelTyped, RowsGoTyped DEF Types, RowTypes, rowVars
  <2>3. BranchTypes'
    BY <2>1, DropsItTyped DEF Types, BranchTypes
  <2>4. robbed' \subseteq Agents \union {Other}
    BY <2>1, DropsItTyped, RobsFacts DEF DropsIt, Types, HistTypes
  <2>5. lost' \in BOOLEAN
    BY <2>1 DEF DropsIt, Types, HistTypes
  <2>6. HistTypes'
    BY <2>1, <2>4, <2>5 DEF Types, HistTypes, SpawnAt, rowVars
  <2>7. QED
    BY <2>1, <2>2, <2>3, <2>6 DEF Types, CloneTypes, TreeTypes, WorkTypes
<1>6. CASE DropsRow(d)
  <2>1. /\ del' \in [Deletes -> Job \union {Idle}] /\ \A e \in Deletes : SameJob(e)
        /\ row' \in [Agents -> Row \union {NoRow}]
        /\ \A a \in Agents : row'[a] \in {NoRow, row[a]}
        /\ UNCHANGED <<stranded, halfway, dropped, spawn, clone, disk, gitVars, seenVars>>
    BY <1>6, DropsRowFacts
  <2>2. DelTypes' /\ RowTypes' /\ SpawnTypes'
    BY <2>1, DelTyped, RowsGoTyped
  <2>3. QED
    BY <2>1, <2>2 DEF Types, CloneTypes, TreeTypes, BranchTypes, WorkTypes, HistTypes, SpawnAt,
                      gitVars, seenVars, histVars
<1>7. CASE DeleteDropped(d)
  <2>1. /\ del' \in [Deletes -> Job \union {Idle}] /\ \A e \in Deletes : SameJob(e)
        /\ del[d].at # "idle"
        /\ halfway' = halfway \union Half(d) /\ dropped' = dropped \union Half(d)
        /\ UNCHANGED <<row, stranded, spawn, clone, disk, gitVars, histVars>>
        /\ moves' \in 0..MaxMoves
    BY <1>7, DeleteDroppedFacts
  <2>2. DelTypes' /\ RowTypes' /\ SpawnTypes'
    BY <2>1, DelTyped, RowsGoTyped DEF Types, RowTypes
  <2>3. Half(d) \subseteq {a \in Agents : SpawnAt(a, "done")}
    BY <2>1, JobFacts DEF Half
  <2>4. HistTypes'
    BY <2>1, <2>3 DEF Types, HistTypes, SpawnAt, histVars
  <2>5. QED
    BY <2>1, <2>2, <2>4 DEF Types, CloneTypes, TreeTypes, BranchTypes, WorkTypes, gitVars
<1>8. QED
  BY <1>1, <1>2, <1>3, <1>4, <1>5, <1>6, <1>7 DEF Deleting, Reads

LEMMA CloningTypes == ASSUME Types, NEW c \in Clones, Cloning(c) PROVE Types'
<1> USE WorkspaceAssumption
<1>1. clone' \in [Clones -> {"idle", "checked", "running", "failed", "done"}]
  BY DEF Cloning, CloneChecks, CloneRuns, CloneLands, CloneFails, CloneCleans, CloneLeaves,
         CloneGoes, Types,
         CloneTypes
<1>2. disk' \in [Folders -> {"absent", "partial", "there"}]
  BY DEF Cloning, CloneChecks, CloneRuns, CloneLands, CloneFails, CloneCleans, CloneLeaves, Types,
         CloneTypes
<1>3. UNCHANGED <<rowVars, spawn, del, shut, commits, pushed, lost, robbed>>
  BY DEF Cloning, CloneChecks, CloneRuns, CloneLands, CloneFails, CloneCleans, CloneLeaves,
         gitVars, seenVars,
         histVars
<1>4. RowTypes' /\ SpawnTypes' /\ DelTypes'
  BY <1>3 DEF Types, RowTypes, SpawnTypes, DelTypes, rowVars, Rows, SpawnAt, Rec
<1>5. TreeTypes'
  <2>1. CASE CloneCleans(c)
    BY <2>1 DEF CloneCleans, Types, TreeTypes
  <2>2. CASE ~CloneCleans(c)
    BY <2>2 DEF Cloning, CloneChecks, CloneRuns, CloneLands, CloneFails, CloneLeaves, Types,
                TreeTypes, gitVars
  <2>3. QED
    BY <2>1, <2>2
<1>6. BranchTypes'
  <2>1. CASE CloneCleans(c)
    BY <2>1, BranchFacts DEF CloneCleans, Types, BranchTypes, NoTips
  <2>2. CASE CloneLands(c)
    BY <2>2, BranchFacts DEF CloneLands, Types, BranchTypes
  <2>3. CASE ~CloneCleans(c) /\ ~CloneLands(c)
    BY <2>3 DEF Cloning, CloneChecks, CloneRuns, CloneFails, CloneLeaves, Types, BranchTypes,
                gitVars
  <2>4. QED
    BY <2>1, <2>2, <2>3
<1>7. WorkTypes'
  <2>1. dirty' \in [Folders -> BOOLEAN]
    BY DEF Cloning, CloneChecks, CloneRuns, CloneLands, CloneFails, CloneCleans, CloneLeaves,
           gitVars, Types,
           WorkTypes
  <2>2. moves' \in 0..MaxMoves
    BY DEF Cloning, CloneChecks, CloneRuns, CloneLands, CloneFails, CloneCleans, CloneLeaves,
           Moves, seenVars,
           Types, WorkTypes
  <2>3. QED
    BY <1>3, <2>1, <2>2 DEF Types, WorkTypes
<1>8. HistTypes'
  <2>1. wiped' \in BOOLEAN
    BY DEF Cloning, CloneChecks, CloneRuns, CloneLands, CloneFails, CloneCleans, CloneLeaves,
           seenVars, histVars,
           Types, HistTypes
  <2>2. excused' \subseteq {"deletes", "clones"}
    BY DEF Cloning, CloneChecks, CloneRuns, CloneLands, CloneFails, CloneCleans, CloneLeaves,
           seenVars, histVars,
           Types, HistTypes
  <2>3. QED
    BY <1>3, <2>1, <2>2 DEF Types, HistTypes, rowVars, SpawnAt
<1>9. QED
  BY <1>1, <1>2, <1>4, <1>5, <1>6, <1>7, <1>8 DEF Types, CloneTypes

(* Work in the worktrees leaves them where and whose they were.            *)
TreesStand ==
  \A p \in Paths : /\ (trees'[p] = NoTree) <=> (trees[p] = NoTree)
                   /\ trees[p] # NoTree => /\ trees'[p].maker = trees[p].maker
                                           /\ trees'[p].branch = trees[p].branch
                                           /\ trees'[p].there = trees[p].there
LEMMA EditsATree ==
  ASSUME Types, NEW p \in Paths, trees[p] # NoTree, NEW v \in BOOLEAN,
         trees' = [trees EXCEPT ![p].dirty = v]
  PROVE  TreesStand /\ trees' \in [Paths -> Tree \union {NoTree}]
<1>1. trees \in [Paths -> Tree \union {NoTree}] /\ trees[p] \in Tree
  BY DEF Types, TreeTypes
<1> DEFINE t == [trees[p] EXCEPT !.dirty = v]
<1>2. t \in Tree /\ t.maker = trees[p].maker /\ t.branch = trees[p].branch /\ t.there = trees[p].there
  BY <1>1 DEF Tree
<1>3. trees'[p] = t /\ \A q \in Paths : q # p => trees'[q] = trees[q]
  BY <1>1
<1>4. trees' \in [Paths -> Tree \union {NoTree}]
  BY <1>1, <1>2
<1> HIDE DEF t
<1>5. QED
  BY <1>2, <1>3, <1>4, NoTreeIsNone DEF TreesStand

Works == Edits \/ Committed \/ Pushes \/ Switches \/ Shuts

LEMMA WorksFacts ==
  ASSUME Types, Works
  PROVE  /\ TreesStand /\ TreeTypes'
         /\ UNCHANGED <<rowVars, spawn, del, clone, disk, made, litter, histVars>>
<1>1. UNCHANGED <<rowVars, spawn, del, clone, disk, made, litter, histVars>>
  BY DEF Works, Edits, Committed, Pushes, Switches, Shuts
<1>2. TreesStand /\ trees' \in [Paths -> Tree \union {NoTree}]
  <2>1. CASE trees' = trees
    BY <2>1 DEF TreesStand, Types, TreeTypes
  <2>2. CASE \E p \in Paths : InTree(p) /\ trees' = [trees EXCEPT ![p].dirty = TRUE]
    BY <2>2, EditsATree DEF InTree
  <2>3. CASE \E p \in Paths : InTree(p) /\ trees' = [trees EXCEPT ![p].dirty = FALSE]
    BY <2>3, EditsATree DEF InTree
  <2>4. QED
    BY <2>1, <2>2, <2>3 DEF Works, Edits, Committed, Pushes, Switches, Shuts
<1>3. QED
  BY <1>1, <1>2 DEF TreesStand, Types, TreeTypes

LEMMA WorksTypes == ASSUME Types, Works PROVE Types'
<1> USE WorkspaceAssumption
<1>1. TreeTypes' /\ UNCHANGED <<rowVars, spawn, del, clone, disk, made, litter, histVars>>
  BY WorksFacts
<1>2. RowTypes' /\ SpawnTypes' /\ DelTypes'
  BY <1>1 DEF Types, RowTypes, SpawnTypes, DelTypes, rowVars, Rows, SpawnAt, Rec
<1>3. moves' \in 0..MaxMoves
  BY DEF Works, Edits, Committed, Pushes, Switches, Shuts, Moves, Types, WorkTypes
<1>4. ASSUME NEW f \in Folders, NEW b \in Branches, CommitsTo(f, b)
      PROVE  /\ tips' \in [Folders -> [Branches -> SUBSET Commits]]
             /\ commits' \in 0..MaxCommits
  <2>1. commits + 1 \in Commits /\ commits' \in 0..MaxCommits
    BY <1>4 DEF CommitsTo, Commits, Types, WorkTypes
  <2>2. tips \in [Folders -> [Branches -> SUBSET Commits]]
    BY DEF Types, BranchTypes
  <2>3. tips[f][b] \union {commits + 1} \in SUBSET Commits
    BY <2>1, <2>2
  <2>4. QED
    BY <1>4, <2>1, <2>2, <2>3 DEF CommitsTo
<1>5. CASE Committed
  <2>1. \E f \in Folders, b \in Branches : CommitsTo(f, b)
    <3>1. \A p \in Paths : InTree(p) => trees[p].branch \in Branches /\ p[1] \in Folders
      BY DEF InTree, Types, TreeTypes, Tree, Paths
    <3>2. \A f \in Folders : head[f] \in Branches
      BY DEF Types, BranchTypes
    <3>3. QED
      BY <1>5, <3>1, <3>2 DEF Committed
  <2>2. dirty' \in [Folders -> BOOLEAN] /\ UNCHANGED <<head, shut, pushed>>
    BY <1>5 DEF Committed, Types, WorkTypes
  <2>3. BranchTypes' /\ WorkTypes'
    BY <1>1, <1>3, <1>4, <2>1, <2>2 DEF Types, BranchTypes, WorkTypes
  <2>4. QED
    BY <1>1, <1>2, <2>3 DEF Types, CloneTypes, HistTypes, rowVars, histVars, SpawnAt
<1>6. CASE Works /\ ~Committed
  <2>1. UNCHANGED <<tips, commits>>
    BY <1>6 DEF Works, Edits, Pushes, Switches, Shuts
  <2>2. head' \in [Folders -> Branches]
    BY <1>6 DEF Works, Edits, Pushes, Switches, Shuts, Types, BranchTypes
  <2>3. dirty' \in [Folders -> BOOLEAN] /\ shut' \subseteq Folders
    BY <1>6 DEF Works, Edits, Pushes, Switches, Shuts, Types, WorkTypes
  <2>4. pushed' \subseteq Commits
    BY <1>6 DEF Works, Edits, Pushes, Switches, Shuts, Types, WorkTypes, BranchTypes
  <2>5. BranchTypes' /\ WorkTypes'
    BY <1>1, <1>3, <2>1, <2>2, <2>3, <2>4 DEF Types, BranchTypes, WorkTypes
  <2>6. QED
    BY <1>1, <1>2, <2>5 DEF Types, CloneTypes, HistTypes, rowVars, histVars, SpawnAt
<1>7. QED
  BY <1>5, <1>6

LEMMA OthersBranchFacts ==
  ASSUME Types, OthersBranch
  PROVE  \E f \in Folders, b \in Branches :
           /\ disk[f] = "there" /\ made[f][b] = Nobody
           /\ \A a \in Rows : row[a].folder = f => row[a].branch # b
           /\ \A g \in Folders, c \in Branches :
                made'[g][c] = IF g = f /\ c = b THEN Other ELSE made[g][c]
           /\ BranchTypes'
           /\ UNCHANGED <<rowVars, spawn, del, clone, disk, head, dirty, trees, litter, shut,
                          commits, pushed, histVars>>
<1>1. PICK f \in Folders, b \in Branches :
        /\ disk[f] = "there" /\ ~Exists(f, b)
        /\ \A a \in Rows : row[a].folder = f => row[a].branch # b
        /\ made' = [made EXCEPT ![f][b] = Other]
        /\ tips' = [tips EXCEPT ![f][b] = tips[f][head[f]]]
  BY DEF OthersBranch
<1>2. UNCHANGED <<rowVars, spawn, del, clone, disk, head, dirty, trees, litter, shut, commits,
                  pushed,
                  histVars>>
  BY DEF OthersBranch
<1>3. /\ made \in [Folders -> [Branches -> Agents \union {Nobody, Other}]]
      /\ tips \in [Folders -> [Branches -> SUBSET Commits]] /\ head \in [Folders -> Branches]
  BY DEF Types, BranchTypes
<1>4. made[f][b] = Nobody
  BY <1>1 DEF Exists
<1>5. BranchTypes'
  BY <1>1, <1>2, <1>3 DEF BranchTypes
<1>6. \A g \in Folders, c \in Branches :
        made'[g][c] = IF g = f /\ c = b THEN Other ELSE made[g][c]
  BY <1>1, <1>3
<1>7. QED
  BY <1>1, <1>2, <1>4, <1>5, <1>6

LEMMA ServerDiesFacts ==
  ASSUME Types, ServerDies
  PROVE  /\ DOMAIN spawn' = Agents /\ dropped' = {}
         /\ \A a \in Agents : spawn'[a] = IF SpawnAt(a, "idle") THEN spawn[a] ELSE [at |-> "done"]
         /\ del' = [d \in Deletes |-> Idle]
         /\ \A c \in Clones : clone'[c] \in {"idle", "done"}
         /\ stranded \subseteq stranded'
         /\ \A a \in Agents : SpawnAt(a, "prepared") /\ spawn[a].row.uses_worktree =>
              WorkPath(spawn[a].row) \in stranded'
         /\ halfway \subseteq halfway'
         /\ \A d \in Deletes : del[d].at \in {"branch", "row"} => del[d].agent \in halfway'
         /\ \A a \in halfway' \ halfway : \E d \in Deletes : del[d].at # "idle" /\ del[d].agent = a
         /\ UNCHANGED <<row, disk, gitVars, histVars>>
<1>1. /\ spawn' = [a \in Agents |-> IF SpawnAt(a, "idle") THEN spawn[a] ELSE [at |-> "done"]]
      /\ del' = [d \in Deletes |-> Idle]
      /\ clone' = [c \in Clones |-> IF clone[c] = "idle" THEN "idle" ELSE "done"]
      /\ UNCHANGED <<row, disk, gitVars, histVars>>
  BY DEF ServerDies, Idle
<1>2. stranded' = stranded \union
        {WorkPath(spawn[a].row) : a \in {b \in Agents : SpawnAt(b, "prepared")
                                                        /\ spawn[b].row.uses_worktree}}
  BY DEF ServerDies
<1>3. halfway' = halfway \union UNION {Half(d) : d \in Deletes} /\ dropped' = {}
  BY DEF ServerDies
<1>4. \A a \in halfway' \ halfway : \E d \in Deletes : del[d].at # "idle" /\ del[d].agent = a
  BY <1>3 DEF Half
<1>5. \A d \in Deletes : del[d].at \in {"branch", "row"} => del[d].agent \in halfway'
  BY <1>3 DEF Half
<1>6. \A a \in Agents : SpawnAt(a, "prepared") /\ spawn[a].row.uses_worktree =>
        WorkPath(spawn[a].row) \in stranded'
  BY <1>2
<1>7. \A c \in Clones : clone'[c] \in {"idle", "done"}
  BY <1>1
<1>8. QED
  BY <1>1, <1>2, <1>3, <1>4, <1>5, <1>6, <1>7

LEMMA WorldTypes == ASSUME Types, World PROVE Types'
<1>1. CASE OthersBranch
  <2>1. BranchTypes' /\ UNCHANGED <<rowVars, spawn, del, clone, disk, head, dirty, trees, litter,
                                    shut, commits, pushed, histVars>>
    BY <1>1, OthersBranchFacts
  <2>2. moves' \in 0..MaxMoves
    BY <1>1, WorkspaceAssumption DEF OthersBranch, Moves, Types, WorkTypes
  <2>3. RowTypes' /\ SpawnTypes' /\ DelTypes'
    BY <2>1 DEF Types, RowTypes, SpawnTypes, DelTypes, rowVars, Rows, SpawnAt, Rec
  <2>4. QED
    BY <2>1, <2>2, <2>3 DEF Types, CloneTypes, TreeTypes, WorkTypes, HistTypes, rowVars, histVars,
                            SpawnAt
<1>2. CASE ServerDies
  <2>1. /\ DOMAIN spawn' = Agents /\ dropped' = {}
        /\ \A a \in Agents : spawn'[a] = IF SpawnAt(a, "idle") THEN spawn[a] ELSE [at |-> "done"]
        /\ del' = [d \in Deletes |-> Idle]
        /\ \A a \in halfway' \ halfway : \E d \in Deletes : del[d].at # "idle" /\ del[d].agent = a
        /\ UNCHANGED <<row, disk, gitVars, histVars>>
    BY <1>2, ServerDiesFacts
  <2>2. \A a \in Agents : SpawnAt(a, "done") => SpawnAt(a, "done")'
    BY <2>1 DEF SpawnAt
  <2>3. RowTypes'
    BY <2>1, <2>2 DEF Types, RowTypes, Rows
  <2>4. SpawnTypes'
    <3> SUFFICES ASSUME NEW a \in Agents PROVE Well(spawn'[a])
      BY <2>1 DEF SpawnTypes, Well
    <3>1. CASE SpawnAt(a, "idle")
      BY <2>1, <3>1 DEF Types, SpawnTypes
    <3>2. CASE ~SpawnAt(a, "idle")
      BY <2>1, <3>2 DEF Well
    <3>3. QED
      BY <3>1, <3>2
  <2>5. DelTypes'
    BY <2>1 DEF DelTypes, Idle
  <2>6. CloneTypes'
    <3>1. clone' \in [Clones -> {"idle", "checked", "running", "failed", "done"}]
      BY <1>2 DEF ServerDies
    <3>2. QED
      BY <2>1, <3>1 DEF Types, CloneTypes
  <2>7. moves' \in 0..MaxMoves
    BY <1>2, WorkspaceAssumption DEF ServerDies, Moves, Types, WorkTypes
  <2>8. halfway' \subseteq {a \in Agents : SpawnAt(a, "done")'}
    <3>1. \A a \in halfway' \ halfway : a \in Agents /\ SpawnAt(a, "done")
      BY <2>1, JobFacts
    <3>2. QED
      BY <2>2, <3>1 DEF Types, HistTypes
  <2>9. stranded' \subseteq Paths
    <3>1. \A a \in Agents : SpawnAt(a, "prepared") => WorkPath(spawn[a].row) \in Paths
      BY SpawnFacts DEF SpawnAt
    <3>2. QED
      BY <1>2, <3>1 DEF ServerDies, Types, HistTypes
  <2>10. HistTypes'
    BY <2>1, <2>8, <2>9 DEF Types, HistTypes, histVars
  <2>11. QED
    BY <2>1, <2>3, <2>4, <2>5, <2>6, <2>7, <2>10 DEF Types, TreeTypes, BranchTypes, WorkTypes,
       gitVars
<1>3. QED
  BY <1>1, <1>2, WorksTypes DEF World, Works

LEMMA StutterTypes == ASSUME Types, UNCHANGED vars PROVE Types'
BY DEF Types, RowTypes, SpawnTypes, DelTypes, CloneTypes, TreeTypes, BranchTypes, WorkTypes,
       HistTypes,
       vars, rowVars, gitVars, seenVars, histVars, Rows, SpawnAt, Rec

LEMMA NextTypes == ASSUME Types, [Next]_vars PROVE Types'
BY SpawningTypes, DeletingTypes, CloningTypes, WorldTypes, StutterTypes DEF Next

--------------------------------------------------------------------------------
(* No work is lost: git refuses a worktree with changes to an unforced     *)
(* removal, and a branch whose commits neither a remote nor the branch     *)
(* checked out has.                                                        *)
LEMMA NothingLostKept == ASSUME Types, NothingLost, [Next]_vars PROVE NothingLost'
<1>1. ASSUME NEW d \in Deletes, RemovesTree(d) PROVE NothingLost'
  BY <1>1 DEF RemovesTree, GitRemoves, NothingLost
<1>2. ASSUME NEW d \in Deletes, DropsBranch(d) PROVE NothingLost'
  <2>1. CASE DropsIt(d)
    <3> DEFINE f == Rec(d).folder
               b == Rec(d).branch
    <3>1. head[f] \in Branches /\ head[f] # b
      BY <2>1 DEF DropsIt, Types, BranchTypes
    <3>2. del[d].force \/ tips[f][b] \subseteq pushed \/ tips[f][b] \subseteq tips[f][head[f]]
      BY <2>1 DEF DropsIt, Merged
    <3>3. lost' = (lost \/ (~del[d].force /\
                     \E c \in tips[f][b] \ pushed : \A o \in Branches \ {b} : c \notin tips[f][o]))
      BY <2>1 DEF DropsIt
    <3> HIDE DEF f, b
    <3>4. ~(~del[d].force /\
              \E c \in tips[f][b] \ pushed : \A o \in Branches \ {b} : c \notin tips[f][o])
      BY <3>1, <3>2
    <3>5. QED
      BY <3>3, <3>4 DEF NothingLost
  <2>2. CASE UNCHANGED <<made, tips, robbed, lost>>
    BY <2>2 DEF NothingLost
  <2>3. QED
    BY <1>2, <2>1, <2>2, DropsBranchFacts
<1>3. ASSUME NEW a \in Agents, Spawning(a) PROVE NothingLost'
  BY <1>3 DEF Spawning, SpawnBegins, PreparesNothing, ChoosesNames, MakesInPlace, MakesWorktree,
              SpawnFails, Inserts, InsertRefused, SpawnDropped, Strands, seenVars, histVars, NothingLost
<1>4. ASSUME NEW d \in Deletes, Deleting(d), ~RemovesTree(d), ~DropsBranch(d) PROVE NothingLost'
  BY <1>4 DEF Deleting, DeleteBegins, ReadsStatus, ReadsLog, NothingToRemove, RemovalRefused,
              FallsBack, DropsRow, DeleteDropped, seenVars, histVars, NothingLost
<1>5. ASSUME NEW c \in Clones, Cloning(c) PROVE NothingLost'
  BY <1>5 DEF Cloning, CloneChecks, CloneRuns, CloneLands, CloneFails, CloneCleans, CloneLeaves,
              seenVars, histVars,
              NothingLost
<1>6. CASE World
  BY <1>6 DEF World, Edits, Committed, Pushes, Switches, OthersBranch, Shuts, ServerDies, histVars,
              NothingLost
<1>7. CASE UNCHANGED vars
  BY <1>7 DEF vars, seenVars, histVars, NothingLost
<1>8. QED
  BY <1>1, <1>2, <1>3, <1>4, <1>5, <1>6, <1>7 DEF Next

--------------------------------------------------------------------------------
(* Clones.                                                                 *)

Cloned(c) == clone[c] \in {"checked", "running", "failed"}

(* A clone that is alone goes from an absent folder to its own.            *)
CloneInv ==
  "clones" \in excused \/
    /\ CloneIsKept
    /\ \A c, o \in Clones : Cloned(c) /\ Cloned(o) => c = o
    /\ \A c \in Clones : /\ clone[c] = "checked" => disk[Target] = "absent"
                         /\ clone[c] = "failed" => disk[Target] # "there"
(* Until one was wiped: one clone at most is running, and before it has    *)
(* landed there is nothing in the folder.                                  *)
DiskInv ==
  wiped \/
    /\ litter = {}
    /\ \A c, o \in Clones : clone[c] = "running" /\ clone[o] = "running" => c = o
    /\ \A c \in Clones : clone[c] = "running" => disk[Target] = "partial"
    /\ disk[Target] # "there" => /\ \A p \in Paths : p[1] = Target => trees[p] = NoTree
                                 /\ \A b \in Branches : made[Target][b] = Nobody

LEMMA InitClones == Init => CloneInv /\ DiskInv
BY WorkspaceAssumption DEF Init, CloneInv, DiskInv, Cloned, CloneIsKept, OnlyMain

(* Nothing grows where there is no folder yet.                             *)
LEMMA DiskKeeps ==
  ASSUME Types, DiskInv, UNCHANGED <<disk, wiped>>, litter' \subseteq litter,
         \A c \in Clones : clone'[c] = "running" => clone[c] = "running",
         disk[Target] # "there" =>
           /\ \A p \in Paths : p[1] = Target /\ trees[p] = NoTree => trees'[p] = NoTree
           /\ \A b \in Branches : made[Target][b] = Nobody => made'[Target][b] = Nobody
  PROVE  DiskInv'
BY DEF DiskInv

LEMMA CloningClones ==
  ASSUME Types, CloneInv, DiskInv, NEW c \in Clones, Cloning(c) PROVE CloneInv' /\ DiskInv'
<1>1. clone \in [Clones -> {"idle", "checked", "running", "failed", "done"}]
      /\ disk \in [Folders -> {"absent", "partial", "there"}] /\ Target \in Folders
  BY WorkspaceAssumption DEF Types, CloneTypes
<1>2. CASE CloneChecks(c)
  <2>1. clone'[c] = "checked" /\ (\A o \in Clones : o # c => clone'[o] = clone[o])
        /\ UNCHANGED <<disk, gitVars, wiped>> /\ disk[Target] = "absent" /\ clone[c] = "idle"
    BY <1>1, <1>2 DEF CloneChecks, CloneGoes, MayClone
  <2>2. excused \subseteq excused' /\ ("clones" \notin excused' => \A o \in Clones : ~Cloned(o))
    BY <1>2 DEF CloneChecks, Cloned
  <2>3. CloneInv'
    BY <2>1, <2>2 DEF CloneInv, CloneIsKept, Cloned
  <2>4. DiskInv'
    BY <2>1, DiskKeeps DEF gitVars
  <2>5. QED
    BY <2>3, <2>4
<1>3. CASE CloneRuns(c)
  <2>1. /\ clone[c] = "checked" /\ \A o \in Clones : o # c => clone'[o] = clone[o]
        /\ UNCHANGED <<gitVars, wiped, excused>>
        /\ \/ /\ disk[Target] = "absent" /\ clone'[c] = "running"
              /\ disk'[Target] = "partial"
           \/ disk[Target] # "absent" /\ clone'[c] = "failed" /\ disk' = disk
    BY <1>1, <1>3 DEF CloneRuns, CloneGoes, seenVars, histVars
  <2>2. CloneInv'
    BY <2>1 DEF CloneInv, CloneIsKept, Cloned
  <2>3. CASE disk' = disk
    <3>1. \A o \in Clones : clone'[o] = "running" => clone[o] = "running"
      BY <1>1, <1>3, <2>1, <2>3
    <3>2. UNCHANGED <<trees, made, litter, disk, wiped>>
      BY <2>1, <2>3 DEF gitVars
    <3>3. DiskInv'
      BY <3>1, <3>2 DEF DiskInv
    <3>4. QED
      BY <2>2, <3>3
  <2>4. CASE disk[Target] = "absent" /\ clone'[c] = "running" /\ disk'[Target] = "partial"
    <3> SUFFICES ASSUME ~wiped' PROVE DiskInv'
      BY <2>2 DEF DiskInv
    <3>1. ~wiped /\ UNCHANGED <<trees, made, litter>>
      BY <2>1 DEF gitVars
    <3>2. \A o \in Clones : clone[o] # "running"
      BY <2>4, <3>1 DEF DiskInv
    <3>3. \A o \in Clones : clone'[o] = "running" => o = c
      BY <2>1, <3>2
    <3>4. litter' = {} /\ (\A p \in Paths : p[1] = Target => trees'[p] = NoTree)
          /\ \A b \in Branches : made'[Target][b] = Nobody
      BY <2>4, <3>1 DEF DiskInv
    <3>5. QED
      BY <2>4, <3>3, <3>4 DEF DiskInv
  <2>5. QED
    BY <2>1, <2>2, <2>3, <2>4
<1>4. CASE CloneLands(c)
  <2>1. /\ clone[c] = "running" /\ clone'[c] = "done"
        /\ \A o \in Clones : o # c => clone'[o] = clone[o]
        /\ disk[Target] = "partial" /\ disk'[Target] = "there"
        /\ UNCHANGED <<trees, litter, wiped, excused>>
    BY <1>1, <1>4 DEF CloneLands, CloneGoes, seenVars, histVars
  <2>2. CloneInv'
    BY <2>1 DEF CloneInv, CloneIsKept, Cloned
  <2>3. DiskInv'
    BY <2>1 DEF DiskInv
  <2>4. QED
    BY <2>2, <2>3
<1>5. CASE CloneFails(c)
  <2>1. /\ clone[c] = "running" /\ clone'[c] = "failed"
        /\ \A o \in Clones : o # c => clone'[o] = clone[o]
        /\ disk'[Target] \in {"absent", disk[Target]}
        /\ UNCHANGED <<gitVars, wiped, excused>>
    BY <1>1, <1>5 DEF CloneFails, CloneGoes, seenVars, histVars
  <2>2. CASE wiped
    BY <2>1, <2>2 DEF CloneInv, DiskInv, CloneIsKept
  <2>3. CASE ~wiped
    <3>1. disk[Target] = "partial"
      BY <2>1, <2>3 DEF DiskInv
    <3>2. CloneInv'
      BY <2>1, <3>1 DEF CloneInv, CloneIsKept, Cloned
    <3>3. DiskInv'
      BY <2>1, <3>1 DEF DiskInv, gitVars
    <3>4. QED
      BY <3>2, <3>3
  <2>4. QED
    BY <2>2, <2>3
<1>6. CASE CloneCleans(c)
  <2>1. /\ clone[c] = "failed" /\ clone'[c] = "done"
        /\ \A o \in Clones : o # c => clone'[o] = clone[o]
        /\ disk'[Target] = "absent" /\ UNCHANGED excused
        /\ wiped' = (wiped \/ disk[Target] = "there" \/ \E o \in Clones : clone[o] = "running")
        /\ made' = [made EXCEPT ![Target] = [b \in Branches |-> Nobody]]
        /\ litter' = litter \union {p \in Paths : p[1] = Target /\ OnDisk(p)}
        /\ trees' = [p \in Paths |-> IF p[1] = Target THEN NoTree ELSE trees[p]]
    BY <1>1, <1>6 DEF CloneCleans, CloneGoes
  <2>2. \A b \in Branches : made'[Target][b] = Nobody
    BY <1>1, <2>1 DEF Types, BranchTypes
  <2>3. CloneInv'
    <3> SUFFICES ASSUME "clones" \notin excused PROVE CloneInv'
      BY <2>1 DEF CloneInv
    <3>1. ~wiped /\ disk[Target] # "there"
      BY <2>1 DEF CloneInv, CloneIsKept
    <3>2. \A o \in Clones : Cloned(o) => o = c
      BY <2>1 DEF CloneInv, Cloned
    <3>3. \A o \in Clones : clone[o] # "running"
      BY <2>1, <3>2 DEF Cloned
    <3>4. ~wiped'
      BY <2>1, <3>1, <3>3
    <3>5. \A o \in Clones : ~Cloned(o)'
      BY <2>1, <3>2 DEF Cloned
    <3>6. QED
      BY <3>4, <3>5 DEF CloneInv, CloneIsKept, Cloned
  <2>4. DiskInv'
    <3> SUFFICES ASSUME ~wiped' PROVE DiskInv'
      BY DEF DiskInv
    <3>1. ~wiped /\ disk[Target] # "there" /\ \A o \in Clones : clone[o] # "running"
      BY <2>1
    <3>2. litter = {} /\ \A p \in Paths : p[1] = Target => trees[p] = NoTree
      BY <3>1 DEF DiskInv
    <3>3. litter' = {}
      BY <2>1, <3>2 DEF OnDisk
    <3>4. QED
      BY <2>1, <2>2, <3>1, <3>3 DEF DiskInv
  <2>5. QED
    BY <2>3, <2>4
<1>7. CASE CloneLeaves(c)
  <2>1. /\ clone[c] \in {"running", "failed"} /\ clone'[c] = "done"
        /\ \A o \in Clones : o # c => clone'[o] = clone[o]
        /\ UNCHANGED <<disk, gitVars, excused>>
        /\ wiped' = (wiped \/ (clone[c] = "failed" /\
                       (disk[Target] = "there" \/ \E o \in Clones : clone[o] = "running")))
    BY <1>1, <1>7 DEF CloneLeaves, CloneGoes
  <2>2. CloneInv'
    <3> SUFFICES ASSUME "clones" \notin excused PROVE CloneInv'
      BY <2>1 DEF CloneInv
    <3>1. ~wiped /\ (clone[c] = "failed" => disk[Target] # "there")
      BY <2>1 DEF CloneInv, CloneIsKept
    <3>2. \A o \in Clones : Cloned(o) => o = c
      BY <2>1 DEF CloneInv, Cloned
    <3>3. clone[c] = "failed" => \A o \in Clones : clone[o] # "running"
      BY <3>2 DEF Cloned
    <3>4. ~wiped'
      BY <2>1, <3>1, <3>3
    <3>5. \A o \in Clones : ~Cloned(o)'
      BY <2>1, <3>2 DEF Cloned
    <3>6. QED
      BY <3>4, <3>5 DEF CloneInv, CloneIsKept, Cloned
  <2>3. DiskInv'
    <3> SUFFICES ASSUME ~wiped' PROVE DiskInv'
      BY DEF DiskInv
    <3>1. ~wiped /\ \A o \in Clones : clone'[o] = "running" => clone[o] = "running"
      BY <2>1
    <3>2. UNCHANGED <<disk, litter, trees, made>>
      BY <2>1 DEF gitVars
    <3>3. QED
      BY <3>1, <3>2 DEF DiskInv
  <2>4. QED
    BY <2>2, <2>3
<1>8. QED
  BY <1>2, <1>3, <1>4, <1>5, <1>6, <1>7 DEF Cloning

(* Only clones touch the folder, and nothing is made in one not there.     *)
LEMMA NextClones == ASSUME Types, CloneInv, DiskInv, [Next]_vars PROVE CloneInv' /\ DiskInv'
<1>1. ASSUME UNCHANGED <<disk, wiped>>, excused \subseteq excused',
             \A c \in Clones : clone'[c] \in {clone[c], "idle", "done"}
      PROVE  CloneInv'
  BY <1>1 DEF CloneInv, CloneIsKept, Cloned
<1>2. ASSUME NEW a \in Agents, Spawning(a) PROVE CloneInv' /\ DiskInv'
  <2>1. UNCHANGED <<clone, disk, wiped, excused, litter>>
    BY <1>2 DEF Spawning, SpawnBegins, PreparesNothing, ChoosesNames, MakesInPlace, MakesWorktree,
                SpawnFails, Inserts, InsertRefused, SpawnDropped, Strands, seenVars, histVars, gitVars
  <2>2. CASE MakesWorktree(a)
    <3>1. PICK r \in Row :
            /\ Sound(r) /\ r.branch \in Branches /\ WorkPath(r)[1] = r.folder /\ GitRuns(r.folder)
            /\ MayMake(r) /\ Makes(r, a) /\ \A q \in Paths : q # WorkPath(r) => trees'[q] = trees[q]
      BY <2>2, MakesWorktreeFacts
    <3>2. r.folder # Target \/ disk[Target] = "there"
      BY <3>1 DEF GitRuns
    <3>3. \A f \in Folders, b \in Branches : f # r.folder => made'[f][b] = made[f][b]
      BY <3>1, MakesBranches
    <3>4. DiskInv'
      BY <2>1, <3>1, <3>2, <3>3, WorkspaceAssumption, DiskKeeps
    <3>5. QED
      BY <1>1, <2>1, <3>4
  <2>3. CASE MakesInPlace(a)
    <3> DEFINE r == spawn[a].row
    <3>1. Sound(r) /\ r.branch \in Branches
      BY <2>3, SpawnFacts DEF MakesInPlace, SpawnAt, Well
    <3>2. MayMake(r) /\ Makes(r, a) /\ GitRuns(r.folder) /\ trees' = trees
      BY <2>3 DEF MakesInPlace, MayMake
    <3>3. r.folder # Target \/ disk[Target] = "there"
      BY <3>2 DEF GitRuns
    <3>4. \A f \in Folders, b \in Branches : f # r.folder => made'[f][b] = made[f][b]
      BY <3>1, <3>2, MakesBranches
    <3> HIDE DEF r
    <3>5. DiskInv'
      BY <2>1, <3>2, <3>3, <3>4, WorkspaceAssumption, DiskKeeps
    <3>6. QED
      BY <1>1, <2>1, <3>5
  <2>4. CASE ~MakesWorktree(a) /\ ~MakesInPlace(a)
    <3>1. UNCHANGED <<made, trees>>
      BY <1>2, <2>4 DEF Spawning, SpawnBegins, PreparesNothing, ChoosesNames, SpawnFails, Inserts,
                        InsertRefused, SpawnDropped, Strands, gitVars
    <3>2. QED
      BY <1>1, <2>1, <3>1, DiskKeeps
  <2>5. QED
    BY <2>2, <2>3, <2>4
<1>3. ASSUME NEW d \in Deletes, Deleting(d) PROVE CloneInv' /\ DiskInv'
  <2>1. UNCHANGED <<clone, disk, wiped>> /\ excused \subseteq excused'
    BY <1>3 DEF Deleting, DeleteBegins, ReadsStatus, ReadsLog, NothingToRemove, RemovalRefused,
                RemovesTree, FallsBack, DropsBranch, DropsRow, DeleteDropped, seenVars, histVars
  <2>2. litter' \subseteq litter /\ \A p \in Paths : trees[p] = NoTree => trees'[p] = NoTree
    <3>1. CASE RemovesTree(d)
      BY <3>1, RemovesTreeFacts
    <3>2. CASE FallsBack(d)
      BY <3>2, FallsBackFacts
    <3>3. CASE ~RemovesTree(d) /\ ~FallsBack(d)
      BY <1>3, <3>3 DEF Deleting, DeleteBegins, ReadsStatus, ReadsLog, NothingToRemove,
                RemovalRefused,
                DropsBranch, DropsRow, DeleteDropped, gitVars
    <3>4. QED
      BY <3>1, <3>2, <3>3
  <2>3. \A b \in Branches : made[Target][b] = Nobody => made'[Target][b] = Nobody
    <3>1. CASE DropsBranch(d)
      BY <3>1, DropsBranchFacts, DropsItTyped, WorkspaceAssumption
    <3>2. CASE ~DropsBranch(d)
      BY <1>3, <3>2 DEF Deleting, DeleteBegins, ReadsStatus, ReadsLog, NothingToRemove,
                RemovalRefused,
                RemovesTree, FallsBack, DropsRow, DeleteDropped, gitVars
    <3>3. QED
      BY <3>1, <3>2
  <2>4. QED
    BY <1>1, <2>1, <2>2, <2>3, DiskKeeps
<1>4. CASE World
  <2>1. CASE OthersBranch
    <3>1. UNCHANGED <<clone, disk, wiped, excused, litter, trees>>
      BY <2>1 DEF OthersBranch, histVars
    <3>2. \A b \in Branches : disk[Target] # "there" => made'[Target][b] = made[Target][b]
      BY <2>1, OthersBranchFacts, WorkspaceAssumption
    <3>3. QED
      BY <1>1, <3>1, <3>2, DiskKeeps
  <2>2. CASE ServerDies
    <3>1. UNCHANGED <<disk, gitVars, histVars>> /\ \A c \in Clones : clone'[c] \in {"idle", "done"}
      BY <2>2, ServerDiesFacts
    <3>2. QED
      BY <1>1, <3>1, DiskKeeps DEF gitVars, histVars
  <2>3. CASE Works
    <3>1. TreesStand /\ UNCHANGED <<clone, disk, made, litter, histVars>>
      BY <2>3, WorksFacts
    <3>2. QED
      BY <1>1, <3>1, DiskKeeps DEF TreesStand, histVars
  <2>4. QED
    BY <1>4, <2>1, <2>2, <2>3 DEF World, Works
<1>5. CASE UNCHANGED vars
  BY <1>1, <1>5, DiskKeeps DEF vars, seenVars, histVars, gitVars
<1>6. QED
  BY <1>2, <1>3, <1>4, <1>5, CloningClones DEF Next

--------------------------------------------------------------------------------
(* Deletes, and whose names are free.                                      *)

(* While no agent was deleted twice, a delete has its agent to itself, its *)
(* row is there and none before it was cut short by a client.              *)
DelInv ==
  "deletes" \in excused \/
    \A d \in Deletes : del[d].at # "idle" =>
      /\ row[del[d].agent] = Rec(d) /\ del[d].agent \notin dropped
      /\ \A e \in Deletes : del[e].at # "idle" /\ del[e].agent = del[d].agent => d = e

(* Nobody is about to take the name of an agent whose delete was ended by  *)
(* the server's death and whose worktree and branch may be gone: what had  *)
(* read the names before ended with it too.                                *)
HalfInv ==
  \A a \in halfway \ dropped : row[a] # NoRow =>
    \A m \in Agents :
      /\ SpawnAt(m, "taken") => Slug(a) \in spawn[m].taken
      /\ spawn[m].at \in {"named", "prepared"} => spawn[m].row.slug # Slug(a)

LEMMA DelKeeps ==
  ASSUME Types, DelInv, \A d \in Deletes : SameJob(d), excused \subseteq excused', UNCHANGED dropped,
         \A a \in Agents : SpawnAt(a, "done") => row'[a] = row[a]
  PROVE  DelInv'
<1> SUFFICES ASSUME "deletes" \notin excused', NEW d \in Deletes, del'[d].at # "idle"
             PROVE  /\ row'[del'[d].agent] = Rec(d)' /\ del'[d].agent \notin dropped'
                    /\ \A e \in Deletes : del'[e].at # "idle" /\ del'[e].agent = del'[d].agent => d = e
  BY DEF DelInv
<1>1. \A e \in Deletes : del'[e].at # "idle" =>
        del[e].at # "idle" /\ del'[e].agent = del[e].agent /\ Rec(e)' = Rec(e)
  BY DEF SameJob
<1>2. del[d].agent \in Agents /\ SpawnAt(del[d].agent, "done")
  BY <1>1, JobFacts
<1>3. row[del[d].agent] = Rec(d) /\ del[d].agent \notin dropped
      /\ \A e \in Deletes : del[e].at # "idle" /\ del[e].agent = del[d].agent => d = e
  BY <1>1 DEF DelInv
<1>4. QED
  BY <1>1, <1>2, <1>3

(* A spawn's step concerns its own agent, which had not spawned.           *)
LEMMA SpawningFacts ==
  ASSUME Types, NEW a \in Agents, Spawning(a)
  PROVE  /\ UNCHANGED <<del, halfway, dropped, disk, clone, litter, histVars>> /\ ~SpawnAt(a,
                        "done")
         /\ \A b \in Agents : b # a => spawn'[b] = spawn[b] /\ row'[b] = row[b]
         /\ row' = row \/ Inserts(a)
<1>1. UNCHANGED <<del, halfway, dropped, disk, clone, litter, histVars>> /\ ~SpawnAt(a, "done")
  BY DEF Spawning, SpawnBegins, PreparesNothing, ChoosesNames, MakesInPlace, MakesWorktree,
         SpawnFails,
         Inserts, InsertRefused, SpawnDropped, Strands, MayInsert, SpawnAt, rowVars, seenVars, gitVars
<1>2. row' = row \/ Inserts(a)
  BY DEF Spawning, SpawnBegins, PreparesNothing, ChoosesNames, MakesInPlace, MakesWorktree,
         SpawnFails,
         InsertRefused, SpawnDropped, Strands, rowVars
<1>3. \A b \in Agents : b # a => row'[b] = row[b]
  BY <1>2 DEF Inserts, Types, RowTypes
<1>4. \A b \in Agents : b # a => spawn'[b] = spawn[b]
  <2>1. DOMAIN spawn = Agents
    BY DEF Types, SpawnTypes
  <2>2. QED
    BY <2>1 DEF Spawning, SpawnBegins, PreparesNothing, ChoosesNames, MakesInPlace, MakesWorktree,
                SpawnFails, Inserts, InsertRefused, SpawnDropped, Strands, Prepared, SpawnEnds
<1>5. QED
  BY <1>1, <1>2, <1>3, <1>4

(* Neither does what the deletes leave alone.                              *)
LEMMA DeletingFacts ==
  ASSUME Types, NEW d \in Deletes, Deleting(d)
  PROVE  /\ UNCHANGED <<spawn, clone, disk, wiped>> /\ excused \subseteq excused'
         /\ halfway \subseteq halfway' /\ halfway' \ dropped' \subseteq halfway \ dropped
         /\ UNCHANGED <<halfway, dropped>> \/ DeleteDropped(d)
         /\ \A e \in Deletes : e # d => del'[e] = del[e]
         /\ row' = row \/ DropsRow(d)
         /\ excused' = excused \/ \E a \in Agents, force, drop \in BOOLEAN : DeleteBegins(d, a, force, drop)
<1>1. CASE Reads(d)
  BY <1>1, ReadsFacts DEF rowVars, seenVars, histVars
<1>2. CASE \E a \in Agents, force, drop \in BOOLEAN : DeleteBegins(d, a, force, drop)
  <2>1. PICK a \in Agents, force, drop \in BOOLEAN : DeleteBegins(d, a, force, drop)
    BY <1>2
  <2>2. excused \subseteq excused'
    BY <2>1 DEF DeleteBegins
  <2>3. QED
    BY <1>2, <2>1, <2>2, DeleteBeginsFacts DEF rowVars
<1>3. CASE RemovesTree(d)
  BY <1>3, RemovesTreeFacts
<1>4. CASE FallsBack(d)
  BY <1>4, FallsBackFacts
<1>5. CASE DropsBranch(d)
  BY <1>5, DropsBranchFacts DEF rowVars
<1>6. CASE DropsRow(d)
  BY <1>6, DropsRowFacts DEF seenVars, histVars
<1>7. CASE DeleteDropped(d)
  BY <1>7, DeleteDroppedFacts DEF histVars
<1>8. QED
  BY <1>1, <1>2, <1>3, <1>4, <1>5, <1>6, <1>7 DEF Deleting, Reads

LEMMA CloningFacts ==
  ASSUME NEW c \in Clones, Cloning(c)
  PROVE  UNCHANGED <<rowVars, spawn, del, robbed>> /\ excused \subseteq excused'
BY DEF Cloning, CloneChecks, CloneRuns, CloneLands, CloneFails, CloneCleans, CloneLeaves, seenVars,
       histVars

LEMMA NextDels == ASSUME Types, DelInv, [Next]_vars PROVE DelInv'
<1>1. ASSUME UNCHANGED <<row, dropped, del>>, excused \subseteq excused' PROVE DelInv'
  BY <1>1 DEF DelInv, Rec
<1>2. ASSUME NEW a \in Agents, Spawning(a) PROVE DelInv'
  <2>1. \A d \in Deletes : SameJob(d)
    BY <1>2, SpawningFacts DEF SameJob, Rec
  <2>2. \A b \in Agents : SpawnAt(b, "done") => row'[b] = row[b]
    BY <1>2, SpawningFacts
  <2>3. QED
    BY <1>2, <2>1, <2>2, SpawningFacts, DelKeeps DEF histVars
<1>3. ASSUME NEW d \in Deletes, Deleting(d) PROVE DelInv'
  <2>1. CASE \E a \in Agents, force, drop \in BOOLEAN : DeleteBegins(d, a, force, drop)
    <3>1. PICK a \in Agents, force, drop \in BOOLEAN : DeleteBegins(d, a, force, drop)
      BY <2>1
    <3>2. /\ del'[d].agent = a /\ Rec(d)' = row[a] /\ UNCHANGED <<row, dropped>>
          /\ \A e \in Deletes : e # d => del'[e] = del[e] /\ Rec(e)' = Rec(e)
      BY <3>1, DeleteBeginsFacts DEF rowVars, Rec
    <3>3. \/ "deletes" \in excused'
          \/ a \notin dropped /\ \A e \in Deletes : del[e].at # "idle" => del[e].agent # a
      <4> DEFINE twice == a \in dropped \/ \E e \in Deletes : del[e].at # "idle" /\ del[e].agent = a
      <4>1. excused' = excused \union {x \in {"deletes"} : twice}
        BY <3>1 DEF DeleteBegins
      <4> HIDE DEF twice
      <4>2. "deletes" \in excused' \/ ~twice
        BY <4>1
      <4>3. QED
        BY <4>2 DEF twice
    <3>4. excused \subseteq excused'
      BY <3>1 DEF DeleteBegins
    <3>5. QED
      BY <3>2, <3>3, <3>4 DEF DelInv
  <2>2. CASE DropsRow(d)
    <3>1. /\ UNCHANGED <<excused, dropped>> /\ del'[d].at = "idle" /\ del[d].at = "row"
          /\ \A e \in Deletes : e # d => del'[e] = del[e] /\ Rec(e)' = Rec(e)
          /\ \A a \in Agents : a # del[d].agent => row'[a] = row[a]
      BY <2>2, DropsRowFacts DEF seenVars, histVars, Rec
    <3>2. \A e \in Deletes : del[e].at # "idle" => del[e].agent \in Agents
      BY JobFacts
    <3>3. QED
      BY <3>1, <3>2 DEF DelInv
  <2>3. CASE DeleteDropped(d)
    <3>1. /\ UNCHANGED <<excused, row>> /\ del'[d].at = "idle" /\ del[d].at # "idle"
          /\ \A e \in Deletes : e # d => del'[e] = del[e] /\ Rec(e)' = Rec(e)
          /\ dropped' = dropped \union Half(d)
      BY <2>3, DeleteDroppedFacts DEF histVars, Rec
    <3>2. Half(d) \subseteq {del[d].agent}
      BY DEF Half
    <3>3. QED
      BY <3>1, <3>2 DEF DelInv
  <2>4. CASE /\ ~DropsRow(d) /\ ~DeleteDropped(d)
             /\ ~(\E a \in Agents, force, drop \in BOOLEAN : DeleteBegins(d, a, force, drop))
    <3>1. \A e \in Deletes : SameJob(e)
      BY <1>3, <2>4, ReadsFacts, RemovesTreeFacts, FallsBackFacts, DropsBranchFacts DEF Deleting,
         Reads
    <3>2. UNCHANGED <<row, dropped>> /\ excused \subseteq excused'
      BY <1>3, <2>4, DeletingFacts
    <3>3. QED
      BY <3>1, <3>2, DelKeeps
  <2>5. QED
    BY <2>1, <2>2, <2>3, <2>4
<1>4. CASE World
  <2>1. CASE OthersBranch
    BY <1>1, <2>1, OthersBranchFacts DEF rowVars, histVars
  <2>2. CASE ServerDies
    BY <2>2, ServerDiesFacts DEF DelInv, Idle
  <2>3. CASE Works
    BY <1>1, <2>3, WorksFacts DEF rowVars, histVars
  <2>4. QED
    BY <1>4, <2>1, <2>2, <2>3 DEF World, Works
<1>5. CASE UNCHANGED vars
  BY <1>1, <1>5 DEF vars, rowVars, seenVars, histVars
<1>6. CASE \E c \in Clones : Cloning(c)
  BY <1>1, <1>6, CloningFacts DEF rowVars
<1>7. QED
  BY <1>2, <1>3, <1>4, <1>5, <1>6 DEF Next

LEMMA NextHalf == ASSUME Types, HalfInv, [Next]_vars PROVE HalfInv'
<1>1. ASSUME halfway' \ dropped' \subseteq halfway \ dropped, UNCHANGED spawn,
             \A a \in Agents : row'[a] \in {NoRow, row[a]}
      PROVE  HalfInv'
  BY <1>1 DEF HalfInv, SpawnAt, Slug, Types, HistTypes
<1>2. ASSUME NEW m \in Agents, Spawning(m) PROVE HalfInv'
  <2> SUFFICES ASSUME NEW a \in halfway \ dropped, row'[a] # NoRow
               PROVE  /\ SpawnAt(m, "taken")' => Slug(a)' \in spawn'[m].taken
                      /\ spawn'[m].at \in {"named", "prepared"} => spawn'[m].row.slug # Slug(a)'
    <3>1. \A b \in Agents : b # m => spawn'[b] = spawn[b]
      BY <1>2, SpawningFacts
    <3>2. UNCHANGED <<halfway,
                      dropped>> /\ \A a \in halfway : a \in Agents /\ a # m /\ row'[a] = row[a]
      BY <1>2, SpawningFacts DEF Types, HistTypes
    <3>3. QED
      BY <3>1, <3>2 DEF HalfInv, SpawnAt, Slug
  <2>1. a \in Agents /\ a # m /\ row'[a] = row[a] /\ Slug(a)' = Slug(a)
    BY <1>2, SpawningFacts DEF Types, HistTypes, Slug
  <2>2. /\ SpawnAt(m, "taken") => Slug(a) \in spawn[m].taken
        /\ spawn[m].at \in {"named", "prepared"} => spawn[m].row.slug # Slug(a)
    BY <2>1 DEF HalfInv
  <2>3. DOMAIN spawn = Agents
    BY DEF Types, SpawnTypes
  <2>4. CASE SpawnEnds(m)
    BY <2>3, <2>4 DEF SpawnEnds, SpawnAt
  <2>5. CASE \E r \in Requests[m] : SpawnBegins(m, r)
    <3>1. Slug(a) \in TakenNames
      BY <2>1 DEF TakenNames, Rows
    <3>2. QED
      BY <2>1, <2>3, <2>5, <3>1 DEF SpawnBegins, SpawnAt
  <2>6. CASE PreparesNothing(m) /\ ~SpawnEnds(m)
    <3>1. PICK r : Prepared(m, r) /\ r.slug \notin spawn[m].taken
      BY <2>6, PreparesNothingFacts
    <3>2. SpawnAt(m, "taken")
      BY <2>6 DEF PreparesNothing
    <3>3. QED
      BY <2>1, <2>2, <2>3, <3>1, <3>2 DEF Prepared, SpawnAt
  <2>7. CASE ChoosesNames(m) /\ ~SpawnEnds(m)
    <3>1. PICK r : /\ r.slug \notin spawn[m].taken
                   /\ spawn' = [spawn EXCEPT ![m] =
                        [at |-> "named", in_place |-> spawn[m].req.in_place, row |-> r]]
      BY <2>7, ChoosesNamesFacts
    <3>2. SpawnAt(m, "taken")
      BY <2>7 DEF ChoosesNames
    <3>3. QED
      BY <2>1, <2>2, <2>3, <3>1, <3>2 DEF SpawnAt
  <2>8. CASE MakesInPlace(m) \/ MakesWorktree(m)
    <3>1. Prepared(m, spawn[m].row) /\ SpawnAt(m, "named")
      BY <2>8 DEF MakesInPlace, MakesWorktree
    <3>2. QED
      BY <2>1, <2>2, <2>3, <3>1 DEF Prepared, SpawnAt
  <2>9. QED
    BY <1>2, <2>4, <2>5, <2>6, <2>7, <2>8 DEF Spawning, SpawnFails, Inserts, InsertRefused,
       SpawnDropped, Strands
<1>3. ASSUME NEW d \in Deletes, Deleting(d) PROVE HalfInv'
  <2>1. \A a \in Agents : row'[a] \in {NoRow, row[a]}
    BY <1>3, DeletingFacts, DropsRowFacts
  <2>2. QED
    BY <1>1, <1>3, <2>1, DeletingFacts
<1>4. CASE World
  <2>1. CASE OthersBranch
    BY <1>1, <2>1, OthersBranchFacts DEF rowVars
  <2>2. CASE ServerDies
    <3>1. \A m \in Agents : spawn'[m].at \in {"idle", "done"}
      BY <2>2, ServerDiesFacts DEF SpawnAt
    <3>2. QED
      BY <3>1 DEF HalfInv, SpawnAt
  <2>3. CASE Works
    BY <1>1, <2>3, WorksFacts DEF rowVars
  <2>4. QED
    BY <1>4, <2>1, <2>2, <2>3 DEF World, Works
<1>5. CASE UNCHANGED vars
  BY <1>1, <1>5 DEF vars, rowVars
<1>6. CASE \E c \in Clones : Cloning(c)
  BY <1>1, <1>6, CloningFacts DEF rowVars
<1>7. QED
  BY <1>2, <1>3, <1>4, <1>5, <1>6 DEF Next

--------------------------------------------------------------------------------
(* Whose a worktree is, and whose a branch.                                *)

(* An agent whose place was prepared, and the row it has or will have.     *)
Placed(a) == SpawnAt(a, "prepared") \/ row[a] # NoRow
Record(a) == IF SpawnAt(a, "prepared") THEN spawn[a].row ELSE row[a]

(* From the making on the row is settled: it is written as it was prepared *)
(* or not at all.                                                          *)
Settles ==
  \A a \in Agents : spawn[a].at \in {"prepared", "done"} =>
    /\ spawn'[a].at \in {"prepared", "done"}
    /\ Placed(a)' => Placed(a) /\ Record(a)' = Record(a)

LEMMA NextSettles == ASSUME Types, [Next]_vars PROVE Settles
<1>1. ASSUME UNCHANGED spawn, \A a \in Agents : row'[a] \in {NoRow, row[a]} PROVE Settles
  BY <1>1 DEF Settles, Placed, Record, SpawnAt
<1>2. ASSUME NEW a \in Agents, Spawning(a) PROVE Settles
  <2> SUFFICES ASSUME spawn[a].at \in {"prepared", "done"}
               PROVE  /\ spawn'[a].at \in {"prepared", "done"}
                      /\ Placed(a)' => Placed(a) /\ Record(a)' = Record(a)
    <3>1. \A b \in Agents : b # a => spawn'[b] = spawn[b] /\ row'[b] = row[b]
      BY <1>2, SpawningFacts
    <3>2. QED
      BY <3>1 DEF Settles, Placed, Record, SpawnAt
  <2>1. SpawnAt(a, "prepared") /\ SpawnEnds(a) /\ (Inserts(a) \/ Strands(a))
    BY <1>2, SpawningFacts DEF Spawning, SpawnBegins, PreparesNothing, ChoosesNames, MakesInPlace,
                MakesWorktree, SpawnFails, Inserts, InsertRefused, SpawnDropped, Strands, MayInsert, SpawnAt
  <2>2. spawn'[a] = [at |-> "done"]
    BY <2>1 DEF SpawnEnds, Types, SpawnTypes
  <2>3. CASE Inserts(a)
    <3>1. row'[a] = spawn[a].row
      BY <2>3 DEF Inserts, Types, RowTypes
    <3>2. QED
      BY <2>1, <2>2, <3>1 DEF Placed, Record, SpawnAt
  <2>4. CASE Strands(a)
    <3>1. row[a] = NoRow /\ row' = row
      BY <2>1, <2>4 DEF InsertRefused, SpawnDropped, Strands, Types, RowTypes, SpawnAt
    <3>2. QED
      BY <2>2, <3>1 DEF Placed, SpawnAt
  <2>5. QED
    BY <2>1, <2>3, <2>4
<1>3. ASSUME NEW d \in Deletes, Deleting(d) PROVE Settles
  <2>1. \A a \in Agents : row'[a] \in {NoRow, row[a]}
    BY <1>3, DeletingFacts, DropsRowFacts
  <2>2. QED
    BY <1>1, <1>3, <2>1, DeletingFacts
<1>4. CASE World
  <2>1. CASE OthersBranch
    BY <1>1, <2>1, OthersBranchFacts DEF rowVars
  <2>2. CASE ServerDies
    <3>1. row' = row /\ \A a \in Agents : spawn'[a] = IF SpawnAt(a, "idle") THEN spawn[a]
                                                      ELSE [at |-> "done"]
      BY <2>2, ServerDiesFacts
    <3>2. \A a \in Agents : spawn[a].at \in {"prepared", "done"} => spawn'[a].at = "done"
      BY <3>1 DEF SpawnAt
    <3>3. \A a \in Agents : SpawnAt(a, "prepared") => row[a] = NoRow
      BY DEF Types, RowTypes, SpawnAt
    <3>4. QED
      BY <3>1, <3>2, <3>3 DEF Settles, Placed, Record, SpawnAt
  <2>3. CASE Works
    BY <1>1, <2>3, WorksFacts DEF rowVars
  <2>4. QED
    BY <1>4, <2>1, <2>2, <2>3 DEF World, Works
<1>5. CASE UNCHANGED vars
  BY <1>1, <1>5 DEF vars, rowVars
<1>6. CASE \E c \in Clones : Cloning(c)
  BY <1>1, <1>6, CloningFacts DEF rowVars
<1>7. QED
  BY <1>2, <1>3, <1>4, <1>5, <1>6 DEF Next

(* A worktree, or a branch, of an agent that is still placed is the one    *)
(* its record says.                                                        *)
OwnsTree(m, p) ==
  /\ spawn[m].at \in {"prepared", "done"}
  /\ Placed(m) => Record(m).uses_worktree /\ WorkPath(Record(m)) = p
OwnsBranch(m, f, b) ==
  /\ spawn[m].at \in {"prepared", "done"}
  /\ Placed(m) => Record(m).branch_is_new /\ Record(m).folder = f /\ Record(m).branch = b
MakerInv ==
  /\ \A p \in Paths : trees[p] # NoTree => OwnsTree(trees[p].maker, p)
  /\ \A f \in Folders, b \in Branches : made[f][b] \in Agents => OwnsBranch(made[f][b], f, b)

(* Nothing new, and nothing changes hands.                                 *)
TreesKept == \A p \in Paths : trees'[p] # NoTree =>
               trees[p] # NoTree /\ trees'[p].maker = trees[p].maker
BranchesKept == \A f \in Folders, b \in Branches : made'[f][b] \in Agents => made'[f][b] = made[f][b]

LEMMA MakersOf ==
  ASSUME Types, NEW p \in Paths, trees[p] # NoTree PROVE trees[p].maker \in Agents
BY DEF Types, TreeTypes, Tree

LEMMA MakerKeeps ==
  ASSUME Types, MakerInv, Settles, TreesKept, BranchesKept PROVE MakerInv'
<1>1. ASSUME NEW p \in Paths, trees'[p] # NoTree PROVE OwnsTree(trees[p].maker, p)'
  <2>1. trees[p] # NoTree /\ trees'[p].maker = trees[p].maker
    BY <1>1 DEF TreesKept
  <2>2. trees[p].maker \in Agents /\ OwnsTree(trees[p].maker, p)
    BY <2>1, MakersOf DEF MakerInv
  <2>3. QED
    BY <2>1, <2>2 DEF OwnsTree, Settles, WorkPath
<1>2. ASSUME NEW f \in Folders, NEW b \in Branches, made'[f][b] \in Agents
      PROVE  OwnsBranch(made[f][b], f, b)'
  <2>1. made'[f][b] = made[f][b] /\ OwnsBranch(made[f][b], f, b)
    BY <1>2 DEF BranchesKept, MakerInv
  <2>2. QED
    BY <1>2, <2>1 DEF OwnsBranch, Settles
<1>3. QED
  BY <1>1, <1>2 DEF MakerInv

(* What an agent's own making leaves.                                      *)
LEMMA MakingMakers ==
  ASSUME Types, MakerInv, Settles, NEW a \in Agents, MakesInPlace(a) \/ MakesWorktree(a)
  PROVE  MakerInv'
<1> DEFINE r == spawn[a].row
<1>1. /\ Sound(r) /\ r.branch \in Branches /\ MayMake(r) /\ Makes(r, a)
      /\ spawn'[a] = [at |-> "prepared", row |-> r]
      /\ \A b \in Agents : b # a => spawn'[b] = spawn[b] /\ row'[b] = row[b]
  <2>1. CASE MakesInPlace(a)
    <3>1. Sound(r) /\ r.branch \in Branches /\ Prepared(a, r)
      BY <2>1, SpawnFacts DEF MakesInPlace, SpawnAt, Well
    <3>2. MayMake(r) /\ Makes(r, a) /\ UNCHANGED <<rowVars, del>> /\ ~SpawnAt(a, "done")
      BY <2>1 DEF MakesInPlace, SpawnAt
    <3> HIDE DEF r
    <3>3. QED
      BY <3>1, <3>2, PreparedTyped DEF rowVars
  <2>2. CASE MakesWorktree(a)
    <3>1. /\ Sound(r) /\ r.branch \in Branches /\ Prepared(a, r) /\ MayMake(r) /\ Makes(r, a)
          /\ ~SpawnAt(a, "done")
      BY <2>2, MakesWorktreeFacts
    <3>2. UNCHANGED <<rowVars, del>>
      BY <2>2 DEF MakesWorktree
    <3> HIDE DEF r
    <3>3. QED
      BY <3>1, <3>2, PreparedTyped DEF rowVars
  <2>3. QED
    BY <2>1, <2>2
<1>2. Placed(a)' /\ Record(a)' = r /\ spawn'[a].at = "prepared"
  BY <1>1 DEF Placed, Record, SpawnAt
<1>3. ASSUME NEW p \in Paths, trees'[p] # NoTree PROVE OwnsTree(trees[p].maker, p)'
  <2>1. CASE trees'[p] = trees[p]
    BY <1>3, <2>1, MakersOf DEF MakerInv, OwnsTree, Settles, WorkPath
  <2>2. CASE trees'[p] # trees[p]
    <3>1. MakesWorktree(a)
      BY <2>2 DEF MakesInPlace
    <3>2. /\ r.uses_worktree /\ \A q \in Paths : q # WorkPath(r) => trees'[q] = trees[q]
          /\ trees'[WorkPath(r)].maker = a
      <4>1. PICK x \in Row :
              /\ x = r /\ x.uses_worktree
              /\ trees'[WorkPath(x)] = [branch |-> x.branch, dirty |-> FALSE, maker |-> a,
                                         there |-> TRUE]
              /\ \A q \in Paths : q # WorkPath(x) => trees'[q] = trees[q]
        BY <3>1, MakesWorktreeFacts
      <4>2. QED
        BY <4>1
    <3>3. p = WorkPath(r)
      BY <2>2, <3>2
    <3>4. QED
      BY <1>2, <3>2, <3>3 DEF OwnsTree, WorkPath
  <2>3. QED
    BY <2>1, <2>2
<1>4. ASSUME NEW f \in Folders, NEW b \in Branches, made'[f][b] \in Agents
      PROVE  OwnsBranch(made[f][b], f, b)'
  <2>1. made'[f][b] = IF r.branch_is_new /\ f = r.folder /\ b = r.branch THEN a ELSE made[f][b]
    BY <1>1, MakesBranches
  <2>2. CASE r.branch_is_new /\ f = r.folder /\ b = r.branch
    BY <1>2, <2>1, <2>2 DEF OwnsBranch
  <2>3. CASE made'[f][b] = made[f][b]
    BY <1>4, <2>3 DEF OwnsBranch, MakerInv, Settles
  <2>4. QED
    BY <2>1, <2>2, <2>3
<1>5. QED
  BY <1>3, <1>4 DEF MakerInv

(* Nothing but a spawn's making gives an agent a worktree or a branch.     *)
LEMMA KeptOrMade ==
  ASSUME Types, [Next]_vars
  PROVE  \/ TreesKept /\ BranchesKept
         \/ \E a \in Agents : MakesInPlace(a) \/ MakesWorktree(a)
<1>1. ASSUME UNCHANGED <<trees, made>> PROVE TreesKept /\ BranchesKept
  BY <1>1 DEF TreesKept, BranchesKept
<1>2. ASSUME NEW a \in Agents, Spawning(a), ~MakesInPlace(a), ~MakesWorktree(a)
      PROVE  TreesKept /\ BranchesKept
  <2>1. UNCHANGED <<made, trees>>
    BY <1>2 DEF Spawning, SpawnBegins, PreparesNothing, ChoosesNames, SpawnFails, Inserts,
                InsertRefused, SpawnDropped, Strands, gitVars
  <2>2. QED
    BY <1>1, <2>1
<1>3. ASSUME NEW d \in Deletes, Deleting(d) PROVE TreesKept /\ BranchesKept
  <2>1. CASE RemovesTree(d)
    BY <2>1, RemovesTreeFacts DEF TreesKept, BranchesKept
  <2>2. CASE FallsBack(d)
    BY <2>2, FallsBackFacts DEF TreesKept, BranchesKept
  <2>3. CASE DropsBranch(d)
    BY <2>3, DropsBranchFacts, DropsItTyped, NoOneIsAgent DEF TreesKept, BranchesKept
  <2>4. CASE ~RemovesTree(d) /\ ~FallsBack(d) /\ ~DropsBranch(d)
    <3>1. UNCHANGED <<made, trees>>
      BY <1>3, <2>4 DEF Deleting, DeleteBegins, ReadsStatus, ReadsLog, NothingToRemove,
                RemovalRefused,
                DropsRow, DeleteDropped, gitVars
    <3>2. QED
      BY <1>1, <3>1
  <2>5. QED
    BY <2>1, <2>2, <2>3, <2>4
<1>4. ASSUME NEW c \in Clones, Cloning(c) PROVE TreesKept /\ BranchesKept
  <2>1. CASE CloneLands(c)
    BY <2>1, NoOneIsAgent DEF CloneLands, TreesKept, BranchesKept, Types, BranchTypes
  <2>2. CASE CloneCleans(c)
    BY <2>2, NoOneIsAgent DEF CloneCleans, TreesKept, BranchesKept, Types, BranchTypes
  <2>3. CASE ~CloneLands(c) /\ ~CloneCleans(c)
    BY <1>1, <1>4, <2>3 DEF Cloning, CloneChecks, CloneRuns, CloneFails, CloneLeaves, gitVars
  <2>4. QED
    BY <2>1, <2>2, <2>3
<1>5. CASE World
  <2>1. CASE OthersBranch
    BY <2>1, OthersBranchFacts, NoOneIsAgent DEF TreesKept, BranchesKept
  <2>2. CASE ServerDies
    BY <1>1, <2>2, ServerDiesFacts DEF gitVars
  <2>3. CASE Works
    BY <2>3, WorksFacts DEF TreesStand, TreesKept, BranchesKept
  <2>4. QED
    BY <1>5, <2>1, <2>2, <2>3 DEF World, Works
<1>6. CASE UNCHANGED vars
  BY <1>1, <1>6 DEF vars, gitVars
<1>7. QED
  BY <1>2, <1>3, <1>4, <1>5, <1>6 DEF Next

LEMMA NextMakers == ASSUME Types, MakerInv, [Next]_vars PROVE MakerInv'
BY NextSettles, KeptOrMade, MakerKeeps, MakingMakers

--------------------------------------------------------------------------------
(* Every worktree is an agent's that is placed, or it is known to be       *)
(* stranded; and a delete that goes on has removed its agent's or left it  *)
(* to itself.                                                              *)
PastTree(d) == del[d].at \in {"branch", "row"}
Left(d) ==
  LET t == trees[WorkPath(Rec(d))] IN
    t # NoTree /\ t.maker = del[d].agent => WorkPath(Rec(d)) \in stranded
TreeInv ==
  /\ \A p \in Paths : trees[p] # NoTree => p \in stranded \/ Placed(trees[p].maker)
  /\ \A d \in Deletes : PastTree(d) /\ Rec(d).uses_worktree => Left(d)

LEMMA TreeKeeps ==
  ASSUME Types, TreeInv, TreesKept,
         \A p \in Paths : p \in stranded /\ trees'[p] # NoTree => p \in stranded',
         \A m \in Agents : Placed(m) =>
           \/ Placed(m)'
           \/ \A p \in Paths : trees'[p] # NoTree /\ trees[p].maker = m => p \in stranded',
         \A d \in Deletes : PastTree(d)' /\ Rec(d)'.uses_worktree =>
           \/ PastTree(d) /\ del'[d].agent = del[d].agent /\ Rec(d)' = Rec(d)
           \/ Left(d)'
  PROVE  TreeInv'
<1>1. ASSUME NEW p \in Paths, trees'[p] # NoTree
      PROVE  p \in stranded' \/ Placed(trees[p].maker)'
  <2>1. trees[p] # NoTree /\ trees'[p].maker = trees[p].maker /\ trees[p].maker \in Agents
    BY <1>1, MakersOf DEF TreesKept
  <2>2. p \in stranded \/ Placed(trees[p].maker)
    BY <2>1 DEF TreeInv
  <2>3. CASE p \in stranded
    BY <1>1, <2>3
  <2>4. CASE Placed(trees[p].maker)
    <3>1. PICK m \in Agents : m = trees[p].maker
      BY <2>1
    <3>2. Placed(m)' \/ p \in stranded'
      BY <1>1, <2>4, <3>1
    <3>3. QED
      BY <2>1, <3>1, <3>2 DEF Placed, SpawnAt
  <2>5. QED
    BY <2>2, <2>3, <2>4
<1>2. ASSUME NEW d \in Deletes, PastTree(d)', Rec(d)'.uses_worktree PROVE Left(d)'
  <2>1. CASE Left(d)'
    BY <2>1
  <2>2. CASE PastTree(d) /\ del'[d].agent = del[d].agent /\ Rec(d)' = Rec(d)
    <3> DEFINE p == WorkPath(Rec(d))
    <3>1. Left(d) /\ p \in Paths /\ WorkPath(Rec(d))' = p
      BY <1>2, <2>2, JobFacts DEF TreeInv, PastTree, WorkPath
    <3> HIDE DEF p
    <3>2. trees'[p] # NoTree => trees[p] # NoTree /\ trees'[p].maker = trees[p].maker
      BY <3>1 DEF TreesKept
    <3>3. trees[p] # NoTree /\ trees[p].maker = del[d].agent => p \in stranded
      BY <3>1 DEF Left, p
    <3>4. trees'[p] # NoTree /\ trees'[p].maker = del'[d].agent => p \in stranded'
      BY <2>2, <3>1, <3>2, <3>3
    <3>5. QED
      BY <3>1, <3>4 DEF Left
  <2>3. QED
    BY <1>2, <2>1, <2>2
<1>3. QED
  BY <1>1, <1>2 DEF TreeInv

(* A spawn's step that makes nothing.                                      *)
LEMMA SpawningTrees ==
  ASSUME Types, MakerInv, TreeInv, NEW a \in Agents, Spawning(a),
         ~MakesInPlace(a), ~MakesWorktree(a)
  PROVE  TreeInv'
<1>1. UNCHANGED <<trees,
                  del>> /\ \A b \in Agents : b # a => spawn'[b] = spawn[b] /\ row'[b] = row[b]
  BY SpawningFacts DEF Spawning, SpawnBegins, PreparesNothing, ChoosesNames, SpawnFails,
     Inserts, InsertRefused, SpawnDropped, Strands, gitVars
<1>2. stranded \subseteq stranded'
  BY DEF Spawning, SpawnBegins, PreparesNothing, ChoosesNames, SpawnFails, Inserts, InsertRefused,
         SpawnDropped, Strands, rowVars
<1>3. Placed(a) => Placed(a)' \/ \A p \in Paths : trees'[p] # NoTree /\ trees[p].maker = a => p \in stranded'
  <2> SUFFICES ASSUME Placed(a), ~Placed(a)', NEW p \in Paths, trees[p] # NoTree, trees[p].maker = a
               PROVE  p \in stranded'
    BY <1>1
  <2>1. row[a] = NoRow /\ SpawnAt(a, "prepared")
    BY SpawningFacts DEF Placed, Types, RowTypes
  <2>2. Inserts(a) \/ Strands(a)
    BY <2>1 DEF Spawning, SpawnBegins, PreparesNothing, ChoosesNames, SpawnFails, InsertRefused,
                SpawnDropped, SpawnAt
  <2>3. CASE Inserts(a)
    <3>1. row'[a] = spawn[a].row /\ spawn[a].row # NoRow
      BY <2>1, <2>3, SpawnFacts, NoRowIsNone DEF Inserts, Types, RowTypes, SpawnAt, Sound
    <3>2. QED
      BY <3>1 DEF Placed
  <2>4. CASE Strands(a)
    <3>1. spawn[a].row.uses_worktree /\ WorkPath(spawn[a].row) = p
      BY <2>1 DEF MakerInv, OwnsTree, Placed, Record
    <3>2. QED
      BY <2>4, <3>1 DEF InsertRefused, SpawnDropped, Strands, WorkPath
  <2>5. QED
    BY <2>2, <2>3, <2>4
<1>4. \A m \in Agents : Placed(m) =>
           \/ Placed(m)'
           \/ \A p \in Paths : trees'[p] # NoTree /\ trees[p].maker = m => p \in stranded'
  BY <1>1, <1>3 DEF Placed, SpawnAt
<1>5. QED
  BY <1>1, <1>2, <1>4, TreeKeeps DEF TreesKept, PastTree, Rec

LEMMA MakingTrees ==
  ASSUME Types, TreeInv, NEW a \in Agents, MakesInPlace(a) \/ MakesWorktree(a) PROVE TreeInv'
<1>1. UNCHANGED <<rowVars, del>> /\ ~SpawnAt(a,
                  "done") /\ \A b \in Agents : b # a => spawn'[b] = spawn[b]
  BY SpawningFacts DEF MakesInPlace, MakesWorktree, Spawning
<1>2. Placed(a)'
  <2>1. DOMAIN spawn = Agents
    BY DEF Types, SpawnTypes
  <2>2. QED
    BY <2>1 DEF MakesInPlace, MakesWorktree, Prepared, Placed, SpawnAt
<1>3. CASE MakesInPlace(a)
  <2>1. trees' = trees /\ \A m \in Agents : Placed(m) => Placed(m)'
    BY <1>1, <1>2, <1>3 DEF MakesInPlace, Placed, SpawnAt, rowVars
  <2>2. QED
    BY <1>1, <2>1, TreeKeeps DEF TreesKept, PastTree, Rec, rowVars
<1>4. CASE MakesWorktree(a)
  <2>1. PICK r \in Row :
          LET p == WorkPath(r) IN
            /\ p \in Paths /\ trees[p] = NoTree
            /\ trees'[p] = [branch |-> r.branch, dirty |-> FALSE, maker |-> a, there |-> TRUE]
            /\ \A q \in Paths : q # p => trees'[q] = trees[q]
    BY <1>4, MakesWorktreeFacts
  <2> DEFINE p == WorkPath(r)
  <2>2. p \in Paths /\ trees'[p].maker = a /\ \A q \in Paths : q # p => trees'[q] = trees[q]
    BY <2>1
  <2> HIDE DEF p
  <2>3. ASSUME NEW q \in Paths, trees'[q] # NoTree PROVE q \in stranded' \/ Placed(trees[q].maker)'
    <3>1. CASE q = p
      BY <1>2, <2>2, <3>1 DEF Placed, SpawnAt
    <3>2. CASE q # p
      <4>1. PICK m \in Agents : m = trees[q].maker /\ trees'[q].maker = m
        BY <2>2, <2>3, <3>2, MakersOf
      <4>2. q \in stranded \/ Placed(m)
        BY <2>2, <2>3, <3>2, <4>1 DEF TreeInv
      <4>3. q \in stranded' \/ Placed(m)'
        BY <1>1, <1>2, <4>2 DEF rowVars, Placed, SpawnAt
      <4>4. QED
        BY <4>1, <4>3 DEF Placed, SpawnAt
    <3>3. QED
      BY <3>1, <3>2
  <2>4. ASSUME NEW d \in Deletes, PastTree(d)', Rec(d)'.uses_worktree PROVE Left(d)'
    <3> DEFINE q == WorkPath(Rec(d))
    <3>1. PastTree(d) /\ Rec(d)' = Rec(d) /\ q \in Paths /\ SpawnAt(del[d].agent, "done") /\ Left(d)
      BY <1>1, <2>4, JobFacts DEF PastTree, Rec, TreeInv
    <3>2. del[d].agent # a
      BY <1>1, <3>1
    <3>3. q # p => trees'[q] = trees[q]
      BY <2>2, <3>1
    <3>4. QED
      BY <1>1, <2>2, <3>1, <3>2, <3>3 DEF Left, WorkPath, rowVars
  <2>5. QED
    BY <2>3, <2>4 DEF TreeInv
<1>5. QED
  BY <1>3, <1>4

(* A delete has removed its agent's worktree before the row goes.          *)
LEMMA DropsRowTrees ==
  ASSUME Types, MakerInv, TreeInv, NEW d \in Deletes, DropsRow(d) PROVE TreeInv'
<1> DEFINE a == del[d].agent
<1>1. /\ del'[d].at = "idle" /\ PastTree(d) /\ a \in Agents /\ row'[a] = NoRow
      /\ \A e \in Deletes : e # d => del'[e] = del[e]
      /\ \A b \in Agents : b # a => row'[b] = row[b]
      /\ UNCHANGED <<stranded, spawn, trees>>
  BY DropsRowFacts DEF PastTree, gitVars
<1>2. SpawnAt(a, "done") /\ row[a] \in {NoRow, Rec(d)}
  BY <1>1, JobFacts DEF PastTree
<1>3. ASSUME NEW p \in Paths, trees[p] # NoTree, trees[p].maker = a, Placed(a) PROVE p \in stranded
  <2>1. Record(a) = Rec(d)
    BY <1>2, <1>3 DEF Record, Placed, SpawnAt
  <2>2. Rec(d).uses_worktree /\ WorkPath(Rec(d)) = p
    BY <1>3, <2>1 DEF MakerInv, OwnsTree
  <2>3. QED
    BY <1>1, <1>3, <2>2 DEF TreeInv, Left
<1> HIDE DEF a
<1>4. \A m \in Agents : Placed(m) =>
        \/ Placed(m)'
        \/ \A p \in Paths : trees'[p] # NoTree /\ trees[p].maker = m => p \in stranded'
  BY <1>1, <1>3 DEF Placed, SpawnAt
<1>5. \A e \in Deletes : PastTree(e)' => e # d
  BY <1>1 DEF PastTree
<1>6. \A e \in Deletes : PastTree(e)' => PastTree(e) /\ del'[e].agent = del[e].agent /\ Rec(e)' = Rec(e)
  BY <1>1, <1>5 DEF PastTree, Rec
<1>7. QED
  BY <1>1, <1>4, <1>6, TreeKeeps DEF TreesKept

LEMMA DeletingTrees ==
  ASSUME Types, MakerInv, TreeInv, TreesKept, NEW d \in Deletes, Deleting(d) PROVE TreeInv'
<1>1. ASSUME ~DropsRow(d),
             \A p \in Paths : p \in stranded /\ trees'[p] # NoTree => p \in stranded',
             PastTree(d)' /\ Rec(d)'.uses_worktree =>
               \/ PastTree(d) /\ del'[d].agent = del[d].agent /\ Rec(d)' = Rec(d)
               \/ Left(d)'
      PROVE  TreeInv'
  <2>1. UNCHANGED <<row, spawn>> /\ \A e \in Deletes : e # d => del'[e] = del[e]
    BY <1>1, DeletingFacts
  <2>2. \A m \in Agents : Placed(m) => Placed(m)'
    BY <2>1 DEF Placed, SpawnAt
  <2>3. \A e \in Deletes : PastTree(e)' /\ Rec(e)'.uses_worktree =>
          \/ PastTree(e) /\ del'[e].agent = del[e].agent /\ Rec(e)' = Rec(e)
          \/ Left(e)'
    BY <1>1, <2>1 DEF PastTree, Rec
  <2>4. QED
    BY <1>1, <2>2, <2>3, TreeKeeps
<1>2. CASE Reads(d)
  <2>1. UNCHANGED stranded /\ ~DropsRow(d) /\ (PastTree(d)' => ~Rec(d)'.uses_worktree)
    BY <1>2, ReadsFacts DEF rowVars, DropsRow, DelAt, PastTree, SameJob
  <2>2. QED
    BY <1>1, <2>1
<1>3. CASE \E a \in Agents, force, drop \in BOOLEAN : DeleteBegins(d, a, force, drop)
  <2>1. UNCHANGED stranded /\ ~DropsRow(d) /\ (PastTree(d)' => ~Rec(d)'.uses_worktree)
    BY <1>3, DeleteBeginsFacts DEF rowVars, DropsRow, DelAt, PastTree
  <2>2. QED
    BY <1>1, <2>1
<1>4. CASE RemovesTree(d)
  <2> DEFINE p == WorkPath(Rec(d))
  <2>1. /\ trees'[p] = NoTree /\ stranded' \in {stranded, stranded \ {p}} /\ Rec(d)' = Rec(d)
        /\ del[d].at = "tree"
    BY <1>4, RemovesTreeFacts DEF SameJob
  <2>2. Left(d)' /\ ~DropsRow(d)
    BY <2>1 DEF Left, DropsRow, DelAt, WorkPath
  <2>3. QED
    BY <1>1, <2>1, <2>2
<1>5. CASE FallsBack(d)
  <2> DEFINE p == WorkPath(Rec(d))
  <2>1. /\ stranded' = IF trees'[p] # NoTree THEN stranded \union {p} ELSE stranded \ {p}
        /\ Rec(d)' = Rec(d) /\ del[d].at = "tree"
    BY <1>5, FallsBackFacts DEF SameJob
  <2>2. Left(d)' /\ ~DropsRow(d)
    BY <2>1 DEF Left, DropsRow, DelAt, WorkPath
  <2>3. QED
    BY <1>1, <2>1, <2>2
<1>6. CASE DropsBranch(d)
  <2>1. /\ UNCHANGED stranded /\ ~DropsRow(d) /\ PastTree(d)
        /\ (PastTree(d)' => del'[d].agent = del[d].agent /\ Rec(d)' = Rec(d))
    BY <1>6, DropsBranchFacts DEF rowVars, SameJob, PastTree, DropsRow, DelAt
  <2>2. QED
    BY <1>1, <2>1
<1>7. CASE DeleteDropped(d)
  <2>1. UNCHANGED stranded /\ ~PastTree(d)'
    BY <1>7, DeleteDroppedFacts DEF PastTree
  <2>2. CASE DropsRow(d)
    BY <2>2, DropsRowTrees
  <2>3. CASE ~DropsRow(d)
    BY <1>1, <2>1, <2>3
  <2>4. QED
    BY <2>2, <2>3
<1>8. QED
  BY <1>2, <1>3, <1>4, <1>5, <1>6, <1>7, DropsRowTrees DEF Deleting, Reads

LEMMA NextTrees == ASSUME Types, MakerInv, TreeInv, [Next]_vars PROVE TreeInv'
<1>1. ASSUME UNCHANGED <<rowVars, spawn, del>>, TreesKept PROVE TreeInv'
  <2>1. \A m \in Agents : Placed(m) => Placed(m)'
    BY <1>1 DEF Placed, SpawnAt, rowVars
  <2>2. QED
    BY <1>1, <2>1, TreeKeeps DEF PastTree, Rec, rowVars
<1>2. ASSUME NEW a \in Agents, Spawning(a) PROVE TreeInv'
  BY <1>2, MakingTrees, SpawningTrees
<1>3. ASSUME NEW d \in Deletes, Deleting(d) PROVE TreeInv'
  <2>1. TreesKept
    <3>1. \A a \in Agents : ~MakesInPlace(a) /\ ~MakesWorktree(a)
      BY <1>3, SpawningFacts, DeletingFacts DEF MakesInPlace, MakesWorktree, Prepared, SpawnAt,
         Types, SpawnTypes
    <3>2. QED
      BY <1>3, <3>1, KeptOrMade DEF Next
  <2>2. QED
    BY <1>3, <2>1, DeletingTrees
<1>4. CASE OthersBranch \/ Works \/ UNCHANGED vars \/ \E c \in Clones : Cloning(c)
  <2>1. UNCHANGED <<rowVars, spawn, del>>
    BY <1>4, OthersBranchFacts, WorksFacts, CloningFacts DEF vars
  <2>2. \A a \in Agents : ~MakesInPlace(a) /\ ~MakesWorktree(a)
    BY <2>1 DEF MakesInPlace, MakesWorktree, Prepared, SpawnAt, Types, SpawnTypes
  <2>3. TreesKept
    BY <2>2, KeptOrMade
  <2>4. QED
    BY <1>1, <2>1, <2>3
<1>5. CASE ServerDies
  <2>1. /\ del' = [d \in Deletes |-> Idle] /\ stranded \subseteq stranded'
        /\ \A a \in Agents : SpawnAt(a, "prepared") /\ spawn[a].row.uses_worktree =>
              WorkPath(spawn[a].row) \in stranded'
        /\ row' = row /\ trees' = trees
    BY <1>5, ServerDiesFacts DEF gitVars
  <2>2. ASSUME NEW m \in Agents, Placed(m)
        PROVE  Placed(m)' \/ \A p \in Paths : trees[p] # NoTree /\ trees[p].maker = m => p \in stranded'
    <3>1. CASE SpawnAt(m, "prepared")
      BY <2>1, <2>2, <3>1 DEF MakerInv, OwnsTree, Record
    <3>2. CASE row[m] # NoRow
      BY <2>1, <3>2 DEF Placed
    <3>3. QED
      BY <2>2, <3>1, <3>2 DEF Placed
  <2>3. \A d \in Deletes : ~PastTree(d)'
    BY <2>1 DEF PastTree, Idle
  <2>4. QED
    BY <2>1, <2>2, <2>3, TreeKeeps DEF TreesKept
<1>6. QED
  BY <1>2, <1>3, <1>4, <1>5 DEF Next, World, Works

--------------------------------------------------------------------------------
(* What an agent has from its making until a delete is past it.            *)
HoldsTree(a) ==
  /\ Placed(a) /\ Record(a).uses_worktree /\ a \notin halfway
  /\ \A d \in Deletes : PastTree(d) => del[d].agent # a
HoldsBranch(a) ==
  /\ Placed(a) /\ Record(a).branch_is_new /\ a \notin halfway
  /\ \A d \in Deletes : del[d].at = "row" => del[d].agent # a

HasTree(a) ==
  LET t == trees[WorkPath(Record(a))] IN
    t # NoTree /\ t.there /\ t.maker = a /\ t.branch = Record(a).branch
BranchMaker(a) == made[Record(a).folder][Record(a).branch]

(* It is there, and its own; and no branch of its name is the operator's.  *)
Holds(a) ==
  /\ HoldsTree(a) => HasTree(a)
  /\ HoldsBranch(a) => BranchMaker(a) = a
  /\ Placed(a) /\ Record(a).branch_is_new => BranchMaker(a) # Other
Excused == "deletes" \in excused \/ wiped
HoldInv == Excused \/ \A a \in Agents : Holds(a)

LEMMA RecordFacts ==
  ASSUME Types, NEW a \in Agents, Placed(a)
  PROVE  /\ Sound(Record(a)) /\ Record(a).folder \in Folders /\ Record(a).slug \in Slugs
         /\ WorkPath(Record(a)) \in Paths /\ WorkPath(Record(a))[1] = Record(a).folder
         /\ spawn[a].at \in {"prepared", "done"}
<1>1. Sound(Record(a)) /\ spawn[a].at \in {"prepared", "done"}
  BY SpawnFacts DEF Placed, Record, SpawnAt, Types, RowTypes
<1>2. QED
  BY <1>1 DEF Sound, Row, WorkPath, Paths

(* Who is being deleted is placed, by the row the delete goes by.          *)
LEMMA OwnRecord ==
  ASSUME Types, DelInv, "deletes" \notin excused, NEW d \in Deletes, del[d].at # "idle"
  PROVE  /\ del[d].agent \in Agents /\ Placed(del[d].agent) /\ Record(del[d].agent) = Rec(d)
         /\ del[d].agent \in Rows /\ del[d].agent \notin dropped
         /\ \A e \in Deletes : del[e].at # "idle" /\ del[e].agent = del[d].agent => d = e
<1>1. /\ del[d].agent \in Agents /\ SpawnAt(del[d].agent, "done") /\ Rec(d) \in Row
      /\ row[del[d].agent] = Rec(d) /\ del[d].agent \notin dropped
      /\ \A e \in Deletes : del[e].at # "idle" /\ del[e].agent = del[d].agent => d = e
  BY JobFacts DEF DelInv
<1>2. QED
  BY <1>1, NoRowIsNone DEF Placed, Record, Rows, SpawnAt

(* Another of its slug has no row yet, and then its own delete is the      *)
(* first.                                                                  *)
LEMMA SameName ==
  ASSUME Types, DelInv, HalfInv, "deletes" \notin excused, NEW d \in Deletes, del[d].at # "idle",
         NEW m \in Agents, m # del[d].agent, Placed(m), Record(m).slug = Rec(d).slug
  PROVE  SpawnAt(m, "prepared") /\ del[d].agent \notin halfway
<1> DEFINE e == del[d].agent
<1>1. /\ e \in Rows /\ Record(e) = Rec(d) /\ SpawnAt(e, "done") /\ row[e] = Rec(d)
      /\ e \notin dropped
  BY OwnRecord, JobFacts DEF DelInv
<1>2. SpawnAt(m, "prepared")
  <2>1. ASSUME ~SpawnAt(m, "prepared") PROVE FALSE
    <3>1. m \in Rows /\ row[m].slug = row[e].slug
      BY <1>1, <2>1 DEF Placed, Record, Rows
    <3>2. QED
      BY <1>1, <3>1 DEF Types, RowTypes
  <2>2. QED
    BY <2>1
<1>3. spawn[m].row.slug = row[e].slug
  BY <1>1, <1>2 DEF Record
<1>4. e \notin halfway
  BY <1>1, <1>2, <1>3 DEF HalfInv, Slug, SpawnAt, Rows
<1>5. QED
  BY <1>2, <1>4

(* No worktree of an agent that is placed is where a delete removes        *)
(* another's.                                                              *)
LEMMA NotItsTree ==
  ASSUME Types, DelInv, HalfInv, MakerInv, HoldInv, ~Excused,
         NEW d \in Deletes, DelAt(d, "tree"), Rec(d).uses_worktree,
         trees[WorkPath(Rec(d))] # NoTree, Placed(trees[WorkPath(Rec(d))].maker)
  PROVE  trees[WorkPath(Rec(d))].maker = del[d].agent
<1> DEFINE p == WorkPath(Rec(d))
           e == del[d].agent
           m == trees[p].maker
<1>1. del[d].at # "idle" /\ "deletes" \notin excused
  BY DEF DelAt, Excused
<1>2. p \in Paths /\ p = <<Rec(d).folder, Rec(d).slug>>
  BY <1>1, JobFacts DEF WorkPath
<1>3. m \in Agents /\ WorkPath(Record(m)) = p
  BY <1>2, MakersOf DEF MakerInv, OwnsTree
<1> SUFFICES ASSUME m # e PROVE FALSE
  OBVIOUS
<1>4. Record(m).slug = Rec(d).slug
  BY <1>2, <1>3 DEF WorkPath
<1>5. e \notin halfway
  BY <1>1, <1>3, <1>4, SameName
<1>6. e \in Agents /\ Placed(e) /\ Record(e) = Rec(d)
      /\ \A x \in Deletes : del[x].at # "idle" /\ del[x].agent = e => d = x
  BY <1>1, OwnRecord
<1>7. HoldsTree(e)
  BY <1>5, <1>6 DEF HoldsTree, PastTree, DelAt
<1>8. QED
  BY <1>6, <1>7 DEF HoldInv, Holds, HasTree

LEMMA NotItsBranch ==
  ASSUME Types, DelInv, HalfInv, MakerInv, HoldInv, ~Excused,
         NEW d \in Deletes, DelAt(d, "branch"), DropsIt(d),
         made[Rec(d).folder][Rec(d).branch] = Other \/ Placed(made[Rec(d).folder][Rec(d).branch])
  PROVE  made[Rec(d).folder][Rec(d).branch] = del[d].agent
<1> DEFINE f == Rec(d).folder
           b == Rec(d).branch
           e == del[d].agent
           m == made[f][b]
<1>1. del[d].at # "idle" /\ "deletes" \notin excused
  BY DEF DelAt, Excused
<1>2. f \in Folders /\ b \in Branches /\ Rec(d).branch_is_new /\ b = BranchName(Rec(d).slug)
      /\ Rec(d).slug \in Slugs
  BY <1>1, JobFacts DEF DropsIt
<1>3. e \in Agents /\ Placed(e) /\ Record(e) = Rec(d)
      /\ \A x \in Deletes : del[x].at # "idle" /\ del[x].agent = e => d = x
  BY <1>1, OwnRecord
<1>4. m # Other /\ m \in Agents
  <2>1. m # Other
    BY <1>2, <1>3 DEF HoldInv, Holds, BranchMaker
  <2>2. QED
    BY <2>1, DropsItTyped
<1> SUFFICES ASSUME m # e PROVE FALSE
  OBVIOUS
<1>5. /\ Placed(m) /\ Record(m).branch_is_new /\ Record(m).branch = b
      /\ Sound(Record(m)) /\ Record(m).slug \in Slugs
  BY <1>2, <1>4, RecordFacts DEF MakerInv, OwnsBranch
<1>6. Record(m).slug = Rec(d).slug
  BY <1>2, <1>5, BranchFacts DEF Sound
<1>7. e \notin halfway
  BY <1>1, <1>4, <1>5, <1>6, SameName
<1>8. HoldsBranch(e)
  BY <1>2, <1>3, <1>7 DEF HoldsBranch, DelAt
<1>9. QED
  BY <1>3, <1>8 DEF HoldInv, Holds, BranchMaker

(* What is excused stays so.                                               *)
LEMMA ExcusedStays == ASSUME Types, [Next]_vars PROVE Excused => Excused'
<1>1. ASSUME excused \subseteq excused', wiped => wiped' PROVE Excused => Excused'
  BY <1>1 DEF Excused
<1>2. ASSUME NEW a \in Agents, Spawning(a) PROVE Excused => Excused'
  BY <1>1, <1>2, SpawningFacts DEF histVars
<1>3. ASSUME NEW d \in Deletes, Deleting(d) PROVE Excused => Excused'
  BY <1>1, <1>3, DeletingFacts
<1>4. ASSUME NEW c \in Clones, Cloning(c) PROVE Excused => Excused'
  <2>1. wiped => wiped'
    BY <1>4 DEF Cloning, CloneChecks, CloneRuns, CloneLands, CloneFails, CloneCleans, CloneLeaves,
                seenVars,
                histVars
  <2>2. QED
    BY <1>1, <1>4, <2>1, CloningFacts
<1>5. CASE UNCHANGED histVars
  BY <1>1, <1>5 DEF histVars
<1>6. CASE World
  BY <1>5, <1>6, OthersBranchFacts, WorksFacts, ServerDiesFacts DEF World, Works
<1>7. CASE UNCHANGED vars
  BY <1>5, <1>7 DEF vars, seenVars
<1>8. QED
  BY <1>2, <1>3, <1>4, <1>6, <1>7 DEF Next

LEMMA NextKeepsOthers ==
  ASSUME Types, DelInv, HalfInv, MakerInv, HoldInv, KeepsOthers, [Next]_vars PROVE KeepsOthers'
<1> SUFFICES ASSUME ~Excused' PROVE robbed' = {}
  BY DEF KeepsOthers, Excused
<1>1. ~Excused /\ robbed = {}
  BY ExcusedStays DEF KeepsOthers, Excused
<1>2. ASSUME NEW d \in Deletes, Deleting(d) PROVE robbed' = robbed
  <2>1. ASSUME RemovesTree(d) \/ FallsBack(d), trees[WorkPath(Rec(d))] # NoTree,
               Robs(d, trees[WorkPath(Rec(d))].maker)
        PROVE  robbed' = robbed
    <3> DEFINE m == trees[WorkPath(Rec(d))].maker
    <3>1. DelAt(d, "tree") /\ Rec(d).uses_worktree /\ del[d].at # "idle"
      BY <2>1 DEF RemovesTree, FallsBack, DelAt
    <3>2. m \in Agents
      BY <2>1, <3>1, JobFacts, MakersOf
    <3>3. m # del[d].agent => ~Placed(m)
      BY <1>1, <2>1, <3>1, NotItsTree
    <3> HIDE DEF m
    <3>4. Robs(d, m)
      BY <2>1 DEF m
    <3>5. robbed' # robbed =>
            m # del[d].agent /\ (m = Other \/ row[m] # NoRow \/ SpawnAt(m, "prepared"))
      BY <3>1, <3>2, <3>4, RobsFacts
    <3>6. m # Other
      BY <3>2, NoOneIsAgent
    <3>7. QED
      BY <3>3, <3>5, <3>6 DEF Placed
  <2>2. CASE RemovesTree(d)
    BY <2>1, <2>2, RemovesTreeFacts, NoTreeIsNone
  <2>3. CASE FallsBack(d)
    BY <2>1, <2>3, FallsBackFacts
  <2>4. CASE DropsBranch(d)
    <3>1. CASE DropsIt(d)
      <4> DEFINE m == made[Rec(d).folder][Rec(d).branch]
      <4>1. DelAt(d, "branch") /\ del[d].at # "idle"
        BY <2>4 DEF DropsBranch, DelAt
      <4>2. m \in Agents \union {Other} /\ Robs(d, m)
        BY <3>1, DropsItTyped DEF DropsIt
      <4>3. m # del[d].agent => m # Other /\ ~Placed(m)
        BY <1>1, <3>1, <4>1, NotItsBranch
      <4> HIDE DEF m
      <4>4. robbed' # robbed =>
              m # del[d].agent /\ (m = Other \/ row[m] # NoRow \/ SpawnAt(m, "prepared"))
        BY <4>1, <4>2, RobsFacts
      <4>5. QED
        BY <4>3, <4>4 DEF Placed
    <3>2. QED
      BY <2>4, <3>1, DropsBranchFacts
  <2>5. CASE ~RemovesTree(d) /\ ~FallsBack(d) /\ ~DropsBranch(d)
    BY <1>2, <2>5 DEF Deleting, DeleteBegins, ReadsStatus, ReadsLog, NothingToRemove,
                      RemovalRefused,
                      DropsRow, DeleteDropped, seenVars, histVars
  <2>6. QED
    BY <2>2, <2>3, <2>4, <2>5
<1>3. ASSUME NEW a \in Agents, Spawning(a) PROVE robbed' = robbed
  BY <1>3, SpawningFacts DEF histVars
<1>4. CASE UNCHANGED histVars
  BY <1>1, <1>4 DEF histVars
<1>5. CASE World
  BY <1>4, <1>5, OthersBranchFacts, WorksFacts, ServerDiesFacts DEF World, Works
<1>6. CASE UNCHANGED vars
  BY <1>4, <1>6 DEF vars, seenVars
<1>7. QED
  BY <1>1, <1>2, <1>3, <1>5, <1>6, CloningFacts DEF Next

(* Whoever holds a place held it before, if it was placed before.          *)
HoldsKept(a) == /\ Placed(a)' => Placed(a) /\ Record(a)' = Record(a)
                /\ HoldsTree(a)' => HoldsTree(a)
                /\ HoldsBranch(a)' => HoldsBranch(a)

LEMMA HoldsOn ==
  ASSUME Types, NEW a \in Agents, Placed(a)' => Placed(a) /\ Record(a)' = Record(a),
         halfway \subseteq halfway',
         \A d \in Deletes : del[d].at \in {"branch", "row"} /\ del[d].agent = a /\ Placed(a)'
                             /\ a \notin halfway' =>
           /\ del'[d].agent = a /\ PastTree(d)'
           /\ del[d].at = "row" => del'[d].at = "row"
  PROVE  HoldsKept(a)
BY DEF HoldsKept, HoldsTree, HoldsBranch, PastTree

LEMMA NextHoldsOn ==
  ASSUME Types, [Next]_vars, NEW a \in Agents, spawn[a].at \in {"prepared", "done"}
  PROVE  HoldsKept(a)
<1>1. Placed(a)' => Placed(a) /\ Record(a)' = Record(a)
  BY NextSettles DEF Settles
<1>2. ASSUME UNCHANGED del, halfway \subseteq halfway' PROVE HoldsKept(a)
  BY <1>1, <1>2, HoldsOn DEF PastTree
<1>3. ASSUME NEW d \in Deletes, Deleting(d) PROVE HoldsKept(a)
  <2>1. halfway \subseteq halfway' /\ spawn' = spawn /\ \A e \in Deletes : e # d => del'[e] = del[e]
    BY <1>3, DeletingFacts
  <2>2. del[d].at \in {"branch", "row"} /\ del[d].agent = a /\ Placed(a)' /\ a \notin halfway' =>
          del'[d].agent = a /\ del'[d].at = "row"
    <3> SUFFICES ASSUME del[d].at \in {"branch", "row"}, del[d].agent = a, Placed(a)',
                        a \notin halfway'
                 PROVE  del'[d].agent = a /\ del'[d].at = "row"
      OBVIOUS
    <3>1. CASE DropsBranch(d)
      BY <3>1, DropsBranchFacts DEF SameJob
    <3>2. CASE DropsRow(d)
      <4>1. row'[a] = NoRow /\ SpawnAt(a, "done")
        BY <3>2, DropsRowFacts, JobFacts
      <4>2. ~Placed(a)'
        BY <2>1, <4>1 DEF Placed, SpawnAt
      <4>3. QED
        BY <4>2
    <3>3. ~DeleteDropped(d)
      BY DeleteDroppedFacts DEF Half
    <3>4. QED
      BY <1>3, <3>1, <3>2, <3>3 DEF Deleting, DeleteBegins, ReadsStatus, ReadsLog, NothingToRemove,
                              RemovalRefused, RemovesTree, FallsBack, DelAt
  <2>3. \A e \in Deletes : del[e].at \in {"branch", "row"} /\ del[e].agent = a /\ Placed(a)'
                            /\ a \notin halfway' =>
          /\ del'[e].agent = a /\ PastTree(e)'
          /\ del[e].at = "row" => del'[e].at = "row"
    BY <2>1, <2>2 DEF PastTree
  <2>4. QED
    BY <1>1, <2>1, <2>3, HoldsOn
<1>4. ASSUME NEW b \in Agents, Spawning(b) PROVE HoldsKept(a)
  BY <1>2, <1>4, SpawningFacts
<1>5. CASE ServerDies
  <2>1. halfway \subseteq halfway' /\ \A d \in Deletes : PastTree(d) => del[d].agent \in halfway'
    BY <1>5, ServerDiesFacts DEF PastTree
  <2>2. QED
    BY <1>1, <2>1, HoldsOn DEF PastTree
<1>6. CASE OthersBranch \/ Works \/ UNCHANGED vars \/ \E c \in Clones : Cloning(c)
  BY <1>2, <1>6, OthersBranchFacts, WorksFacts, CloningFacts DEF rowVars, vars
<1>7. QED
  BY <1>3, <1>4, <1>5, <1>6 DEF Next, World, Works

(* Nothing that is held is touched, and no branch becomes the operator's   *)
(* under a record that says it was made.                                   *)
Untouched(a) ==
  /\ HoldsTree(a)' /\ HasTree(a) => HasTree(a)'
  /\ HoldsBranch(a)' /\ BranchMaker(a) = a => BranchMaker(a)' = a
  /\ Placed(a)' /\ Record(a).branch_is_new /\ BranchMaker(a) # Other => BranchMaker(a)' # Other

LEMMA HoldsStay ==
  ASSUME NEW a \in Agents, Holds(a), HoldsKept(a), Untouched(a) PROVE Holds(a)'
BY DEF Holds, HoldsKept, Untouched

(* Where the worktree and the branch of a record stay the same.            *)
LEMMA SameStay ==
  ASSUME NEW a \in Agents, HoldsKept(a),
         LET t == trees[WorkPath(Record(a))]
             u == trees'[WorkPath(Record(a))]
         IN HoldsTree(a)' /\ HasTree(a) =>
              u # NoTree /\ u.there /\ u.maker = t.maker /\ u.branch = t.branch,
         HoldsBranch(a)' /\ BranchMaker(a) = a => made'[Record(a).folder][Record(a).branch] = a,
         Placed(a)' /\ Record(a).branch_is_new /\ BranchMaker(a) # Other =>
           made'[Record(a).folder][Record(a).branch] # Other
  PROVE  Untouched(a)
<1>1. CASE Placed(a)'
  <2>1. Record(a)' = Record(a)
    BY <1>1 DEF HoldsKept
  <2>2. WorkPath(Record(a))' = WorkPath(Record(a))
    BY <2>1 DEF WorkPath
  <2>3. QED
    BY <2>1, <2>2 DEF Untouched, HasTree, BranchMaker
<1>2. CASE ~Placed(a)'
  BY <1>2 DEF Untouched, HoldsTree, HoldsBranch
<1>3. QED
  BY <1>1, <1>2

LEMMA StillUntouched ==
  ASSUME Types, NEW a \in Agents, HoldsKept(a), UNCHANGED <<trees, made>> PROVE Untouched(a)
BY SameStay DEF HasTree, BranchMaker

LEMMA DeletingUntouched ==
  ASSUME Types, DelInv, HalfInv, MakerInv, HoldInv, ~Excused, NEW d \in Deletes, Deleting(d),
         NEW a \in Agents, HoldsKept(a)
  PROVE  Untouched(a)
<1> DEFINE q == WorkPath(Record(a))
           f == Record(a).folder
           b == Record(a).branch
<1>1. ASSUME RemovesTree(d) \/ FallsBack(d) PROVE Untouched(a)
  <2> DEFINE p == WorkPath(Rec(d))
  <2>1. /\ DelAt(d, "tree") /\ Rec(d).uses_worktree /\ del'[d].at = "branch"
        /\ del'[d].agent = del[d].agent /\ made' = made
        /\ \A x \in Paths : x # p /\ trees[x] # NoTree /\ trees[x].there => trees'[x] = trees[x]
    BY <1>1, RemovesTreeFacts, FallsBackFacts DEF SameJob, DelAt
  <2>2. ASSUME HoldsTree(a)', HasTree(a) PROVE trees'[q] = trees[q]
    <3>1. Placed(a) /\ q \in Paths
      BY <2>2, RecordFacts DEF HoldsTree, HoldsKept
    <3>2. trees[q] # NoTree /\ trees[q].there /\ trees[q].maker = a
      BY <2>2 DEF HasTree
    <3>3. del'[d].agent # a
      BY <2>1, <2>2 DEF HoldsTree, PastTree
    <3>4. q # p
      BY <2>1, <3>1, <3>2, <3>3, NotItsTree
    <3>5. QED
      BY <2>1, <3>1, <3>2, <3>4
  <2>3. HoldsTree(a)' /\ HasTree(a) =>
          /\ trees'[q] # NoTree /\ trees'[q].there
          /\ trees'[q].maker = trees[q].maker /\ trees'[q].branch = trees[q].branch
    BY <2>2 DEF HasTree
  <2>4. QED
    BY <2>1, <2>3, SameStay DEF BranchMaker
<1>2. CASE DropsBranch(d)
  <2>1. CASE DropsIt(d)
    <3>1. /\ DelAt(d, "branch") /\ del'[d].at = "row" /\ del'[d].agent = del[d].agent /\ trees' = trees
      BY <1>2, DropsBranchFacts DEF SameJob, DelAt
    <3>2. \A g \in Folders, c \in Branches :
            made'[g][c] = IF g = Rec(d).folder /\ c = Rec(d).branch THEN Nobody ELSE made[g][c]
      BY <2>1, DropsItTyped
    <3>3. Placed(a) /\ Record(a).branch_is_new => f \in Folders /\ b \in Branches
      BY RecordFacts, BranchFacts DEF Sound
    <3>4. ASSUME HoldsBranch(a)', BranchMaker(a) = a PROVE made'[f][b] = a
      <4>1. Placed(a) /\ f \in Folders /\ b \in Branches /\ made[f][b] = a
        BY <3>3, <3>4 DEF HoldsBranch, HoldsKept, BranchMaker
      <4>2. del'[d].agent # a
        BY <3>1, <3>4 DEF HoldsBranch
      <4>3. ~(f = Rec(d).folder /\ b = Rec(d).branch)
        BY <2>1, <3>1, <4>1, <4>2, NotItsBranch
      <4>4. QED
        BY <3>2, <4>1, <4>3
    <3>5. Placed(a)' /\ Record(a).branch_is_new /\ BranchMaker(a) # Other => made'[f][b] # Other
      BY <3>2, <3>3, NoOneIsAgent DEF HoldsKept, BranchMaker
    <3>6. QED
      BY <3>1, <3>4, <3>5, SameStay DEF HasTree
  <2>2. CASE UNCHANGED made
    BY <1>2, <2>2, DropsBranchFacts, StillUntouched
  <2>3. QED
    BY <1>2, <2>1, <2>2, DropsBranchFacts
<1>3. CASE ~RemovesTree(d) /\ ~FallsBack(d) /\ ~DropsBranch(d)
  <2>1. UNCHANGED <<made, trees>>
    BY <1>3 DEF Deleting, DeleteBegins, ReadsStatus, ReadsLog, NothingToRemove, RemovalRefused,
                DropsRow, DeleteDropped, gitVars
  <2>2. QED
    BY <2>1, StillUntouched
<1>4. QED
  BY <1>1, <1>2, <1>3

(* A clone that lands makes Main, and one that is cleaned up had nothing   *)
(* in its folder.                                                          *)
LEMMA CloningUntouched ==
  ASSUME Types, DiskInv, ~Excused', ~Excused, NEW c \in Clones, Cloning(c),
         NEW a \in Agents, HoldsKept(a)
  PROVE  Untouched(a)
<1> DEFINE q == WorkPath(Record(a))
           f == Record(a).folder
           b == Record(a).branch
<1>1. Placed(a)' => /\ q \in Paths /\ q[1] = f /\ f \in Folders
                    /\ Record(a).branch_is_new => b \in Branches /\ b # Main
  BY RecordFacts, BranchFacts DEF HoldsKept, Sound
<1>2. CASE CloneLands(c)
  <2>1. trees' = trees /\ made' = [made EXCEPT ![Target][Main] = Other]
    BY <1>2 DEF CloneLands
  <2>2. Placed(a)' /\ Record(a).branch_is_new => made'[f][b] = made[f][b]
    BY <1>1, <2>1 DEF Types, BranchTypes
  <2>3. HoldsBranch(a)' => Placed(a)' /\ Record(a).branch_is_new
    BY DEF HoldsBranch, HoldsKept
  <2>4. QED
    BY <2>1, <2>2, <2>3, SameStay DEF HasTree, BranchMaker
<1>3. CASE CloneCleans(c)
  <2>1. /\ made' = [made EXCEPT ![Target] = [x \in Branches |-> Nobody]]
        /\ trees' = [p \in Paths |-> IF p[1] = Target THEN NoTree ELSE trees[p]]
        /\ disk[Target] # "there" /\ ~wiped
    BY <1>3 DEF CloneCleans, Excused
  <2>2. /\ \A p \in Paths : p[1] = Target => trees[p] = NoTree
        /\ \A x \in Branches : made[Target][x] = Nobody
    BY <2>1 DEF DiskInv
  <2>3. \A p \in Paths : trees'[p] = trees[p]
    BY <2>1, <2>2
  <2>4. \A g \in Folders, x \in Branches : made'[g][x] = made[g][x]
    BY <2>1, <2>2 DEF Types, BranchTypes
  <2>5. HoldsBranch(a)' => Placed(a)' /\ Record(a).branch_is_new
    BY DEF HoldsBranch, HoldsKept
  <2>6. HoldsTree(a)' => Placed(a)'
    BY DEF HoldsTree
  <2>7. QED
    BY <1>1, <2>3, <2>4, <2>5, <2>6, SameStay DEF HasTree, BranchMaker
<1>4. CASE ~CloneLands(c) /\ ~CloneCleans(c)
  <2>1. UNCHANGED <<made, trees>>
    BY <1>4 DEF Cloning, CloneChecks, CloneRuns, CloneFails, CloneLeaves, gitVars
  <2>2. QED
    BY <2>1, StillUntouched
<1>5. QED
  BY <1>2, <1>3, <1>4

(* git makes no branch and no worktree where one is.                       *)
LEMMA MakingFacts ==
  ASSUME Types, NEW m \in Agents, MakesInPlace(m) \/ MakesWorktree(m)
  PROVE  LET r == spawn[m].row IN
         /\ Sound(r) /\ r.branch \in Branches /\ r.folder \in Folders
         /\ spawn'[m] = [at |-> "prepared", row |-> r]
         /\ \A f \in Folders, b \in Branches :
              made'[f][b] = IF r.branch_is_new /\ f = r.folder /\ b = r.branch THEN m ELSE made[f][b]
         /\ r.branch_is_new => made[r.folder][r.branch] = Nobody
         /\ \A p \in Paths : trees[p] # NoTree => trees'[p] = trees[p]
         /\ r.uses_worktree =>
              trees'[WorkPath(r)] = [branch |-> r.branch, dirty |-> FALSE, maker |-> m, there |-> TRUE]
<1> DEFINE r == spawn[m].row
<1>1. DOMAIN spawn = Agents
  BY DEF Types, SpawnTypes
<1>2. CASE MakesInPlace(m)
  <2>1. SpawnAt(m, "named") /\ Well(spawn[m]) /\ spawn[m].in_place
    BY <1>2, SpawnFacts DEF MakesInPlace
  <2>2. Sound(r) /\ r.branch \in Branches /\ ~r.uses_worktree /\ r.folder \in Folders
    BY <2>1, SpawnFacts DEF SpawnAt, Well
  <2>3. Makes(r, m) /\ MayMake(r) /\ Prepared(m, r) /\ trees' = trees
    BY <1>2 DEF MakesInPlace
  <2>4. spawn'[m] = [at |-> "prepared", row |-> r]
    BY <1>1, <2>3 DEF Prepared
  <2> HIDE DEF r
  <2>5. /\ \A f \in Folders, b \in Branches :
             made'[f][b] = IF r.branch_is_new /\ f = r.folder /\ b = r.branch THEN m ELSE made[f][b]
        /\ r.branch_is_new => made[r.folder][r.branch] = Nobody
    BY <2>2, <2>3, MakesBranches
  <2>6. QED
    BY <2>2, <2>3, <2>4, <2>5 DEF r
<1>3. CASE MakesWorktree(m)
  <2>1. PICK x \in Row :
          LET p == WorkPath(x) IN
          /\ x = r /\ Sound(x) /\ x.branch \in Branches /\ x.folder \in Folders
          /\ trees[p] = NoTree /\ MayMake(x) /\ Makes(x, m) /\ Prepared(m, x)
          /\ trees'[p] = [branch |-> x.branch, dirty |-> FALSE, maker |-> m, there |-> TRUE]
          /\ \A q \in Paths : q # p => trees'[q] = trees[q]
    BY <1>3, MakesWorktreeFacts
  <2>2. spawn'[m] = [at |-> "prepared", row |-> x]
    BY <1>1, <2>1 DEF Prepared
  <2>3. /\ \A f \in Folders, b \in Branches :
             made'[f][b] = IF x.branch_is_new /\ f = x.folder /\ b = x.branch THEN m ELSE made[f][b]
        /\ x.branch_is_new => made[x.folder][x.branch] = Nobody
    BY <2>1, MakesBranches
  <2>4. \A p \in Paths : trees[p] # NoTree => trees'[p] = trees[p]
    BY <2>1
  <2>5. QED
    BY <2>1, <2>2, <2>3, <2>4
<1>4. QED
  BY <1>2, <1>3

LEMMA MakingUntouched ==
  ASSUME Types, NEW m \in Agents, MakesInPlace(m) \/ MakesWorktree(m),
         NEW a \in Agents, HoldsKept(a)
  PROVE  Untouched(a)
<1> DEFINE q == WorkPath(Record(a))
           f == Record(a).folder
           b == Record(a).branch
           r == spawn[m].row
<1>1. Placed(a)' => /\ q \in Paths /\ f \in Folders
                    /\ Record(a).branch_is_new => b \in Branches
  BY RecordFacts, BranchFacts DEF HoldsKept, Sound
<1>2. /\ \A g \in Folders, c \in Branches :
           made'[g][c] = IF r.branch_is_new /\ g = r.folder /\ c = r.branch THEN m ELSE made[g][c]
      /\ r.branch_is_new => made[r.folder][r.branch] = Nobody
      /\ \A p \in Paths : trees[p] # NoTree => trees'[p] = trees[p]
  BY MakingFacts
<1>3. HoldsTree(a)' /\ HasTree(a) => trees'[q] = trees[q]
  BY <1>1, <1>2 DEF HoldsTree, HasTree
<1>4. HoldsBranch(a)' /\ BranchMaker(a) = a => made'[f][b] = a
  BY <1>1, <1>2, NoOneIsAgent DEF HoldsBranch, HoldsKept, BranchMaker
<1>5. Placed(a)' /\ Record(a).branch_is_new /\ BranchMaker(a) # Other => made'[f][b] # Other
  BY <1>1, <1>2, NoOneIsAgent DEF BranchMaker
<1>6. QED
  BY <1>3, <1>4, <1>5, SameStay DEF HasTree

(* The operator's branches have no name that a row holds, nor that of a    *)
(* branch that is there.                                                   *)
LEMMA OthersUntouched ==
  ASSUME Types, OthersBranch, NEW a \in Agents, HoldsKept(a), Holds(a) PROVE Untouched(a)
<1> DEFINE f == Record(a).folder
           b == Record(a).branch
<1>1. PICK g \in Folders, c \in Branches :
        /\ made[g][c] = Nobody
        /\ \A x \in Rows : row[x].folder = g => row[x].branch # c
        /\ \A h \in Folders, x \in Branches :
             made'[h][x] = IF h = g /\ x = c THEN Other ELSE made[h][x]
        /\ UNCHANGED <<rowVars, spawn, del, trees>>
  BY OthersBranchFacts
<1>2. Placed(a)' => /\ f \in Folders
                    /\ Record(a).branch_is_new => b \in Branches
  BY RecordFacts, BranchFacts DEF HoldsKept, Sound
<1>3. HoldsBranch(a)' /\ BranchMaker(a) = a => made'[f][b] = a
  BY <1>1, <1>2, NoOneIsAgent DEF HoldsBranch, HoldsKept, BranchMaker
<1>4. ASSUME Placed(a)', Record(a).branch_is_new, BranchMaker(a) # Other PROVE made'[f][b] # Other
  <2>1. CASE SpawnAt(a, "prepared")
    <3>1. a \notin halfway /\ \A d \in Deletes : del[d].at = "row" => del[d].agent # a
      BY <2>1, JobFacts DEF SpawnAt, Types, HistTypes
    <3>2. HoldsBranch(a)
      BY <1>4, <3>1 DEF HoldsBranch, HoldsKept
    <3>3. made[f][b] = a
      BY <3>2 DEF Holds, BranchMaker
    <3>4. QED
      BY <1>1, <1>2, <1>4, <3>3, NoOneIsAgent
  <2>2. CASE ~SpawnAt(a, "prepared")
    <3>1. a \in Rows /\ Record(a) = row[a]
      BY <1>4, <2>2 DEF HoldsKept, Placed, Record, Rows
    <3>2. ~(f = g /\ b = c)
      BY <1>1, <3>1
    <3>3. QED
      BY <1>1, <1>2, <1>4, <3>2 DEF BranchMaker
  <2>3. QED
    BY <2>1, <2>2
<1>5. QED
  BY <1>1, <1>3, <1>4, SameStay DEF HasTree

(* An agent's place is its own from the step that prepares it.             *)
LEMMA NewHolds ==
  ASSUME Types, [Next]_vars, NEW a \in Agents, spawn[a].at \notin {"prepared", "done"}
  PROVE  Holds(a)'
<1>1. ASSUME ~Placed(a)' PROVE Holds(a)'
  BY <1>1 DEF Holds, HoldsTree, HoldsBranch
<1>2. row[a] = NoRow /\ DOMAIN spawn = Agents
  BY DEF Types, RowTypes, SpawnTypes, SpawnAt
<1>3. CASE Spawning(a)
  <2>1. CASE MakesInPlace(a) \/ MakesWorktree(a)
    <3> DEFINE r == spawn[a].row
    <3>1. /\ spawn'[a] = [at |-> "prepared", row |-> r] /\ r.folder \in Folders /\ r.branch \in Branches
          /\ r.branch_is_new => made'[r.folder][r.branch] = a
          /\ r.uses_worktree =>
               trees'[WorkPath(r)] = [branch |-> r.branch, dirty |-> FALSE, maker |-> a, there |-> TRUE]
      BY <2>1, MakingFacts
    <3>2. Record(a)' = r /\ WorkPath(Record(a))' = WorkPath(r)
      BY <3>1 DEF Record, SpawnAt, WorkPath
    <3> HIDE DEF r
    <3>3. r.uses_worktree => HasTree(a)'
      <4>1. [branch |-> r.branch, dirty |-> FALSE, maker |-> a, there |-> TRUE] \in Tree
        BY <3>1 DEF Tree
      <4>2. QED
        BY <3>1, <3>2, <4>1, NoTreeIsNone DEF HasTree
    <3>4. r.branch_is_new => BranchMaker(a)' = a
      BY <3>1, <3>2 DEF BranchMaker
    <3>5. QED
      BY <3>2, <3>3, <3>4, NoOneIsAgent DEF Holds, HoldsTree, HoldsBranch
  <2>2. CASE PreparesNothing(a) /\ ~SpawnEnds(a)
    <3>1. PICK r : ~r.uses_worktree /\ ~r.branch_is_new /\ Prepared(a, r)
      BY <2>2, PreparesNothingFacts
    <3>2. Record(a)' = r
      BY <1>2, <3>1 DEF Prepared, Record, SpawnAt
    <3>3. QED
      BY <3>1, <3>2 DEF Holds, HoldsTree, HoldsBranch
  <2>3. CASE ~MakesInPlace(a) /\ ~MakesWorktree(a) /\ ~(PreparesNothing(a) /\ ~SpawnEnds(a))
    <3>1. spawn'[a].at # "prepared"
      BY <1>2, <1>3, <2>3 DEF Spawning, SpawnBegins, PreparesNothing, ChoosesNames, SpawnFails,
                              Inserts,
                              InsertRefused, SpawnDropped, Strands, SpawnEnds
    <3>2. row' = row
      BY <1>3, SpawningFacts DEF Inserts, MayInsert, SpawnAt
    <3>3. QED
      BY <1>1, <1>2, <3>1, <3>2 DEF Placed, SpawnAt
  <2>4. QED
    BY <2>1, <2>2, <2>3
<1>4. ASSUME row'[a] \in {NoRow, row[a]}, spawn'[a].at # "prepared" PROVE Holds(a)'
  BY <1>1, <1>2, <1>4 DEF Placed, SpawnAt
<1>5. ASSUME NEW b \in Agents, b # a, Spawning(b) PROVE Holds(a)'
  BY <1>4, <1>5, SpawningFacts
<1>6. ASSUME NEW d \in Deletes, Deleting(d) PROVE Holds(a)'
  BY <1>4, <1>6, DeletingFacts, DropsRowFacts
<1>7. CASE ServerDies
  BY <1>4, <1>7, ServerDiesFacts
<1>8. CASE OthersBranch \/ Works \/ UNCHANGED vars \/ \E c \in Clones : Cloning(c)
  BY <1>4, <1>8, OthersBranchFacts, WorksFacts, CloningFacts DEF rowVars, vars
<1>9. QED
  BY <1>3, <1>5, <1>6, <1>7, <1>8 DEF Next, World, Works

LEMMA NextHold ==
  ASSUME Types, DiskInv, DelInv, HalfInv, MakerInv, HoldInv, [Next]_vars PROVE HoldInv'
<1> SUFFICES ASSUME ~Excused', NEW a \in Agents PROVE Holds(a)'
  BY DEF HoldInv
<1>1. ~Excused /\ Holds(a)
  BY ExcusedStays DEF HoldInv
<1>2. CASE spawn[a].at \in {"prepared", "done"}
  <2>1. HoldsKept(a)
    BY <1>2, NextHoldsOn
  <2>2. ASSUME NEW m \in Agents, Spawning(m) PROVE Untouched(a)
    <3>1. CASE MakesInPlace(m) \/ MakesWorktree(m)
      BY <2>1, <3>1, MakingUntouched
    <3>2. CASE ~MakesInPlace(m) /\ ~MakesWorktree(m)
      <4>1. UNCHANGED <<made, trees>>
        BY <2>2, <3>2 DEF Spawning, SpawnBegins, PreparesNothing, ChoosesNames, SpawnFails, Inserts,
                          InsertRefused, SpawnDropped, Strands, gitVars
      <4>2. QED
        BY <2>1, <4>1, StillUntouched
    <3>3. QED
      BY <3>1, <3>2
  <2>3. ASSUME NEW d \in Deletes, Deleting(d) PROVE Untouched(a)
    BY <1>1, <2>1, <2>3, DeletingUntouched
  <2>4. ASSUME NEW c \in Clones, Cloning(c) PROVE Untouched(a)
    BY <1>1, <2>1, <2>4, CloningUntouched
  <2>5. ASSUME OthersBranch PROVE Untouched(a)
    BY <1>1, <2>1, <2>5, OthersUntouched
  <2>6. ASSUME Works PROVE Untouched(a)
    <3>1. TreesStand /\ made' = made
      BY <2>6, WorksFacts
    <3>2. Placed(a)' => WorkPath(Record(a)) \in Paths
      BY <2>1, RecordFacts DEF HoldsKept
    <3>3. QED
      BY <2>1, <3>1, <3>2, SameStay DEF TreesStand, HasTree, BranchMaker, HoldsTree
  <2>7. ASSUME ServerDies \/ UNCHANGED vars PROVE Untouched(a)
    BY <2>1, <2>7, ServerDiesFacts, StillUntouched DEF vars, gitVars
  <2>8. Untouched(a)
    BY <2>2, <2>3, <2>4, <2>5, <2>6, <2>7 DEF Next, World, Works
  <2>9. QED
    BY <1>1, <2>1, <2>8, HoldsStay
<1>3. CASE spawn[a].at \notin {"prepared", "done"}
  BY <1>3, NewHolds
<1>4. QED
  BY <1>2, <1>3

--------------------------------------------------------------------------------
(* The whole.                                                              *)

WorkspaceInv ==
  /\ Types /\ NothingLost /\ CloneInv /\ DiskInv /\ DelInv /\ HalfInv
  /\ MakerInv /\ TreeInv /\ HoldInv /\ KeepsOthers

LEMMA InitInv == Init => WorkspaceInv
<1> SUFFICES ASSUME Init PROVE WorkspaceInv
  OBVIOUS
<1>1. Types /\ CloneInv /\ DiskInv
  BY InitTypes, InitClones
<1>2. NothingLost /\ KeepsOthers /\ DelInv /\ HalfInv
  BY DEF Init, NothingLost, KeepsOthers, DelInv, HalfInv
<1>3. (\A a \in Agents : ~Placed(a)) /\ (\A p \in Paths : trees[p] = NoTree)
  BY DEF Init, Placed, SpawnAt
<1>4. \A f \in Folders, b \in Branches : made[f][b] \notin Agents
  BY NoOneIsAgent DEF Init, OnlyMain
<1>5. \A d \in Deletes : ~PastTree(d)
  BY DEF Init, PastTree
<1>6. MakerInv /\ TreeInv
  BY <1>3, <1>4, <1>5 DEF MakerInv, TreeInv
<1>7. HoldInv
  BY <1>3 DEF HoldInv, Holds, HoldsTree, HoldsBranch
<1>8. QED
  BY <1>1, <1>2, <1>6, <1>7 DEF WorkspaceInv

LEMMA NextInv == WorkspaceInv /\ [Next]_vars => WorkspaceInv'
BY NextTypes, NothingLostKept, NextClones, NextDels, NextHalf, NextMakers, NextTrees, NextHold,
   NextKeepsOthers DEF WorkspaceInv

(* The invariant that all of it rests on holds in every behaviour of the   *)
(* model: of the spawns, deletes and clones in any order, of clients that  *)
(* hang up and of crashes.                                                 *)
THEOREM WorkspaceInvHolds == Spec => []WorkspaceInv
BY InitInv, NextInv, PTL DEF Spec

(* A delete that nobody forced loses no work, whatever the agents and the  *)
(* operator do between its check and its removals.                         *)
THEOREM NothingLostHolds == Spec => []NothingLost
<1>1. WorkspaceInv => NothingLost
  BY DEF WorkspaceInv
<1>2. QED
  BY <1>1, WorkspaceInvHolds, PTL

(* What a delete removes, forced or not, is its own agent's.               *)
THEOREM KeepsOthersHolds == Spec => []KeepsOthers
<1>1. WorkspaceInv => KeepsOthers
  BY DEF WorkspaceInv
<1>2. QED
  BY <1>1, WorkspaceInvHolds, PTL

(* The clean-up of a clone that failed removes no other clone.             *)
THEOREM CloneIsKeptHolds == Spec => []CloneIsKept
<1>1. WorkspaceInv => CloneIsKept
  BY DEF WorkspaceInv, CloneInv, CloneIsKept
<1>2. QED
  BY <1>1, WorkspaceInvHolds, PTL

(* A row has the worktree it speaks of, and a worktree has its row or is   *)
(* known to be left to itself.                                             *)
THEOREM RowsAndTreesAgreeHolds == Spec => []RowsAndTreesAgree
<1>1. WorkspaceInv => RowHasItsTree
  <2> SUFFICES ASSUME WorkspaceInv, excused = {}, NEW a \in Rows, row[a].uses_worktree, a \notin halfway,
                      \A d \in Deletes : PastTree(d) => del[d].agent # a
               PROVE  LET t == trees[WorkPath(row[a])] IN
                        t # NoTree /\ t.there /\ t.maker = a /\ t.branch = row[a].branch
    BY DEF RowHasItsTree, PastTree
  <2>1. ~Excused
    BY DEF WorkspaceInv, CloneInv, CloneIsKept, Excused
  <2>2. a \in Agents /\ Placed(a) /\ Record(a) = row[a]
    BY DEF Rows, Placed, Record, WorkspaceInv, Types, RowTypes, SpawnAt
  <2>3. HoldsTree(a)
    BY <2>2 DEF HoldsTree
  <2>4. QED
    BY <2>1, <2>2, <2>3 DEF WorkspaceInv, HoldInv, Holds, HasTree
<1>2. WorkspaceInv => TreeHasItsRow
  <2> SUFFICES ASSUME WorkspaceInv, NEW p \in Paths, trees[p] # NoTree, p \notin stranded
               PROVE  \E a \in Agents :
                        \/ row[a] # NoRow /\ WorkPath(row[a]) = p
                        \/ SpawnAt(a, "prepared") /\ WorkPath(spawn[a].row) = p
    BY DEF TreeHasItsRow
  <2>1. PICK m \in Agents : m = trees[p].maker
    BY MakersOf DEF WorkspaceInv
  <2>2. Placed(m) /\ WorkPath(Record(m)) = p
    BY <2>1 DEF WorkspaceInv, TreeInv, MakerInv, OwnsTree
  <2>3. QED
    BY <2>2 DEF Placed, Record
<1>3. QED
  BY <1>1, <1>2, WorkspaceInvHolds, PTL DEF RowsAndTreesAgree

(* Commits are made in turn: every branch, and what was pushed, is of those*)
(* made so far.                                                            *)
Counted == pushed \subseteq 1..commits
           /\ \A f \in Folders, b \in Branches : tips[f][b] \subseteq 1..commits

LEMMA CountedKeeps ==
  ASSUME Types, Counted, UNCHANGED <<pushed, commits>>,
         \A f \in Folders, b \in Branches :
           tips'[f][b] = {} \/ \E g \in Folders, c \in Branches : tips'[f][b] = tips[g][c]
  PROVE  Counted'
BY DEF Counted

LEMMA MakesCounted ==
  ASSUME Types, Counted, NEW a, NEW r, Sound(r), MayMake(r), Makes(r, a),
         UNCHANGED <<pushed, commits>>
  PROVE  Counted'
<1>1. tips \in [Folders -> [Branches -> SUBSET Commits]] /\ r.folder \in Folders
  BY DEF Types, BranchTypes, Sound, Row
<1>2. CASE ~r.branch_is_new
  BY <1>2, CountedKeeps DEF Makes
<1>3. CASE r.branch_is_new
  <2>1. r.base_ref \in Branches
    BY <1>3 DEF MayMake, Exists
  <2>2. tips' = [tips EXCEPT ![r.folder][r.branch] = tips[r.folder][r.base_ref]]
    BY <1>3 DEF Makes
  <2>3. \A f \in Folders, b \in Branches :
          tips'[f][b] \in {tips[f][b], tips[r.folder][r.base_ref]}
    BY <1>1, <2>2
  <2> QED
    BY <1>1, <2>1, <2>3, CountedKeeps
<1> QED
  BY <1>2, <1>3

LEMMA CommitsCounted ==
  ASSUME Types, Counted, NEW f \in Folders, NEW b \in Branches, CommitsTo(f, b), UNCHANGED pushed
  PROVE  Counted'
<1>1. tips \in [Folders -> [Branches -> SUBSET Commits]] /\ commits \in Nat
  BY WorkspaceAssumption DEF Types, BranchTypes, WorkTypes
<1>2. tips' = [tips EXCEPT ![f][b] = tips[f][b] \union {commits + 1}] /\ commits' = commits + 1
  BY DEF CommitsTo
<1>3. \A g \in Folders, c \in Branches : tips'[g][c] \subseteq tips[g][c] \union {commits + 1}
  BY <1>1, <1>2
<1>4. 1..commits \subseteq 1..commits' /\ commits + 1 \in 1..commits'
  BY <1>1, <1>2
<1> QED
  BY <1>3, <1>4 DEF Counted

LEMMA NextCounted == ASSUME Types, Counted, [Next]_vars PROVE Counted'
<1> USE DEF rowVars, gitVars, seenVars, histVars
<1>1. CASE UNCHANGED <<tips, pushed, commits>>
  BY <1>1 DEF Counted
<1>2. ASSUME NEW a \in Agents, MakesInPlace(a) \/ MakesWorktree(a) PROVE Counted'
  <2>1. CASE MakesInPlace(a)
    <3>1. Sound(spawn[a].row)
      BY <2>1, SpawnFacts DEF MakesInPlace, SpawnAt
    <3> QED
      BY <2>1, <3>1, MakesCounted DEF MakesInPlace
  <2>2. CASE MakesWorktree(a)
    BY <2>2, MakesWorktreeFacts, MakesCounted DEF MakesWorktree
  <2> QED
    BY <1>2, <2>1, <2>2
<1>3. ASSUME NEW a \in Agents, Spawning(a) PROVE Counted'
  BY <1>1, <1>2, <1>3
  DEF Spawning, SpawnBegins, PreparesNothing, ChoosesNames, SpawnFails, Inserts, InsertRefused,
      SpawnDropped, Strands
<1>4. ASSUME NEW d \in Deletes, Deleting(d) PROVE Counted'
  <2>1. CASE DropsBranch(d)
    <3> DEFINE f == Rec(d).folder
               b == Rec(d).branch
    <3>1. tips \in [Folders -> [Branches -> SUBSET Commits]]
      BY DEF Types, BranchTypes
    <3>2. tips' = tips \/ tips' = [tips EXCEPT ![f][b] = {}]
      BY <2>1 DEF DropsBranch
    <3> HIDE DEF f, b
    <3>3. \A g \in Folders, c \in Branches : tips'[g][c] \in {tips[g][c], {}}
      BY <3>1, <3>2
    <3>4. UNCHANGED <<pushed, commits>>
      BY <2>1 DEF DropsBranch
    <3> QED
      BY <3>3, <3>4, CountedKeeps
  <2> QED
    BY <1>1, <1>4, <2>1
    DEF Deleting, DeleteBegins, ReadsStatus, ReadsLog, NothingToRemove, RemovesTree, RemovalRefused,
        FallsBack, DropsRow, DeleteDropped
<1>5. ASSUME NEW c \in Clones, Cloning(c) PROVE Counted'
  <2>1. CASE CloneCleans(c)
    <3>1. \A g \in Folders, b \in Branches : tips'[g][b] \in {tips[g][b], {}}
      BY <2>1 DEF CloneCleans, NoTips, Types, BranchTypes
    <3>2. UNCHANGED <<pushed, commits>>
      BY <2>1 DEF CloneCleans
    <3> QED
      BY <3>1, <3>2, CountedKeeps
  <2> QED
    BY <1>1, <1>5, <2>1 DEF Cloning, CloneChecks, CloneRuns, CloneLands, CloneFails, CloneLeaves
<1>6. CASE World
  <2>1. CASE Committed
    <3>1. \A p \in Paths : InTree(p) => trees[p].branch \in Branches /\ p[1] \in Folders
      BY DEF InTree, Types, TreeTypes, Tree, Paths
    <3>2. \A f \in Folders : head[f] \in Branches
      BY DEF Types, BranchTypes
    <3>3. \E f \in Folders, b \in Branches : CommitsTo(f, b)
      BY <2>1, <3>1, <3>2 DEF Committed
    <3>4. UNCHANGED pushed
      BY <2>1 DEF Committed
    <3> QED
      BY <3>3, <3>4, CommitsCounted
  <2>2. CASE Pushes
    BY <2>2 DEF Pushes, Counted
  <2>3. CASE OthersBranch
    <3>1. PICK f \in Folders, b \in Branches : tips' = [tips EXCEPT ![f][b] = tips[f][head[f]]]
      BY <2>3 DEF OthersBranch
    <3>2. tips \in [Folders -> [Branches -> SUBSET Commits]] /\ head[f] \in Branches
      BY DEF Types, BranchTypes
    <3>3. \A g \in Folders, c \in Branches : tips'[g][c] \in {tips[g][c], tips[f][head[f]]}
      BY <3>1, <3>2
    <3>4. UNCHANGED <<pushed, commits>>
      BY <2>3 DEF OthersBranch
    <3> QED
      BY <3>2, <3>3, <3>4, CountedKeeps
  <2> QED
    BY <1>1, <1>6, <2>1, <2>2, <2>3 DEF World, Edits, Switches, Shuts, ServerDies
<1>7. CASE UNCHANGED vars
  BY <1>1, <1>7 DEF vars
<1> QED
  BY <1>3, <1>4, <1>5, <1>6, <1>7 DEF Next

(* Every variable keeps its type.                                          *)
THEOREM TypeCorrect == Spec => []TypeOK
<1>1. Init => Counted
  BY DEF Init, Counted, NoTips
<1>2. Types /\ Counted => TypeOK
  <2> SUFFICES ASSUME Types, Counted PROVE TypeOK
    OBVIOUS
  <2>1. \A a \in Agents : spawn[a].at \in {"idle", "taken", "named", "prepared", "done"}
    BY DEF Types, SpawnTypes, Well
  <2>2. \A d \in Deletes : del[d].at \in {"idle", "status", "log", "tree", "branch", "row"}
    BY DEF Types, DelTypes, Job, Idle
  <2> QED
    BY <2>1, <2>2
    DEF Types, Counted, TypeOK, RowTypes, CloneTypes, TreeTypes, BranchTypes, WorkTypes, HistTypes
<1>3. Types /\ Counted /\ [Next]_vars => Counted'
  BY NextCounted
<1> QED
  BY <1>1, <1>2, <1>3, WorkspaceInvHolds, PTL DEF Spec, WorkspaceInv
================================================================================
