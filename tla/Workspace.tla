------------------------------- MODULE Workspace -------------------------------
(***************************************************************************)
(* An agent's place to work, from its spawn to its deletion                *)
(* (src/src/agent/supervisor.rs: spawn_agent, prepare_workspace, delete;   *)
(* src/src/repo/git.rs; src/src/repo/clone.rs): the slug and the branch    *)
(* it is named by, the worktree made for it, the row that remembers both,  *)
(* and the check, the removals and the row's deletion when it goes.        *)
(*                                                                         *)
(* Every step is a query or a git command of its own.  Between two of them *)
(* other spawns, deletes and clones take theirs, the agents and the        *)
(* operator edit, commit, push and switch branches, the client that asked  *)
(* for a spawn or a delete may hang up, and the server may die.            *)
(***************************************************************************)
EXTENDS Integers, FiniteSets

CONSTANTS
  MaxSpawns,   \* bound: agents spawned
  MaxDeletes,  \* bound: requests to delete at once
  MaxClones,   \* bound: requests to clone into Target
  Folders,     \* what the picker offers
  Kind,        \* "git", "plain" or "root", for each of them
  Target,      \* the folder that clones are for, absent at first
  Requests,    \* what each spawn may ask for
  Tasks,       \* task names, slugified
  MaxSuffix,   \* bound: the suffixes of a name
  MaxCommits,  \* bound: commits made
  MaxMoves     \* bound: what comes from outside in the midst of it

Agents == 1..MaxSpawns     \* ids, fresh for every spawn
Deletes == 1..MaxDeletes
Clones == 1..MaxClones

Slugs == Tasks \X (1..MaxSuffix)
Paths == Folders \X Slugs

(* branch_name.  Main stands for a branch that no slug names.              *)
Main == <<"main">>
BranchName(slug) == <<"sw", slug[1], slug[2]>>
Branches == {Main} \union {BranchName(s) : s \in Slugs}
NoBranch == <<>>
Commits == 1..MaxCommits

(* How a request wants its branch: made anew, one that is there, or the    *)
(* current one left alone; and whether in the main checkout.               *)
Request == [folder : Folders, task : Tasks, branch : {"new", "reuse", "stay"},
            reuse : Branches \union {NoBranch}, in_place : BOOLEAN]

ASSUME WorkspaceAssumption ==
  /\ Kind \in [Folders -> {"git", "plain", "root"}] /\ Target \in Folders
  /\ Requests \in [Agents -> SUBSET Request] /\ MaxSuffix \in Nat \ {0}
  /\ MaxSpawns \in Nat /\ MaxDeletes \in Nat /\ MaxClones \in Nat
  /\ MaxCommits \in Nat /\ MaxMoves \in Nat

VARIABLES
  row,        \* the agents' rows
  spawn,      \* how far each spawn is, and what it has read
  del,        \* how far each delete is, and what it has read
  clone,      \* how far each clone is
  disk,       \* the folders: "absent", "partial" while cloned, "there"
  made,       \* by folder and branch: who made it, if it is there
  tips,       \* by folder and branch: its commits
  head,       \* by folder: the branch checked out in it
  dirty,      \* by folder: uncommitted changes in the main checkout
  trees,      \* the worktrees that are registered, by path
  litter,     \* paths of folders that no repository has registered
  shut,       \* repositories whose configuration git is not run under
  commits,    \* commits made so far
  pushed,     \* those that a remote has
  moves,      \* how much of that has come
  stranded,   \* history: worktrees left behind by a spawn or a delete
  halfway,    \* history: agents whose delete was cut short half-way
  dropped,    \* history: those of them whose client hung up on this server
  lost,       \* history: a delete nobody forced lost work
  robbed,     \* history: agents who lost a checkout or branch to another's delete
  wiped,      \* history: a clone was removed by another's clean-up
  excused     \* history: an agent deleted twice, or two clones at once

gitVars == <<made, tips, head, dirty, trees, litter, shut, commits, pushed>>
rowVars == <<row, stranded, halfway, dropped>>
histVars == <<lost, robbed, wiped, excused>>
seenVars == <<moves, histVars>>
vars == <<rowVars, spawn, del, clone, disk, gitVars, seenVars>>

Nobody == 0
Other == -1
NoTree == [branch |-> NoBranch]
Tree == [branch : Branches, dirty : BOOLEAN, maker : Agents, there : BOOLEAN]

NoRow == [slug |-> <<>>]
Row == [slug : Slugs, folder : Folders, is_git : BOOLEAN, branch : Branches \union {NoBranch},
        base_ref : Branches \union {NoBranch}, uses_worktree : BOOLEAN, branch_is_new : BOOLEAN]

Rows == {a \in Agents : row[a] # NoRow}

TypeOK ==
  /\ row \in [Agents -> Row \union {NoRow}]
  /\ \A a \in Agents : spawn[a].at \in {"idle", "taken", "named", "prepared", "done"}
  /\ \A d \in Deletes : del[d].at \in {"idle", "status", "log", "tree", "branch", "row"}
  /\ clone \in [Clones -> {"idle", "checked", "running", "failed", "done"}]
  /\ disk \in [Folders -> {"absent", "partial", "there"}]
  /\ made \in [Folders -> [Branches -> Agents \union {Nobody, Other}]]
  /\ tips \in [Folders -> [Branches -> SUBSET Commits]]
  /\ head \in [Folders -> Branches] /\ dirty \in [Folders -> BOOLEAN]
  /\ trees \in [Paths -> Tree \union {NoTree}]
  /\ litter \subseteq Paths /\ \A p \in litter : trees[p] = NoTree
  /\ shut \subseteq Folders /\ commits \in 0..MaxCommits
  /\ moves \in 0..MaxMoves /\ pushed \subseteq 1..commits
  /\ \A a \in Rows, b \in Rows : row[a].slug = row[b].slug => a = b
  /\ stranded \subseteq Paths /\ dropped \subseteq halfway /\ halfway \subseteq Agents
  /\ robbed \subseteq Agents \union {Other}
  /\ lost \in BOOLEAN /\ wiped \in BOOLEAN /\ excused \subseteq {"deletes", "clones"}

OnlyMain(f) == [b \in Branches |-> IF b = Main /\ f # Target THEN Other ELSE Nobody]
NoTips == [b \in Branches |-> {}]

Init ==
  /\ row = [a \in Agents |-> NoRow] /\ spawn = [a \in Agents |-> [at |-> "idle"]]
  /\ del = [d \in Deletes |-> [at |-> "idle"]] /\ clone = [c \in Clones |-> "idle"]
  /\ disk = [f \in Folders |-> IF f = Target THEN "absent" ELSE "there"]
  /\ made = [f \in Folders |-> OnlyMain(f)] /\ tips = [f \in Folders |-> NoTips]
  /\ head = [f \in Folders |-> Main] /\ dirty = [f \in Folders |-> FALSE]
  /\ trees = [p \in Paths |-> NoTree] /\ litter = {} /\ shut = {}
  /\ commits = 0 /\ moves = 0 /\ pushed = {} /\ stranded = {} /\ halfway = {} /\ dropped = {}
  /\ lost = FALSE /\ robbed = {} /\ wiped = FALSE /\ excused = {}

(* A bound on what comes from outside: requests to delete and to clone,    *)
(* deletes whose client hangs up, edits, commits and the like of the       *)
(* agents and the operator, and the server's end.                          *)
Moves == moves < MaxMoves /\ moves' = moves + 1

--------------------------------------------------------------------------------
(* git (external).                                                         *)

Exists(f, b) == b \in Branches /\ made[f][b] # Nobody
CheckedOut(f, b) == head[f] = b \/ \E p \in Paths : p[1] = f /\ trees[p].branch = b

(* RepoGuard: git runs where the configuration could be read and names no  *)
(* commands; and of a clone under way it can tell nothing yet.             *)
GitRuns(f) == f \notin shut /\ disk[f] = "there"

(* check_declared_commands asks for less: a configuration that cannot be   *)
(* read is let through.  Here shut stands for the commands.                *)
DeclaresCommands(f) == f \in shut

(* current_branch.                                                         *)
CurrentBranch(f) == IF GitRuns(f) THEN head[f] ELSE NoBranch

(* What is on the disk at a path.                                          *)
OnDisk(p) == p \in litter \/ (trees[p] # NoTree /\ trees[p].there)

--------------------------------------------------------------------------------
(* Spawning.                                                               *)

Slug(a) == row[a].slug

(* taken_names.                                                            *)
TakenNames == {Slug(a) : a \in Rows} \union {row[a].branch : a \in Rows}

SpawnAt(a, at) == spawn[a].at = at
SpawnEnds(a) == spawn' = [spawn EXCEPT ![a] = [at |-> "done"]]

SpawnBegins(a, r) ==
  /\ SpawnAt(a, "idle") /\ \A b \in Agents : b < a => ~SpawnAt(b, "idle")
  /\ disk[r.folder] # "absent"
  /\ r.branch = "reuse" => Exists(r.folder, r.reuse)
  /\ spawn' = [spawn EXCEPT ![a] = [at |-> "taken", req |-> r, taken |-> TakenNames]]
  /\ UNCHANGED <<rowVars, del, clone, disk, gitVars, seenVars>>

(* unique_name, up to a bound that no spawn passes.                        *)
FirstFree(n, task, taken) ==
  <<task, n>> \notin taken /\ \A m \in 1..(n - 1) : <<task, m>> \in taken
NameLeft(task, taken) == \E n \in 1..MaxSuffix : FirstFree(n, task, taken)
UniqueName(task, taken) == <<task, CHOOSE n \in 1..MaxSuffix : FirstFree(n, task, taken)>>

(* allocate_names: the suffix is the slug's and the branch's.              *)
Unavailable(taken, existing) == taken \union {s \in Slugs : BranchName(s) \in existing}

Prepared(a, r) == spawn' = [spawn EXCEPT ![a] = [at |-> "prepared", row |-> r]]

(* prepare_workspace, where it makes nothing: a configured root, a folder  *)
(* that is no repository, and one whose checkout is to be left alone.  A   *)
(* root that declares commands is refused.                                 *)
PreparesNothing(a) ==
  /\ SpawnAt(a, "taken")
  /\ LET r == spawn[a].req
         f == r.folder
         stays == Kind[f] = "git" /\ r.branch = "stay"
     IN /\ Kind[f] # "git" \/ stays
        /\ NameLeft(r.task, spawn[a].taken)
        /\ IF Kind[f] = "root" /\ DeclaresCommands(f) THEN SpawnEnds(a)
           ELSE Prepared(a, [slug |-> UniqueName(r.task, spawn[a].taken), folder |-> f,
                  is_git |-> stays, branch |-> IF stays THEN CurrentBranch(f) ELSE NoBranch,
                  base_ref |-> NoBranch, uses_worktree |-> FALSE, branch_is_new |-> FALSE])
  /\ UNCHANGED <<rowVars, del, clone, disk, gitVars, seenVars>>

(* ... and where it lists the branches, to choose one or make up its name. *)
(* A list that cannot be had is an empty one.                              *)
ChoosesNames(a) ==
  /\ SpawnAt(a, "taken")
  /\ LET r == spawn[a].req
         f == r.folder
         existing == IF GitRuns(f) THEN {b \in Branches : Exists(f, b)} ELSE {}
         new == r.branch = "new"
         taken == IF new THEN Unavailable(spawn[a].taken, existing) ELSE spawn[a].taken
         slug == UniqueName(r.task, taken)
     IN /\ Kind[f] = "git" /\ r.branch # "stay" /\ NameLeft(r.task, taken)
        /\ IF ~new /\ r.reuse \notin existing THEN SpawnEnds(a)
           ELSE spawn' = [spawn EXCEPT ![a] = [at |-> "named", in_place |-> r.in_place,
                  row |-> [slug |-> slug, folder |-> f, is_git |-> TRUE,
                           branch |-> IF new THEN BranchName(slug) ELSE r.reuse,
                           base_ref |-> IF new THEN head[f] ELSE NoBranch,
                           uses_worktree |-> ~r.in_place, branch_is_new |-> new]]]
  /\ UNCHANGED <<rowVars, del, clone, disk, gitVars, seenVars>>

(* checkout -b, checkout; worktree add -b, worktree add.  git refuses a    *)
(* branch it is to make that is there, and one to reuse that is checked    *)
(* out; the server a path that is there.                                   *)
Makes(r, a) ==
  /\ made' = IF r.branch_is_new THEN [made EXCEPT ![r.folder][r.branch] = a] ELSE made
  /\ tips' = IF r.branch_is_new
             THEN [tips EXCEPT ![r.folder][r.branch] = tips[r.folder][r.base_ref]] ELSE tips
MayMake(r) ==
  /\ GitRuns(r.folder)
  /\ IF r.branch_is_new THEN ~Exists(r.folder, r.branch) /\ Exists(r.folder, r.base_ref)
     ELSE Exists(r.folder, r.branch) /\ ~CheckedOut(r.folder, r.branch)

MakesInPlace(a) ==
  /\ SpawnAt(a, "named") /\ spawn[a].in_place
  /\ LET r == spawn[a].row IN
       /\ MayMake(r) /\ Makes(r, a) /\ head' = [head EXCEPT ![r.folder] = r.branch]
       /\ Prepared(a, r)
  /\ UNCHANGED <<rowVars, del, clone, disk, dirty, trees, litter, shut, commits, pushed, seenVars>>

MakesWorktree(a) ==
  /\ SpawnAt(a, "named") /\ ~spawn[a].in_place
  /\ LET r == spawn[a].row
         p == <<r.folder, r.slug>>
     IN /\ MayMake(r) /\ ~OnDisk(p) /\ trees[p] = NoTree /\ Makes(r, a)
        /\ trees' = [trees EXCEPT ![p] = [branch |-> r.branch, dirty |-> FALSE,
                                          maker |-> a, there |-> TRUE]]
        /\ Prepared(a, r)
  /\ UNCHANGED <<rowVars, del, clone, disk, head, dirty, litter, shut, commits, pushed, seenVars>>

(* A command that failed, for these reasons or another, made nothing.      *)
SpawnFails(a) ==
  /\ spawn[a].at \in {"taken", "named"} /\ SpawnEnds(a)
  /\ UNCHANGED <<rowVars, del, clone, disk, gitVars, seenVars>>

MayInsert(a) == SpawnAt(a, "prepared") /\ \A b \in Rows : Slug(b) # spawn[a].row.slug

(* insert_agent: the slug of a row is no other's.                          *)
Inserts(a) ==
  /\ MayInsert(a) /\ SpawnEnds(a)
  /\ row' = [row EXCEPT ![a] = spawn[a].row]
  /\ UNCHANGED <<stranded, halfway, dropped, del, clone, disk, gitVars, seenVars>>

(* What was prepared for an agent that gets no row stays.                  *)
Strands(a) ==
  /\ SpawnAt(a, "prepared") /\ SpawnEnds(a)
  /\ stranded' = IF spawn[a].row.uses_worktree
                 THEN stranded \union {<<spawn[a].row.folder, spawn[a].row.slug>>} ELSE stranded
  /\ UNCHANGED <<row, halfway, dropped, del, clone, disk, gitVars, seenVars>>
InsertRefused(a) == ~MayInsert(a) /\ Strands(a)

(* The client hangs up, and the handler goes at the await it stands at: at *)
(* the first ones like a spawn that fails; but the work on the workspace   *)
(* is done on another thread and comes to its end, and so does the insert. *)
SpawnDropped(a) == Strands(a)

--------------------------------------------------------------------------------
(* Deleting.  The row is read once, and everything after goes by it.       *)

DelAt(d, at) == del[d].at = at
DelGoes(d, at) == del' = [del EXCEPT ![d].at = at]
DelEnds(d) == del' = [del EXCEPT ![d] = [at |-> "idle"]]
Rec(d) == del[d].rec
WorkPath(r) == <<r.folder, r.slug>>

DeleteBegins(d, a, force, drop) ==
  /\ Moves /\ DelAt(d, "idle") /\ \A e \in Deletes : e < d => ~DelAt(e, "idle")
  /\ row[a] # NoRow
  /\ del' = [del EXCEPT ![d] = [at |-> IF row[a].is_git THEN "status" ELSE "row", agent |-> a,
                                rec |-> row[a], force |-> force, drop |-> drop, dirty |-> FALSE]]
  /\ excused' = excused \union
       {x \in {"deletes"} : \/ a \in dropped
                            \/ \E e \in Deletes : del[e].at # "idle" /\ del[e].agent = a}
  /\ UNCHANGED <<rowVars, spawn, clone, disk, gitVars, lost, robbed, wiped>>

(* The safety report.  A check that could not be made is not a safe one.   *)
Unsafe(d) == IF del[d].force THEN DelGoes(d, "tree") ELSE DelEnds(d)
ReadsStatus(d) ==
  /\ DelAt(d, "status")
  /\ LET r == Rec(d)
         p == WorkPath(r)
     IN IF ~GitRuns(r.folder) \/ (r.uses_worktree /\ ~OnDisk(p)) THEN Unsafe(d)
        ELSE del' = [del EXCEPT ![d].at = "log", ![d].dirty =
                       IF r.uses_worktree THEN trees[p] # NoTree /\ trees[p].dirty
                       ELSE dirty[r.folder]]
  /\ UNCHANGED <<rowVars, spawn, clone, disk, gitVars, seenVars>>

Unpushed(r) ==
  IF r.branch = NoBranch THEN {}
  ELSE (tips[r.folder][r.branch]
        \ (IF r.base_ref = NoBranch THEN {} ELSE tips[r.folder][r.base_ref])) \ pushed
ReadsLog(d) ==
  /\ DelAt(d, "log")
  /\ LET r == Rec(d)
         named == {b \in {r.branch, r.base_ref} : b # NoBranch}
     IN IF \/ ~GitRuns(r.folder) \/ ~(\A b \in named : Exists(r.folder, b))
           \/ del[d].dirty \/ Unpushed(r) # {}
        THEN Unsafe(d) ELSE DelGoes(d, "tree")
  /\ UNCHANGED <<rowVars, spawn, clone, disk, gitVars, seenVars>>

(* Mutant: the worktree is removed with --force, whatever was asked.       *)
RemovesForced(d) == GitRuns(Rec(d).folder) /\ OnDisk(WorkPath(Rec(d)))

(* git worktree remove [--force].                                          *)
GitRemoves(d) ==
  LET p == WorkPath(Rec(d)) IN
    /\ GitRuns(Rec(d).folder) /\ trees[p] # NoTree /\ trees[p].there
    /\ del[d].force \/ ~trees[p].dirty

(* What another agent made, spawned or about to be, or the operator.       *)
Robs(d, maker) ==
  robbed' = robbed \union {a \in {maker} \ {del[d].agent} :
                              a = Other \/ row[a] # NoRow \/ SpawnAt(a, "prepared")}

NothingToRemove(d) ==
  /\ DelAt(d, "tree") /\ ~Rec(d).uses_worktree /\ DelGoes(d, "branch")
  /\ UNCHANGED <<rowVars, spawn, clone, disk, gitVars, seenVars>>

RemovesTree(d) ==
  /\ DelAt(d, "tree") /\ Rec(d).uses_worktree /\ GitRemoves(d) /\ DelGoes(d, "branch")
  /\ LET p == WorkPath(Rec(d)) IN
       /\ trees' = [trees EXCEPT ![p] = NoTree] /\ Robs(d, trees[p].maker)
       /\ lost' = (lost \/ (~del[d].force /\ trees[p].dirty))
       /\ stranded' = IF trees[p].maker = del[d].agent THEN stranded ELSE stranded \ {p}
  /\ UNCHANGED <<row, halfway, dropped, spawn, clone, disk, made, tips, head, dirty, litter, shut,
                 commits, pushed, moves, wiped, excused>>

(* Mutant: a delete goes on when its worktree is still there.              *)
RefusalIgnored(d) ==
  /\ DelAt(d, "tree") /\ Rec(d).uses_worktree /\ ~del[d].force /\ DelGoes(d, "branch")
  /\ UNCHANGED <<rowVars, spawn, clone, disk, gitVars, seenVars>>

(* It refuses, for these reasons or another (a locked folder).             *)
RemovalRefused(d) ==
  /\ DelAt(d, "tree") /\ Rec(d).uses_worktree /\ ~del[d].force /\ DelEnds(d)
  /\ UNCHANGED <<rowVars, spawn, clone, disk, gitVars, seenVars>>

(* A forced delete goes on: remove_tree, which may leave the folder, and   *)
(* worktree prune, which forgets the worktrees that are not there.         *)
FallsBack(d) ==
  /\ DelAt(d, "tree") /\ Rec(d).uses_worktree /\ del[d].force /\ DelGoes(d, "branch")
  /\ LET p == WorkPath(Rec(d))
         f == Rec(d).folder
     IN \E gone \in BOOLEAN :
          LET kept == [q \in Paths |->
                IF q = p /\ gone /\ trees[q] # NoTree THEN [trees[q] EXCEPT !.there = FALSE]
                ELSE trees[q]]
          IN /\ trees' = [q \in Paths |->
                  IF GitRuns(f) /\ q[1] = f /\ kept[q] # NoTree /\ ~kept[q].there
                  THEN NoTree ELSE kept[q]]
             /\ litter' = IF gone THEN litter \ {p} ELSE litter
             /\ stranded' = IF trees'[p] # NoTree THEN stranded \union {p} ELSE stranded \ {p}
             /\ IF gone /\ trees[p] # NoTree THEN Robs(d, trees[p].maker) ELSE UNCHANGED robbed
  /\ UNCHANGED <<row, halfway, dropped, spawn, clone, disk, made, tips, head, dirty, shut, commits,
                 pushed, moves, lost, wiped, excused>>

(* Mutant: whose branch it is is not asked.                                *)
DropsAnyBranch(d) == del[d].drop /\ Rec(d).branch # NoBranch

(* A branch that was not made for the agent is kept, forced or not.        *)
MayDrop(d) == del[d].drop /\ Rec(d).branch # NoBranch /\ Rec(d).branch_is_new

(* git branch -d: what has it is a remote's branch or the one checked out. *)
Merged(d) ==
  LET f == Rec(d).folder
      b == Rec(d).branch
  IN tips[f][b] \subseteq pushed \/ tips[f][b] \subseteq tips[f][head[f]]

(* Mutant: a branch that could not be deleted ends the delete.             *)
BranchKeptEnds(d) == DelEnds(d)

(* One that is not dropped, or that git will not, is no reason to stop.    *)
BranchKept(d) == DelGoes(d, "row")

(* git branch -d, or -D.                                                   *)
DropsBranch(d) ==
  /\ DelAt(d, "branch")
  /\ LET f == Rec(d).folder
         b == Rec(d).branch
     IN IF /\ MayDrop(d) /\ GitRuns(f) /\ Exists(f, b) /\ ~CheckedOut(f, b)
           /\ del[d].force \/ Merged(d)
        THEN /\ DelGoes(d, "row")
             /\ made' = [made EXCEPT ![f][b] = Nobody] /\ tips' = [tips EXCEPT ![f][b] = {}]
             /\ Robs(d, made[f][b])
             /\ lost' = (lost \/ (~del[d].force /\
                  \E c \in tips[f][b] \ pushed : \A o \in Branches \ {b} : c \notin tips[f][o]))
        ELSE BranchKept(d) /\ UNCHANGED <<made, tips, robbed, lost>>
  /\ UNCHANGED <<rowVars, spawn, clone, disk, head, dirty, trees, litter, shut, commits,
                 pushed, moves, wiped, excused>>

DropsRow(d) ==
  /\ DelAt(d, "row") /\ DelEnds(d) /\ row' = [row EXCEPT ![del[d].agent] = NoRow]
  /\ UNCHANGED <<stranded, halfway, dropped, spawn, clone, disk, gitVars, seenVars>>

(* The client hangs up.  A git command or a query under way comes to its   *)
(* end all the same, and what would have come after it does not.           *)
Half(d) == IF del[d].at \in {"branch", "row"} THEN {del[d].agent} ELSE {}
DeleteDropped(d) ==
  /\ Moves /\ ~DelAt(d, "idle") /\ DelEnds(d)
  /\ halfway' = halfway \union Half(d) /\ dropped' = dropped \union Half(d)
  /\ UNCHANGED <<row, stranded, spawn, clone, disk, gitVars, histVars>>

--------------------------------------------------------------------------------
(* Cloning.                                                                *)

CloneGoes(c, at) == clone' = [clone EXCEPT ![c] = at]

(* Mutant: a folder that is there is not refused.                          *)
ClonesOver(c) == clone[c] = "idle"

MayClone(c) == clone[c] = "idle" /\ disk[Target] = "absent"

CloneChecks(c) ==
  /\ Moves /\ MayClone(c) /\ \A b \in Clones : b < c => clone[b] # "idle"
  /\ CloneGoes(c, "checked")
  /\ excused' = excused \union
       {x \in {"clones"} : \E o \in Clones : clone[o] \in {"checked", "running", "failed"}}
  /\ UNCHANGED <<rowVars, spawn, del, disk, gitVars, lost, robbed, wiped>>

(* git clone: a folder that is not empty is refused.                       *)
CloneRuns(c) ==
  /\ clone[c] = "checked"
  /\ IF disk[Target] = "absent"
     THEN CloneGoes(c, "running") /\ disk' = [disk EXCEPT ![Target] = "partial"]
     ELSE CloneGoes(c, "failed") /\ UNCHANGED disk
  /\ UNCHANGED <<rowVars, spawn, del, gitVars, seenVars>>

CloneLands(c) ==
  /\ clone[c] = "running" /\ CloneGoes(c, "done")
  /\ disk[Target] = "partial" /\ disk' = [disk EXCEPT ![Target] = "there"]
  /\ made' = [made EXCEPT ![Target][Main] = Other]
  /\ UNCHANGED <<rowVars, spawn, del, tips, head, dirty, trees, litter, shut, commits, pushed,
                 seenVars>>

(* A clone that fails is removed: by git, as a rule, and then by the       *)
(* server.                                                                 *)
CloneFails(c) ==
  /\ clone[c] = "running" /\ CloneGoes(c, "failed")
  /\ \/ disk' = [disk EXCEPT ![Target] = "absent"]
     \/ UNCHANGED disk
  /\ UNCHANGED <<rowVars, spawn, del, gitVars, seenVars>>

CloneCleans(c) ==
  /\ clone[c] = "failed" /\ CloneGoes(c, "done")
  /\ wiped' = (wiped \/ disk[Target] = "there" \/ \E o \in Clones : clone[o] = "running")
  /\ disk' = [disk EXCEPT ![Target] = "absent"]
  /\ made' = [made EXCEPT ![Target] = [b \in Branches |-> Nobody]]
  /\ tips' = [tips EXCEPT ![Target] = NoTips]
  /\ head' = [head EXCEPT ![Target] = Main] /\ dirty' = [dirty EXCEPT ![Target] = FALSE]
  /\ litter' = litter \union {p \in Paths : p[1] = Target /\ OnDisk(p)}
  /\ trees' = [p \in Paths |-> IF p[1] = Target THEN NoTree ELSE trees[p]]
  /\ UNCHANGED <<rowVars, spawn, del, shut, commits, pushed, moves, lost, robbed, excused>>

(* What git printed cannot be read, which kills it, or the server's own    *)
(* removal fails on the way: what is there is left.                        *)
CloneLeaves(c) ==
  /\ clone[c] \in {"running", "failed"} /\ CloneGoes(c, "done")
  /\ wiped' = (wiped \/ (clone[c] = "failed" /\
                 (disk[Target] = "there" \/ \E o \in Clones : clone[o] = "running")))
  /\ UNCHANGED <<rowVars, spawn, del, disk, gitVars, moves, lost, robbed, excused>>

--------------------------------------------------------------------------------
(* The agents and the operator (external), and the server's end.           *)

InTree(p) == trees[p] # NoTree /\ trees[p].there

Edits ==
  /\ Moves
  /\ \/ \E p \in Paths : InTree(p) /\ trees' = [trees EXCEPT ![p].dirty = TRUE] /\ UNCHANGED dirty
     \/ \E f \in Folders : /\ Kind[f] = "git" /\ disk[f] = "there"
                           /\ dirty' = [dirty EXCEPT ![f] = TRUE] /\ UNCHANGED trees
  /\ UNCHANGED <<rowVars, spawn, del, clone, disk, made, tips, head, litter, shut, commits, pushed,
                 histVars>>

CommitsTo(f, b) ==
  /\ commits < MaxCommits /\ commits' = commits + 1
  /\ tips' = [tips EXCEPT ![f][b] = @ \union {commits + 1}]
Committed ==
  /\ Moves
  /\ \/ \E p \in Paths : /\ InTree(p) /\ CommitsTo(p[1], trees[p].branch)
                         /\ trees' = [trees EXCEPT ![p].dirty = FALSE] /\ UNCHANGED dirty
     \/ \E f \in Folders : /\ Exists(f, head[f]) /\ CommitsTo(f, head[f])
                           /\ dirty' = [dirty EXCEPT ![f] = FALSE] /\ UNCHANGED trees
  /\ UNCHANGED <<rowVars, spawn, del, clone, disk, made, head, litter, shut, pushed, histVars>>

Pushes ==
  /\ Moves
  /\ \E f \in Folders, b \in Branches : tips[f][b] # {} /\ pushed' = pushed \union tips[f][b]
  /\ UNCHANGED <<rowVars, spawn, del, clone, disk, made, tips, head, dirty, trees, litter, shut,
                 commits, histVars>>

Switches ==
  /\ Moves
  /\ \E f \in Folders, b \in Branches :
       /\ Kind[f] = "git" /\ Exists(f, b) /\ ~CheckedOut(f, b) /\ ~dirty[f]
       /\ head' = [head EXCEPT ![f] = b]
  /\ UNCHANGED <<rowVars, spawn, del, clone, disk, made, tips, dirty, trees, litter, shut, commits,
                 pushed, histVars>>

(* A branch of the operator's, of a name a slug might be given; one in a   *)
(* repository.  One of a name that a row holds is left out.                *)
OthersBranch ==
  /\ Moves
  /\ \E f \in Folders, b \in Branches :
       /\ Kind[f] = "git" /\ disk[f] = "there" /\ ~Exists(f, b)
       /\ \A c \in Branches : made[f][c] = Other => c = Main
       /\ \A a \in Rows : row[a].folder = f => row[a].branch # b
       /\ \A d \in Deletes : del[d].at # "idle" /\ Rec(d).folder = f => Rec(d).branch # b
       /\ made' = [made EXCEPT ![f][b] = Other]
       /\ tips' = [tips EXCEPT ![f][b] = tips[f][head[f]]]
  /\ UNCHANGED <<rowVars, spawn, del, clone, disk, head, dirty, trees, litter, shut, commits, pushed,
                 histVars>>

Shuts ==
  /\ Moves
  /\ \E f \in Folders : Kind[f] # "plain" /\ f \notin shut /\ shut' = shut \union {f}
  /\ UNCHANGED <<rowVars, spawn, del, clone, disk, made, tips, head, dirty, trees, litter, commits,
                 pushed, histVars>>

(* git clone is killed with the server.                                    *)
ServerDies ==
  /\ Moves
  /\ spawn' = [a \in Agents |-> IF SpawnAt(a, "idle") THEN spawn[a] ELSE [at |-> "done"]]
  /\ del' = [d \in Deletes |-> [at |-> "idle"]]
  /\ clone' = [c \in Clones |-> IF clone[c] = "idle" THEN "idle" ELSE "done"]
  /\ stranded' = stranded \union
       {WorkPath(spawn[a].row) : a \in {b \in Agents : SpawnAt(b, "prepared")
                                                       /\ spawn[b].row.uses_worktree}}
  /\ halfway' = halfway \union UNION {Half(d) : d \in Deletes} /\ dropped' = {}
  /\ spawn' # spawn \/ del' # del \/ clone' # clone
  /\ UNCHANGED <<row, disk, gitVars, histVars>>

Spawning(a) ==
  \/ (\E r \in Requests[a] : SpawnBegins(a, r)) \/ PreparesNothing(a) \/ ChoosesNames(a)
  \/ MakesInPlace(a) \/ MakesWorktree(a) \/ SpawnFails(a) \/ Inserts(a) \/ InsertRefused(a)
  \/ SpawnDropped(a)
Deleting(d) ==
  \/ (\E a \in Agents, force, drop \in BOOLEAN : DeleteBegins(d, a, force, drop))
  \/ ReadsStatus(d) \/ ReadsLog(d) \/ NothingToRemove(d) \/ RemovesTree(d) \/ RemovalRefused(d)
  \/ FallsBack(d) \/ DropsBranch(d) \/ DropsRow(d) \/ DeleteDropped(d)
Cloning(c) ==
  \/ CloneChecks(c) \/ CloneRuns(c) \/ CloneLands(c) \/ CloneFails(c) \/ CloneCleans(c)
  \/ CloneLeaves(c)
World == Edits \/ Committed \/ Pushes \/ Switches \/ OthersBranch \/ Shuts \/ ServerDies

Next ==
  \/ (\E a \in Agents : Spawning(a)) \/ (\E d \in Deletes : Deleting(d))
  \/ (\E c \in Clones : Cloning(c)) \/ World

Spec == Init /\ [][Next]_vars
--------------------------------------------------------------------------------
(* Properties.                                                             *)

(* A delete that nobody forced loses no work: no uncommitted change of a   *)
(* worktree it removes, no commit that neither a remote nor another branch *)
(* has; whatever is edited, committed, pushed or switched between its      *)
(* check and its removals, which the check alone would not see.            *)
NothingLost == ~lost

(* What a delete removes, forced or not, is its own agent's: no worktree   *)
(* that was made for another since, and no branch that the agent was given *)
(* or the operator made.  Two deletes of one agent are excused where they  *)
(* are at work at once, for it goes with the first and an agent spawned    *)
(* before the second reaches the same name loses its own; and where the    *)
(* first was cut short by a client that hung up, for a spawn that had read *)
(* the names before the agent was written may have taken its worktree's    *)
(* place.  So is what follows when a clone was wiped: in the next one its  *)
(* agents' names may be anybody's.                                         *)
KeepsOthers == "deletes" \in excused \/ wiped \/ robbed = {}

(* A row that says so has its worktree, made for it and on its branch,     *)
(* from before it was written until a delete has removed it, and then a    *)
(* delete that goes on to the row, unless its client hangs up or the       *)
(* server dies first.  And every worktree belongs to a row that can be     *)
(* deleted, or to a spawn that will write one: it is left to itself only   *)
(* where a slug was refused, a forced removal failed, or the client of a   *)
(* spawn hung up or the server died in the middle of it.                   *)
RowHasItsTree ==
  excused = {} =>
    \A a \in Rows : row[a].uses_worktree =>
      \/ a \in halfway
      \/ \E d \in Deletes : del[d].at \in {"branch", "row"} /\ del[d].agent = a
      \/ LET t == trees[WorkPath(row[a])] IN
           t # NoTree /\ t.there /\ t.maker = a /\ t.branch = row[a].branch
TreeHasItsRow ==
  \A p \in Paths : trees[p] # NoTree =>
    \/ p \in stranded
    \/ \E a \in Agents :
         \/ row[a] # NoRow /\ WorkPath(row[a]) = p
         \/ SpawnAt(a, "prepared") /\ WorkPath(spawn[a].row) = p
RowsAndTreesAgree == RowHasItsTree /\ TreeHasItsRow

(* The clean-up of a clone that failed removes no other clone: a folder    *)
(* that was there is not cloned into, so what is removed is what it made   *)
(* itself.  Two requests at once for one folder are excused: both find it  *)
(* absent.                                                                 *)
CloneIsKept == wiped => "clones" \in excused
================================================================================
