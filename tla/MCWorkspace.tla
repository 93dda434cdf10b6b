------------------------------ MODULE MCWorkspace ------------------------------
(* Two spawns, two deletes and two clones over one repository with a       *)
(* branch to reuse, and the folder that is cloned into.                    *)
EXTENDS Workspace

KindIs == [f \in Folders |-> IF f = "attic" THEN "root" ELSE "git"]

Asks(f, branch, reuse, in_place) ==
  [folder |-> f, task |-> "fix", branch |-> branch, reuse |-> reuse, in_place |-> in_place]

Anew == Asks("repo", "new", NoBranch, FALSE)

RequestsAre ==
  <<{Anew, Asks("repo", "new", NoBranch, TRUE), Asks("attic", "new", NoBranch, FALSE)},
    {Anew, Asks("repo", "reuse", BranchName(<<"fix", 1>>), FALSE),
     Asks("cloned", "stay", NoBranch, FALSE)}>>
================================================================================
