------------------------------ MODULE BranchCmd ------------------------------
(***************************************************************************)
(* "jiri branch" with -d, -D, -delete-merged and -delete-merged-cl of      *)
(* cmd/jiri/branch.go in one project.  Projects are independent of each    *)
(* other: the workers share nothing but the count of failures.             *)
(***************************************************************************)
EXTENDS GitRepo

CONSTANTS
  RemoteBranch,  \* the branch of the remote the manifest names
  JiriHead,      \* GetHeadRevision of the project: a branch of the remote or a revision
  MaxExtra,      \* the most commits a branch may differ by to be looked up in Gerrit
  Submitted,     \* changes that are merged in Gerrit,
  NoChangeId,    \* and changes whose message has no Change-Id
  BranchRepos,    \* the repositories the command may find
  BranchCommands  \* the commands given: records of mode, branch ("" for all) and override

ASSUME BranchAssumption ==
  /\ \A r \in BranchRepos : IsRepository(r)
  /\ JiriHead \in ({"origin"} \X Branches) \cup ({"commit"} \X Revs)

VARIABLES
  repo,     \* the repository
  first,    \* history: the repository the command found
  opts,     \* the command
  config,   \* "ignore" if the local config says Ignore or NoUpdate, "absent" if the manifest
            \* has not the project, or "plain"
  gerrit,   \* does the manifest name a Gerrit host for the project?
  pc,
  todo,     \* what GetAllBranchesInfo has said of the branches the loop has still to look at
  deleted,  \* deletedBranches
  noMap,    \* is deletedBranches nil?
  failed,   \* has an error been collected?
  faults

branchVars == <<repo, first, opts, config, gerrit, pc, todo, deleted, noMap, failed, faults>>
branchGiven == <<first, opts, config, gerrit>>

Fault == faults < MaxFaults /\ faults' = faults + 1
-----------------------------------------------------------------------------
\* What becomes of a branch: the repository, is the branch gone, was there an error?
Outcome(r, gone, err) == [repo |-> r, gone |-> gone, err |-> err]

\* Delete a branch, from the checkout c of JIRI_HEAD if HEAD is on it to the way back if git
\* does not delete it, which is an error if it is told to by force.
Away(r, i) == IF i.isHead THEN CheckoutBranch(r, JiriHead, TRUE) ELSE {Done(r)}
Ends(i, c, d, force) ==
  CASE c.res # "ok" -> {Outcome(c.repo, FALSE, TRUE)}
    [] c.res = "ok" /\ d.res = "ok" -> {Outcome(d.repo, TRUE, FALSE)}
    [] c.res = "ok" /\ d.res # "ok" /\ ~i.isHead -> {Outcome(d.repo, FALSE, force)}
    [] c.res = "ok" /\ d.res # "ok" /\ i.isHead ->
         {Outcome(b.repo, FALSE, force \/ b.res # "ok") : b \in CheckoutBranch(d.repo, Local(i.name), FALSE)}
Discard(r, i, force) == UNION {Ends(i, c, DeleteBranch(c.repo, i.name, force), force) : c \in Away(r, i)}

Become(os) ==
  \E o \in os :
    /\ repo' = o.repo
    /\ deleted' = IF o.gone THEN deleted \cup {Head(todo).name} ELSE deleted
    /\ failed' = (failed \/ o.err)

Stay(err) == Become({Outcome(repo, FALSE, err)})

InTheWay(i) == i.isHead /\ (repo.dirty \/ repo.untracked)
Asked(i) == opts.branch \in {NoName, i.name}
-----------------------------------------------------------------------------
BranchInit ==
  /\ repo \in BranchRepos /\ first = repo
  /\ opts \in BranchCommands /\ config \in {"plain", "ignore", "absent"} /\ gerrit \in BOOLEAN
  /\ pc = "start" /\ todo = <<>> /\ deleted = {} /\ noMap = FALSE /\ failed = FALSE /\ faults = 0

Skipped == (config = "ignore" /\ ~opts.override) \/ (config = "absent" /\ opts.mode \notin {"-d", "-D"})

\* Nothing is done to a project the user has taken out of jiri's hands, or that is not in
\* the manifest.
Start ==
  /\ pc = "start"
  /\ \/ Skipped /\ pc' = "done" /\ UNCHANGED <<todo, noMap, failed, faults>>
     \/ /\ ~Skipped
        /\ pc' = IF opts.mode \in {"-d", "-D"} THEN "delete" ELSE "merged"
        /\ \/ todo' = GetAllBranchesInfo(repo) /\ UNCHANGED <<noMap, failed, faults>>
           \/ Fault /\ todo' = <<>> /\ noMap' = TRUE /\ failed' = TRUE
  /\ UNCHANGED <<repo, branchGiven, deleted>>

Next1(at) == pc = at /\ todo # <<>> /\ todo' = Tail(todo) /\ UNCHANGED <<branchGiven, pc, noMap>>

\* deleteBranches: -d and -D are those of git.
Delete ==
  /\ Next1("delete")
  /\ LET d == DeleteBranch(repo, Head(todo).name, opts.mode = "-D") IN
     IF Asked(Head(todo)) THEN Become({Outcome(d.repo, d.res = "ok", d.res # "ok")}) ELSE Stay(FALSE)
  /\ UNCHANGED faults

\* deleteProjectMergedBranches: a branch that tracks nothing is deleted by force if the
\* branch of the manifest has it, others if git finds them merged.
Merged ==
  /\ Next1("merged")
  /\ LET i == Head(todo)
         loose == i.tracking = NoRef
         into == Remote(RemoteBranch) IN
     \/ ~Asked(i) /\ Stay(FALSE)
     \/ Asked(i) /\ loose /\ ~Exists(repo, into) /\ Stay(TRUE)
     \/ /\ Asked(i) /\ loose /\ Exists(repo, into)
        /\ i.name \notin MergedBranches(repo, into) \/ InTheWay(i)
        /\ Stay(FALSE)
     \/ /\ Asked(i) /\ loose /\ Exists(repo, into)
        /\ i.name \in MergedBranches(repo, into) /\ ~InTheWay(i)
        /\ Become(Discard(repo, i, TRUE))
     \/ Asked(i) /\ ~loose /\ InTheWay(i) /\ Stay(FALSE)
     \/ Asked(i) /\ ~loose /\ ~InTheWay(i) /\ Become(Discard(repo, i, FALSE))
  /\ UNCHANGED faults

\* With -delete-merged-cl the branches are listed again, if there is a Gerrit to ask.
MergedEnds ==
  /\ pc = "merged" /\ todo = <<>>
  /\ IF opts.mode = "-delete-merged-cl" /\ gerrit
     THEN /\ pc' = "cls"
          /\ \/ todo' = GetAllBranchesInfo(repo) /\ UNCHANGED <<failed, faults>>
             \/ Fault /\ UNCHANGED todo /\ failed' = TRUE
     ELSE pc' = "done" /\ UNCHANGED <<todo, failed, faults>>
  /\ UNCHANGED <<repo, branchGiven, deleted, noMap>>

LocalIn(commits) == {Last(x.own) : x \in {y \in commits : y.own # <<>>}}

\* Mutant: one change that is merged is enough.
SomeSubmitted(commits) == LocalIn(commits) = {} \/ LocalIn(commits) \cap (Submitted \ NoChangeId) # {}

\* The commits of the remote have gone through Gerrit.
AllSubmitted(commits) == LocalIn(commits) \subseteq Submitted \ NoChangeId

\* deleteProjectMergedClsBranches: a branch is deleted by force if all it has more than what
\* it tracks, or than the branch of the manifest, is merged in Gerrit.
MergedCls ==
  /\ Next1("cls")
  /\ LET i == Head(todo)
         base == IF i.tracking = NoRef THEN Remote(RemoteBranch) ELSE i.tracking
         extra == ExtraCommits(i.revision, RevisionOf(repo, base)) IN
     \/ (~Asked(i) \/ InTheWay(i)) /\ Stay(FALSE) /\ UNCHANGED faults
     \/ Asked(i) /\ ~InTheWay(i) /\ ~Exists(repo, base) /\ Stay(TRUE) /\ UNCHANGED faults
     \/ /\ Asked(i) /\ ~InTheWay(i) /\ Exists(repo, base)
        /\ Cardinality(extra) > MaxExtra \/ ~AllSubmitted(extra)
        /\ Stay(FALSE) /\ UNCHANGED faults
     \/ Asked(i) /\ ~InTheWay(i) /\ Exists(repo, base) /\ extra # {} /\ Fault /\ Stay(TRUE)
     \/ /\ Asked(i) /\ ~InTheWay(i) /\ Exists(repo, base)
        /\ Cardinality(extra) <= MaxExtra /\ AllSubmitted(extra)
        /\ Become(Discard(repo, i, TRUE)) /\ UNCHANGED faults

\* What the second loop has deleted is put into the map of the first, which is nil if the
\* branches could not be listed then: a panic.
LoopEnds ==
  /\ pc \in {"delete", "cls"} /\ todo = <<>>
  /\ pc' = IF noMap /\ deleted # {} THEN "panic" ELSE "done"
  /\ UNCHANGED <<repo, branchGiven, todo, deleted, noMap, failed, faults>>

BranchStep == Start \/ Delete \/ Merged \/ MergedEnds \/ MergedCls \/ LoopEnds

BranchFinished == pc \in {"done", "panic"} /\ UNCHANGED branchVars
BranchNext == BranchStep \/ BranchFinished
BranchSpec == BranchInit /\ [][BranchNext]_branchVars
-----------------------------------------------------------------------------
\* The changes that are in a repository, on local branches, at HEAD or fetched.
Saved(r) ==
  Range(HeadOf(r).own) \cup (UNION {Range(r.tip[b].own) : b \in DOMAIN r.tip})
    \cup (UNION {Range(r.origin[b].own) : b \in DOMAIN r.origin})

\* But for -D, no change is lost with the branches that are deleted, in whatever order they
\* are and however they track each other: it is still in the repository, or Gerrit has
\* merged it and -delete-merged-cl has asked.
ChangesSaved ==
  opts.mode # "-D" =>
    Saved(first) \subseteq Saved(repo) \cup IF opts.mode = "-delete-merged-cl" THEN Submitted ELSE {}

\* At the end HEAD is on the branch it was on, or nothing was on that branch to be kept and
\* the project is at JIRI_HEAD, as the message says; an error is reported otherwise.
HeadKept ==
  pc = "done" /\ ~failed =>
    IF first.on \in DOMAIN repo.tip \cup {"none"} THEN repo.on = first.on
    ELSE repo.on = "none" /\ HeadOf(repo) = RevisionOf(repo, JiriHead)

\* Deleting branches takes neither changes nor HEAD away from the user.
BranchKept == ChangesSaved /\ HeadKept
==============================================================================
