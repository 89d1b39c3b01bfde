------------------------------ MODULE PatchCmd -------------------------------
(***************************************************************************)
(* "jiri patch" of cmd/jiri/patch.go: the choice of the changes of a topic *)
(* that are to be applied, and what is done to one project after the       *)
(* other, a command of git at a time.  A change is the revision Gerrit has *)
(* for it, on the changes below it.                                        *)
(***************************************************************************)
EXTENDS GitRepo

CONSTANTS
  Checkouts,     \* the projects of the workspace
  BranchOf,      \* [Checkouts -> the branch of the remote a change of the project is for]
  Topics,        \* what there may be in Gerrit: functions of project to its changes
  PatchRepos,    \* [Checkouts -> the repositories the command may find]
  PatchCommands, \* the flags: records of branch, delete, force, cherryPick, noBranch, rebase
  Pinned         \* -rebase-revision

\* The last of a change's own is what it is called, and its branch by default.
ASSUME PatchAssumption ==
  /\ \A p \in Checkouts : BranchOf[p] \in Branches /\ \A r \in PatchRepos[p] : IsRepository(r)
  /\ \A t \in Topics : IsFiniteSet(DOMAIN t) /\ \A p \in DOMAIN t : IsFiniteSet(t[p]) /\ \A x \in t[p] :
       x \in Revs /\ x.own # <<>> /\ Last(x.own) \in Names
  /\ \A c \in PatchCommands : c.branch \in Names \cup {NoName}
  /\ Pinned \in Revs

VARIABLES
  prepo,     \* [Checkouts -> repository]
  pfirst,    \* history: the repositories the command found
  pflags,    \* the command
  topic,     \* [project -> the changes of the topic]
  ppc,
  changes,   \* the changes that are still to be applied: <<project, revision>>
  lastRef,   \* where HEAD was before the cherry-pick
  failures,  \* jirix.Failures()
  rebaseFailures,
  applied,   \* history: the projects that patchProject has returned true for
  pret,      \* what runPatch has returned, or "none"
  pfaults

patchVars == <<prepo, pfirst, pflags, topic, ppc, changes, lastRef, failures, rebaseFailures, applied, pret, pfaults>>
patchGiven == <<pfirst, pflags, topic>>
counters == <<failures, rebaseFailures>>

PatchProj == Head(changes)[1]
Change == Head(changes)[2]
PatchHere == prepo[PatchProj]
BranchName == IF pflags.branch # NoName THEN pflags.branch ELSE Last(Change.own)
-----------------------------------------------------------------------------
(***************************************************************************)
(* The changes of a topic.                                                 *)
(***************************************************************************)
\* GetRelatedChanges: those below and above a change, which Gerrit lists the newest first.
Related(x, all) == {y \in all : IsAncestor(x, y) \/ IsAncestor(y, x)}
Newest(S) == {y \in S : \A z \in S : Len(z.own) <= Len(y.own)}

\* Mutant: the oldest change of a project is taken.
OldestOf(all) ==
  {IF all \subseteq Related(x, all) THEN {y \in all : \A z \in all : Len(y.own) <= Len(z.own)} ELSE {} : x \in all}

\* The changes that may be the one that is applied for those of one project, or none if they
\* are not related; for which of them Gerrit is asked is up to the order of a map.
TopOf(all) == {IF all \subseteq Related(x, all) THEN Newest(Related(x, all)) ELSE {} : x \in all}

\* What is to be applied, project by project; without a topic it is one change.
TopicChoices == {f \in [DOMAIN topic -> UNION {TopOf(topic[p]) : p \in DOMAIN topic}] :
                   \A p \in DOMAIN topic : f[p] \in TopOf(topic[p])}

Stacked == \E p \in DOMAIN topic : Cardinality(topic[p]) > 1
-----------------------------------------------------------------------------
PatchInit ==
  /\ prepo \in {r \in [Checkouts -> UNION {PatchRepos[p] : p \in Checkouts}] : \A p \in Checkouts : r[p] \in PatchRepos[p]}
  /\ pfirst = prepo
  /\ pflags \in PatchCommands /\ topic \in Topics
  /\ pflags.branch = NoName \/ pflags.rebase = "revision" => Cardinality(DOMAIN topic) = 1 /\ ~Stacked
  /\ ppc = "choose" /\ changes = <<>> /\ lastRef = NoRef
  /\ failures = 0 /\ rebaseFailures = 0 /\ applied = {} /\ pret = "none" /\ pfaults = 0

PatchReturn(r) == ppc' = "done" /\ pret' = r
PatchGoto(l) == ppc' = l /\ UNCHANGED pret

\* An error returned: nothing more is done.
Fail(r) == PatchReturn("error") /\ prepo' = [prepo EXCEPT ![PatchProj] = r] /\ UNCHANGED <<changes, counters, applied, pfaults>>
PatchFault == /\ pfaults < MaxFaults /\ pfaults' = pfaults + 1
              /\ PatchReturn("error") /\ UNCHANGED <<prepo, changes, counters, applied>>
Proceed(r, l) == PatchGoto(l) /\ prepo' = [prepo EXCEPT ![PatchProj] = r] /\ UNCHANGED <<changes, counters, applied, pfaults>>
\* A failure counted: on to the next change.
Count(r, rebase) ==
  /\ PatchGoto("next") /\ prepo' = [prepo EXCEPT ![PatchProj] = r]
  /\ failures' = failures + 1 /\ rebaseFailures' = rebaseFailures + (IF rebase THEN 1 ELSE 0)
  /\ changes' = Tail(changes) /\ UNCHANGED <<applied, pfaults>>

Choose ==
  /\ ppc = "choose"
  /\ \/ PatchFault
     \/ \E c \in TopicChoices :
          IF (pflags.cherryPick /\ Stacked) \/ \E p \in DOMAIN c : c[p] = {}
          THEN PatchReturn("error") /\ UNCHANGED <<prepo, changes, counters, applied, pfaults>>
          ELSE /\ PatchGoto("next")
               /\ \E s \in SetToSeqs(DOMAIN c) : changes' \in {f \in [DOMAIN s -> UNION {{p} \X c[p] : p \in DOMAIN c}] : \A i \in DOMAIN s : f[i][1] = s[i]}
               /\ UNCHANGED <<prepo, counters, applied, pfaults>>
  /\ UNCHANGED <<patchGiven, lastRef>>

Take ==
  /\ ppc = "next" /\ changes # <<>>
  /\ IF PatchProj \in DOMAIN prepo
     THEN PatchGoto(IF pflags.noBranch THEN "fetch" ELSE "branch") /\ UNCHANGED <<prepo, changes, counters, applied, pfaults>>
     ELSE /\ PatchGoto("next") /\ failures' = failures + 1 /\ changes' = Tail(changes)
          /\ UNCHANGED <<prepo, rebaseFailures, applied, pfaults>>
  /\ UNCHANGED <<patchGiven, lastRef>>

\* A branch of this name is deleted with -delete, and HEAD taken from it first.
DiscardOld ==
  /\ ppc = "branch" /\ BranchName \in DOMAIN PatchHere.tip /\ pflags.delete
  /\ \E c \in IF PatchHere.on = BranchName THEN CheckoutBranch(PatchHere, Remote(BranchOf[PatchProj]), TRUE) ELSE {Done(PatchHere)} :
       LET d == DeleteBranch(c.repo, BranchName, pflags.force) IN
       \/ c.res # "ok" /\ Fail(c.repo)
       \/ c.res = "ok" /\ d.res = "ok" /\ Proceed(d.repo, "fetch")
       \/ c.res = "ok" /\ d.res # "ok" /\ Count(d.repo, FALSE)
  /\ UNCHANGED <<patchGiven, lastRef>>

\* Without it the project is left.
Collide ==
  /\ ppc = "branch"
  /\ IF BranchName \in DOMAIN PatchHere.tip
     THEN ~pflags.delete /\ Count(PatchHere, FALSE) ELSE Proceed(PatchHere, "fetch")
  /\ UNCHANGED <<patchGiven, lastRef>>

FetchChange ==
  /\ ppc = "fetch"
  /\ \/ PatchFault /\ UNCHANGED lastRef
     \/ /\ Proceed(FetchRev(PatchHere, Change).repo, "create")
        /\ LET state == StateOf(PatchHere, FALSE) IN
             lastRef' = CASE ~pflags.cherryPick -> NoRef
                          [] pflags.cherryPick /\ state.current # "none" -> Local(state.current)
                          [] OTHER -> Commit(state.revision)
  /\ UNCHANGED patchGiven

\* The branch begins at the change, or at HEAD if the change is to be picked.
Create ==
  /\ ppc = "create"
  /\ LET base == IF pflags.cherryPick THEN HeadRef ELSE FetchHead
         new == IF pflags.noBranch THEN Done(PatchHere)
                ELSE CreateBranch(PatchHere, BranchName, base, Remote(BranchOf[PatchProj])) IN
     \/ new.res # "ok" /\ Fail(new.repo)
     \/ /\ new.res = "ok"
        /\ \E c \in CheckoutBranch(new.repo, IF pflags.noBranch THEN base ELSE Local(BranchName), FALSE) :
             IF c.res = "ok" THEN Proceed(c.repo, IF pflags.cherryPick THEN "pick" ELSE "patched") ELSE Fail(c.repo)
  /\ UNCHANGED <<patchGiven, lastRef>>

\* Mutant: after a cherry-pick that was aborted HEAD stays on the new branch.
PickAndStay ==
  /\ ppc = "pick"
  /\ \E c \in CherryPickOrAbort(PatchHere, TRUE) :
       IF c.res = "ok" THEN Proceed(c.repo, "patched") ELSE Count(c.repo, FALSE)
  /\ UNCHANGED <<patchGiven, lastRef>>

\* The cherry-pick is taken back if it fails: the last ref is checked out and the branch
\* deleted, by force, whether it was made here or not.
Pick ==
  /\ ppc = "pick"
  /\ \E c \in CherryPickOrAbort(PatchHere, TRUE) :
       \/ c.res = "ok" /\ Proceed(c.repo, "patched")
       \/ c.res = "error" /\ Count(c.repo, FALSE)
       \/ /\ c.res = "failed"
          /\ \E b \in CheckoutBranch(c.repo, lastRef, FALSE) :
               Count(IF b.res # "ok" \/ (pflags.noBranch /\ pflags.branch = NoName) THEN b.repo
                     ELSE DeleteBranch(b.repo, BranchName, TRUE).repo, FALSE)
  /\ UNCHANGED <<patchGiven, lastRef>>

Patched ==
  /\ ppc = "patched"
  /\ applied' = applied \cup {PatchProj}
  /\ PatchGoto(IF pflags.rebase = "no" THEN "next" ELSE "rebase")
  /\ changes' = IF pflags.rebase = "no" THEN Tail(changes) ELSE changes
  /\ UNCHANGED <<prepo, counters, pfaults, patchGiven, lastRef>>

\* rebaseProject and rebaseProjectWRevision.
PatchRebase ==
  /\ ppc = "rebase"
  /\ LET f == IF pflags.rebase = "revision" THEN FetchRev(FetchAll(PatchHere, TRUE).repo, Pinned)
              ELSE FetchBranch(PatchHere, BranchOf[PatchProj])
         onto == IF pflags.rebase = "revision" THEN Commit(Pinned) ELSE Remote(BranchOf[PatchProj]) IN
     \/ f.res # "ok" /\ Count(f.repo, FALSE)
     \/ /\ f.res = "ok"
        /\ \/ pfaults < MaxFaults /\ pfaults' = pfaults + 1 /\ PatchGoto("next") /\ failures' = failures + 1
              /\ changes' = Tail(changes) /\ UNCHANGED <<prepo, rebaseFailures, applied>>
           \/ \E b \in RebaseOrAbort(f.repo, onto, TRUE) :
                \/ b.res = "error" /\ Fail(b.repo)
                \/ b.res = "failed" /\ Count(b.repo, TRUE)
                \/ /\ b.res = "ok" /\ PatchGoto("next") /\ changes' = Tail(changes)
                   /\ prepo' = [prepo EXCEPT ![PatchProj] = b.repo] /\ UNCHANGED <<counters, applied, pfaults>>
  /\ UNCHANGED <<patchGiven, lastRef>>

End ==
  /\ ppc = "next" /\ changes = <<>>
  /\ PatchReturn(CASE failures = 0 -> "nil"
              [] failures > 0 /\ rebaseFailures = failures -> "rebaseFailed"
              [] OTHER -> "failed")
  /\ UNCHANGED <<prepo, patchGiven, changes, lastRef, counters, applied, pfaults>>

PatchStep == \/ Choose \/ Take \/ DiscardOld \/ Collide \/ FetchChange \/ Create \/ Pick \/ Patched \/ PatchRebase \/ End

PatchFinished == ppc = "done" /\ UNCHANGED patchVars
PatchNext == PatchStep \/ PatchFinished
PatchSpec == PatchInit /\ [][PatchNext]_patchVars
-----------------------------------------------------------------------------
Chain(all) == \A x, y \in all : IsAncestor(x, y) \/ IsAncestor(y, x)

\* A success means that every change of the topic is at HEAD of its project, on top of what
\* it was to be rebased on.  A topic with two changes side by side may lose one of them:
\* only one is applied if Gerrit was asked for what is related to the one below them.
PatchComplete ==
  pret = "nil" /\ ppc = "done" =>
    \A p \in DOMAIN topic : Chain(topic[p]) =>
      /\ {Last(x.own) : x \in topic[p]} \subseteq Range(HeadOf(prepo[p]).own)
      /\ pflags.rebase = "branch" => HeadOf(prepo[p]).base = prepo[p].theirs[BranchOf[p]].base

\* A project whose patch was not applied is on the branch and the revision it was on, if git
\* did what it was told: the change that could not be picked leaves nothing behind.  A
\* recipe is told that only rebases have failed if every project was patched.
TakenBack ==
  /\ ppc = "done" /\ pret # "error" /\ ~pflags.delete =>
       \A p \in Checkouts \ applied : ~prepo[p].midway =>
         prepo[p].on = pfirst[p].on /\ HeadOf(prepo[p]) = HeadOf(pfirst[p])
  /\ pret = "rebaseFailed" => DOMAIN topic \subseteq applied

\* No branch there was is gone unless -delete was given, as the help says; but with
\* -no-branch a failed cherry-pick deletes the branch that -branch names, whoever made it.
DeletesOnlyWhenTold ==
  ~pflags.delete /\ ~(pflags.noBranch /\ pflags.cherryPick) => \A p \in Checkouts : DOMAIN pfirst[p].tip \subseteq DOMAIN prepo[p].tip

\* Without -force no change is lost that was in a branch: it is still in one, or it was at
\* HEAD or in the remote's branches when the command began.
Unforced ==
  ~pflags.force /\ ~(pflags.noBranch /\ pflags.cherryPick) =>
    \A p \in Checkouts : UNION {Range(pfirst[p].tip[b].own) : b \in DOMAIN pfirst[p].tip}
      \subseteq Range(HeadOf(pfirst[p]).own)
          \cup (UNION {Range(pfirst[p].origin[b].own) : b \in DOMAIN pfirst[p].origin})
          \cup (UNION {Range(prepo[p].tip[b].own) : b \in DOMAIN prepo[p].tip})

\* A patch takes nothing away from the user that the flags do not say.
PatchKept == Unforced /\ DeletesOnlyWhenTold /\ TakenBack
==============================================================================
