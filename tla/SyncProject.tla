----------------------------- MODULE SyncProject -----------------------------
(***************************************************************************)
(* What "jiri update" and "jiri project -clean" do to the checkout of one  *)
(* project that is in its place: syncProjectMaster and resetLocalProject   *)
(* of project/project.go with the state of project/state.go and the git    *)
(* commands of gitutil.                                                    *)
(*                                                                         *)
(* The commits of the remote are 0..Top.  A branch tracks the remote,      *)
(* another branch or nothing.                                              *)
(***************************************************************************)
EXTENDS FiniteSets, Revisions

CONSTANTS
  Order,     \* the local branches there may be, as git lists them
  Top,       \* the newest commit of the remote
  Bases,     \* commits of the remote that branches may be based on
  Commands,  \* the commands given: records of their flags
  Targets,   \* the commits of the remote that may be JIRI_HEAD
  Places,    \* what git may be unable to check out: branches, or "JIRI_HEAD"
  MaxFaults  \* bound: rebases that cannot be aborted

Branches == Range(Order)

ASSUME SyncProjectAssumption ==
  /\ Order \in Seq(Branches) /\ {"none", "origin", "JIRI_HEAD"} \cap Branches = {}
  /\ Top \in Nat /\ Bases \subseteq 0..Top /\ Targets \subseteq 0..Top
  /\ \A c \in Commands :
       c.name \in {"update", "clean"}
       /\ \A f \in {"tracked", "untracked", "all", "snapshot"} : c[f] \in BOOLEAN
  /\ MaxFaults \in Nat

VARIABLES
  tip,       \* tip[b]: the revision of branch b, for the branches there are
  track,     \* track[b]: "origin", a branch, or "none"
  head,      \* the branch HEAD is on, or "none", and its revision
  dirty,     \* are there uncommitted changes,
  untracked, \* or untracked files?
  config,    \* the local config: "", "noUpdate" (or ignore), "noRebase"
  barred,    \* what git cannot check out, for an untracked file is in the way
  target,    \* the commit of JIRI_HEAD
  cmd,       \* the command
  seen,      \* the state of the project when the command looked at it
  pc,        \* where the command is
  queue,     \* branches the loop has still to look at
  home,      \* what the deferred function checks out: a branch, "JIRI_HEAD" or "none"
  midway,    \* a rebase that was not aborted: "no", "stopped" before a change of the branch
             \* with nothing left uncommitted, or "stuck" in the middle of one
  failed,    \* is jirix.failures not 0?
  ret,       \* what the command returned
  faults

repoVars == <<tip, head, dirty, untracked>>
fixedVars == <<track, config, barred, target, cmd, seen>>
vars == <<tip, track, head, dirty, untracked, config, barred, target, cmd, seen,
          pc, queue, home, midway, failed, ret, faults>>
-----------------------------------------------------------------------------
(***************************************************************************)
(* Git.                                                                    *)
(***************************************************************************)
Existing == DOMAIN tip
OnBranch(b) == [branch |-> b, at |-> tip[b]]
Detached(n) == [branch |-> "none", at |-> Upstream(n)]

\* What the name of a tracked branch stands for now.
Now(u) == IF u = "origin" THEN Upstream(Top) ELSE tip[u]

RevOf(place) == IF place = "JIRI_HEAD" THEN Upstream(target) ELSE tip[place]
CanCheckOut(place) == midway # "stuck" /\ (place \notin barred \/ head.at = RevOf(place))
-----------------------------------------------------------------------------
(***************************************************************************)
(* setProjectState.  The upstreams there are when the command starts;      *)
(* branches whose upstream was deleted before it are not modelled.         *)
(***************************************************************************)
Tracking(b) ==
  IF track[b] = "origin" \/ track[b] \in DOMAIN seen.tip THEN track[b] ELSE "none"
SeenAt(u) == IF u = "origin" THEN Upstream(Top) ELSE seen.tip[u]

Current == seen.head.branch

\* The branches the loop goes through.
Considered == IF cmd.all THEN DOMAIN seen.tip ELSE {Current} \ {"none"}

\* Where a chain of tracked branches ends.
Ends(u) == u \notin Considered \/ Tracking(u) = "none"

\* Who b tracks, who they track, and so on: if it tracks any, the least set with the
\* branch that b tracks and, for each that is not an end, the branch that one tracks.
Upstreams == DOMAIN seen.tip \cup {"origin"}
Tracked(b) ==
  {u \in Upstreams :
     /\ Tracking(b) # "none"
     /\ \A S \in SUBSET Upstreams :
          Tracking(b) \in S /\ (\A x \in S : ~Ends(x) => Tracking(x) \in S) => u \in S}

\* A chain without an end comes back to itself.
IsCircular(b) == Tracking(b) # "none" /\ \A u \in Tracked(b) : ~Ends(u)
Root(b) == CHOOSE u \in Tracked(b) : Ends(u)

\* branchesContainingHead, from before the loop.
HasHead(b) == IsAncestor(Upstream(target), seen.tip[b])
-----------------------------------------------------------------------------
(***************************************************************************)
(* syncProjectMaster.                                                      *)
(***************************************************************************)
Return(r) == pc' = "done" /\ ret' = r /\ UNCHANGED <<queue, home, midway, faults>>

\* Mutant: what was checked out is not restored.
LoopForgets(place) ==
  /\ pc' = "loop" /\ home' = "none"
  /\ queue' = Considered
  /\ UNCHANGED <<midway, ret, faults>>

\* On to the loop, which ends in the deferred checkout of place, if any.
Loop(place) ==
  /\ pc' = "loop" /\ home' = place
  /\ queue' = Considered
  /\ UNCHANGED <<midway, ret, faults>>

Start ==
  /\ pc = "start" /\ cmd.name = "update"
  /\ \/ config = "noUpdate" /\ Return("nil") /\ UNCHANGED failed
     \/ config # "noUpdate" /\ dirty /\ Return("nil") /\ failed' = TRUE
     \/ /\ config # "noUpdate" /\ ~dirty /\ Current # "none" /\ ~cmd.snapshot
        /\ UNCHANGED failed
        /\ IF cmd.all THEN Loop(Current)
           ELSE IF ~cmd.tracked /\ Tracking(Current) # "none"
           THEN pc' = "merge" /\ UNCHANGED <<queue, home, midway, ret, faults>>
           ELSE Loop("none")
  /\ UNCHANGED <<repoVars, fixedVars>>

\* The checkout of JIRI_HEAD when no branch is, or for a snapshot.
CheckoutHead ==
  /\ pc = "start" /\ cmd.name = "update"
  /\ config # "noUpdate" /\ ~dirty
  /\ Current = "none" \/ cmd.snapshot
  /\ IF CanCheckOut("JIRI_HEAD")
     THEN head' = Detached(target) /\ UNCHANGED failed
     ELSE failed' = TRUE /\ UNCHANGED head
  /\ IF cmd.snapshot \/ ~cmd.all THEN Return("nil") ELSE Loop("JIRI_HEAD")
  /\ UNCHANGED <<tip, dirty, untracked, fixedVars>>

\* git merge --ff-only
Merge ==
  LET u == Tracking(Current)
      mine == tip[Current]
      go == SeenAt(u) # seen.tip[Current] /\ config # "noRebase"
  IN
  /\ pc = "merge"
  /\ \/ ~go /\ UNCHANGED <<tip, head, failed>>
     \/ /\ go /\ IsAncestor(mine, Now(u))
        /\ tip' = [tip EXCEPT ![Current] = Now(u)]
        /\ head' = [branch |-> Current, at |-> Now(u)]
        /\ UNCHANGED failed
     \/ go /\ ~IsAncestor(mine, Now(u)) /\ IsAncestor(Now(u), mine) /\ UNCHANGED <<tip, head, failed>>
     \/ /\ go /\ ~IsAncestor(Now(u), mine) /\ (IsAncestor(mine, Now(u)) => untracked)
        /\ failed' = TRUE
        /\ UNCHANGED <<tip, head>>
  /\ Return("nil")
  /\ UNCHANGED <<dirty, untracked, fixedVars>>

Next1(b) == queue' = queue \ {b} /\ UNCHANGED <<pc, home, midway, ret, faults>>
EndLoop(r) == pc' = "restore" /\ ret' = r /\ queue' = {} /\ UNCHANGED <<home, faults>>

\* Rebase b, where it is, onto revision r.
RebaseOn(b, r) ==
  /\ tip' = [tip EXCEPT ![b] = Rebased(tip[b], r)]
  /\ head' = [branch |-> b, at |-> Rebased(tip[b], r)]

\* Git may refuse to rebase b: a change of its own conflicts, an untracked file is
\* in the way, another rebase is under way.
MayFail(b) == tip[b].own # <<>> \/ untracked \/ midway = "stopped"

\* A rebase that stops with HEAD on r.
StopAt(r) == head' = [branch |-> "none", at |-> r] /\ UNCHANGED tip

\* CheckoutBranch and tryRebase: done; not checked out; refused, or in conflict and aborted;
\* in conflict and not to be aborted; stopped because an untracked file is in the way of a
\* change, when git status has nothing to tell, so that RebaseAbort aborts nothing.
TryRebase(b, r) ==
  \/ CanCheckOut(b) /\ midway = "no" /\ RebaseOn(b, r) /\ Next1(b) /\ UNCHANGED failed
  \/ ~CanCheckOut(b) /\ failed' = TRUE /\ Next1(b) /\ UNCHANGED <<tip, head>>
  \/ CanCheckOut(b) /\ MayFail(b) /\ head' = OnBranch(b) /\ failed' = TRUE /\ Next1(b) /\ UNCHANGED tip
  \/ /\ CanCheckOut(b) /\ midway = "no" /\ tip[b].own # <<>> /\ faults < MaxFaults
     /\ faults' = faults + 1
     /\ StopAt(r) /\ midway' = "stuck"
     /\ pc' = "restore" /\ ret' = "error" /\ queue' = {}
     /\ UNCHANGED <<home, failed>>
  \/ /\ CanCheckOut(b) /\ midway = "no" /\ tip[b].own # <<>> /\ untracked
     /\ StopAt(r) /\ midway' = "stopped"
     /\ failed' = TRUE /\ queue' = queue \ {b}
     /\ UNCHANGED <<pc, home, ret, faults>>

\* Mutant: a branch is compared with the branch it tracks, not with the end of the chain.
WantedNearby(b) ==
  IF Tracking(b) # "none" THEN seen.tip[b] # SeenAt(Tracking(b)) ELSE ~HasHead(b) /\ cmd.untracked

\* Does the loop have to rebase b?
Wanted(b) ==
  IF Tracking(b) # "none" THEN seen.tip[b] # SeenAt(Root(b)) ELSE ~HasHead(b) /\ cmd.untracked

\* Mutant: a branch that tracks none goes onto what is checked out.
OntoHead(b) == IF Tracking(b) # "none" THEN Now(Root(b)) ELSE head.at

Onto(b) == IF Tracking(b) # "none" THEN Now(Root(b)) ELSE Upstream(target)

\* The loops take the branches in the order of git's list.
IsFirst(b) ==
  \E i \in DOMAIN Order :
    Order[i] = b /\ b \in queue /\ \A j \in 1..(i - 1) : Order[j] \notin queue

Branch(b) ==
  /\ pc = "loop" /\ IsFirst(b)
  /\ \/ IsCircular(b) /\ failed' = TRUE /\ Next1(b) /\ UNCHANGED <<tip, head>>
     \/ ~IsCircular(b) /\ ~Wanted(b) /\ Next1(b) /\ UNCHANGED <<tip, head, failed>>
     \/ /\ ~IsCircular(b) /\ Wanted(b) /\ config = "noRebase"
        /\ EndLoop("nil") /\ UNCHANGED <<tip, head, midway, failed>>
     \/ ~IsCircular(b) /\ Wanted(b) /\ config # "noRebase" /\ TryRebase(b, Onto(b))
  /\ UNCHANGED <<dirty, untracked, fixedVars>>

LoopEnds ==
  /\ pc = "loop" /\ queue = {}
  /\ EndLoop("nil")
  /\ UNCHANGED <<repoVars, fixedVars, midway, failed>>

\* The deferred checkout, which panics if it fails.
Restore ==
  /\ pc = "restore"
  /\ \/ home = "none" /\ pc' = "done" /\ UNCHANGED head
     \/ home # "none" /\ ~CanCheckOut(home) /\ pc' = "panicked" /\ UNCHANGED head
     \/ home = "JIRI_HEAD" /\ CanCheckOut(home) /\ pc' = "done" /\ head' = Detached(target)
     \/ home \in Branches /\ CanCheckOut(home) /\ pc' = "done" /\ head' = OnBranch(home)
  /\ UNCHANGED <<tip, dirty, untracked, fixedVars, queue, home, midway, failed, ret, faults>>
-----------------------------------------------------------------------------
(***************************************************************************)
(* resetLocalProject: a forced checkout, if the revision differs, git      *)
(* clean, and the deletion of the branches, in order.                      *)
(***************************************************************************)
\* local.Revision != headRev
Differs == seen.head.at # Upstream(target)

Reset ==
  /\ pc = "start" /\ cmd.name = "clean"
  /\ \/ config = "noUpdate" /\ Return("nil") /\ UNCHANGED <<head, dirty, untracked>>
     \/ /\ config # "noUpdate"
        /\ IF Differs THEN head' = Detached(target) /\ dirty' = FALSE ELSE UNCHANGED <<head, dirty>>
        /\ untracked' = FALSE
        /\ IF cmd.all
           THEN /\ pc' = "delete" /\ queue' = Existing
                /\ UNCHANGED <<home, midway, ret, faults>>
           ELSE Return("nil")
  /\ UNCHANGED <<tip, fixedVars, failed>>

DeleteBranch(b) ==
  /\ pc = "delete" /\ IsFirst(b)
  /\ IF head.branch = b
     THEN Return("error") /\ UNCHANGED tip
     ELSE /\ tip' = [c \in Existing \ {b} |-> tip[c]]
          /\ Next1(b)
  /\ UNCHANGED <<head, dirty, untracked, fixedVars, failed>>

DeletesEnd ==
  /\ pc = "delete" /\ queue = {}
  /\ Return("nil")
  /\ UNCHANGED <<repoVars, fixedVars, failed>>
-----------------------------------------------------------------------------
\* What branches may point to when there are those of S, and what HEAD may be.
Tips(S) == {Rev(n, s) : n \in Bases, s \in {<<>>} \cup {<<b>> : b \in S} \cup (S \X S)}
Heads(S) == {OnBranch(b) : b \in S} \cup {Detached(n) : n \in Bases}

Init ==
  /\ \E S \in SUBSET Branches :
       /\ track \in [Branches -> {"origin", "none"} \cup S]
       /\ \A b \in Branches : track[b] # b /\ (b \notin S => track[b] = "none")
       /\ tip \in [S -> Tips(S)]
       /\ \A b \in S : tip[b].own \in {<<>>, <<b>>, <<track[b], b>>}
       /\ head \in Heads(S)
  /\ dirty \in BOOLEAN /\ untracked \in BOOLEAN
  /\ config \in {"", "noUpdate", "noRebase"}
  /\ target \in Targets
  /\ barred \in SUBSET (Places \cap (DOMAIN tip \cup {"JIRI_HEAD"}))
  /\ \A p \in barred : untracked /\ head.at # RevOf(p)
  /\ cmd \in Commands
  /\ seen = [tip |-> tip, head |-> head]
  /\ pc = "start" /\ queue = {} /\ home = "none" /\ midway = "no"
  /\ failed = FALSE /\ ret = "none" /\ faults = 0

Finished == pc \in {"done", "panicked"} /\ UNCHANGED vars

Step ==
  \/ Start \/ CheckoutHead \/ Merge \/ LoopEnds \/ Restore \/ Reset \/ DeletesEnd
  \/ \E b \in Branches : Branch(b) \/ DeleteBranch(b)

Next == Step \/ Finished

Spec == Init /\ [][Next]_vars
-----------------------------------------------------------------------------
Revs == [base : 0..Top, own : Seq(Branches)]

\* The values the variables take.
TypeOK ==
  /\ DOMAIN tip \subseteq Branches
  /\ tip \in [DOMAIN tip -> Revs] /\ seen.tip \in [DOMAIN seen.tip -> Revs]
  /\ track \in [Branches -> {"origin", "none"} \cup Branches]
  /\ {head, seen.head} \subseteq [branch : Branches \cup {"none"}, at : Revs]
  /\ dirty \in BOOLEAN /\ untracked \in BOOLEAN /\ failed \in BOOLEAN
  /\ midway \in {"no", "stopped", "stuck"}
  /\ pc \in {"start", "merge", "loop", "restore", "delete", "done", "panicked"}
  /\ queue \subseteq Branches /\ home \in Branches \cup {"JIRI_HEAD", "none"}
  /\ ret \in {"none", "nil", "error"} /\ faults \in Nat
  /\ config \in {"", "noUpdate", "noRebase"} /\ target \in Targets /\ cmd \in Commands

Updated == pc = "done" /\ cmd.name = "update"
Cleaned == pc = "done" /\ cmd.name = "clean" /\ ret = "nil" /\ config # "noUpdate"

\* The branches an update of this project may touch.
MayMove ==
  IF config # "" \/ dirty \/ cmd.snapshot \/ cmd.name = "clean" THEN {}
  ELSE {b \in DOMAIN seen.tip :
          /\ b = Current \/ cmd.all
          /\ Tracking(b) # "none" \/ cmd.untracked}

\* An update leaves all other branches as they are, and all of them where there are
\* uncommitted changes, in a snapshot, with noUpdate and with noRebase: a branch
\* moves only as its own flags say, whatever happens to the branches before it.
LeftAlone == cmd.name = "update" => \A b \in Branches \ MayMove : b \in DOMAIN tip => tip[b] = seen.tip[b]

\* No branch loses a local change in an update, and none gets a change that is neither
\* its own nor of a branch it tracks, directly or through others.
OwnChanges ==
  cmd.name = "update" =>
    \A b \in DOMAIN seen.tip :
      /\ b \in DOMAIN tip
      /\ Range(seen.tip[b].own) \subseteq Range(tip[b].own)
      /\ Range(tip[b].own) \subseteq
           Range(seen.tip[b].own) \cup UNION {Range(seen.tip[u].own) : u \in Tracked(b) \cap DOMAIN seen.tip}

\* Both.
BranchesKept == LeftAlone /\ OwnChanges

\* Returning nil, an update leaves the project on the branch it was on, or at JIRI_HEAD
\* if it was on none; if it does not, it counts a failure.  Without -rebase-all, which would
\* check it out again, the branch may be left in the middle of a rebase that git stopped
\* and jiri did not abort.
UpdateRestores ==
  Updated /\ ret = "nil" =>
    IF config = "noUpdate" \/ dirty THEN head = seen.head
    ELSE IF Current # "none" /\ ~cmd.snapshot
    THEN head = OnBranch(Current) \/ (failed /\ ~cmd.all /\ midway = "stopped")
    ELSE failed \/ head = Detached(target)

\* A clean that succeeds leaves the project at JIRI_HEAD without untracked files and, if it
\* was elsewhere, without uncommitted changes and on no branch.  A clean of all branches has
\* deleted them all, master with them, as its flag says (cmd/jiri/project.go:33) and not the
\* comment of CleanupProjects; the other one has left every branch where it was.
CleanRestores ==
  Cleaned =>
    /\ head.at = Upstream(target) /\ ~untracked
    /\ Differs => ~dirty /\ head.branch = "none"
    /\ IF cmd.all THEN DOMAIN tip = {} ELSE tip = seen.tip

\* Both commands leave HEAD, the files and the branches as they promise.
HeadRestored == UpdateRestores /\ CleanRestores

\* What the comment of CleanupProjects says: all the local changes are gone.
CleanedAsTold == Cleaned => ~dirty

HasAllOf(y, x) == x.base <= y.base /\ Range(x.own) \subseteq Range(y.own)

\* An update that returns nil and counts no failure has left no branch behind that it
\* was to bring forward: such a branch has all that the end of its chain of tracked
\* branches had when the update looked, or JIRI_HEAD if it tracks none.
UpToDate ==
  Updated /\ ret = "nil" /\ ~failed =>
    \A b \in MayMove :
      IF Tracking(b) = "none" THEN IsAncestor(Upstream(target), tip[b])
      ELSE \E u \in Tracked(b) : Ends(u) /\ HasAllOf(tip[b], SeenAt(u))
=============================================================================
