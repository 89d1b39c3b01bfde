------------------------------- MODULE GitRepo -------------------------------
(***************************************************************************)
(* A git repository as the functions of gitutil/git.go and                 *)
(* project/state.go see and change it, for the commands branch, patch,     *)
(* upload and status.  A repository is a record                            *)
(*   tip        the revision of each local branch there is                 *)
(*   up         what each branch name tracks: a ref, or NoRef              *)
(*   on, at     the branch HEAD is on, or "none"; else where HEAD is       *)
(*   origin     the branches of the remote, as they were fetched last      *)
(*   theirs     the branches of the remote, as they are                    *)
(*   fetched    FETCH_HEAD                                                 *)
(*   dirty, untracked   are there uncommitted changes, untracked files?    *)
(*   midway     a rebase or cherry-pick that could not be aborted          *)
(* A command of git that may end in several ways is the set of its         *)
(* outcomes, records of a result and the repository after it.              *)
(***************************************************************************)
EXTENDS FiniteSets, Functions, Revisions

CONSTANTS
  Listed,    \* the names of local branches, as git lists them
  Branches,  \* the names of branches of the remote
  Changes,   \* local changes: what there is in Rev.own
  MaxFaults  \* bound: how often git or Gerrit do not answer a command

Names == Range(Listed)

\* f with the values of g, and with one value.
Over(f, g) == [x \in DOMAIN f \cup DOMAIN g |-> IF x \in DOMAIN g THEN g[x] ELSE f[x]]
Put(f, x, v) == [y \in DOMAIN f \cup {x} |-> IF y = x THEN v ELSE f[y]]

\* Refs.
NoRef == <<"none">>
Local(b) == <<"local", b>>
Remote(b) == <<"origin", b>>
HeadRef == <<"HEAD">>
FetchHead == <<"FETCH_HEAD">>
Commit(x) == <<"commit", x>>

Exists(r, ref) ==
  CASE ref[1] = "local" -> ref[2] \in DOMAIN r.tip
    [] ref[1] = "origin" -> ref[2] \in DOMAIN r.origin
    [] OTHER -> ref # NoRef

\* CurrentRevisionForRef, of a ref that exists.
RevisionOf(r, ref) ==
  CASE ref[1] = "local" -> r.tip[ref[2]]
    [] ref[1] = "origin" -> r.origin[ref[2]]
    [] ref = FetchHead -> r.fetched
    [] ref[1] = "commit" -> ref[2]
    [] ref = HeadRef -> IF r.on = "none" THEN r.at ELSE r.tip[r.on]

HeadOf(r) == RevisionOf(r, HeadRef)

\* A repository there is: HEAD is on a branch that exists, or on none, and no branch tracks
\* itself.
Revs == [base : Nat, own : Seq(Changes)]
Refs == {NoRef} \cup {Local(b) : b \in Names} \cup {Remote(b) : b \in Branches}
PartOf(f, S, T) == f \in [DOMAIN f -> T] /\ DOMAIN f \subseteq S
IsRepository(r) ==
  /\ r \in [tip : {r.tip}, up : [Names -> Refs], on : Names \cup {"none"}, at : Revs,
            origin : {r.origin}, theirs : {r.theirs}, fetched : Revs,
            dirty : BOOLEAN, untracked : BOOLEAN, midway : BOOLEAN]
  /\ PartOf(r.tip, Names, Revs) /\ PartOf(r.origin, Branches, Revs) /\ PartOf(r.theirs, Branches, Revs)
  /\ r.on \in DOMAIN r.tip \cup {"none"}
  /\ \A b \in Names : r.up[b] # Local(b)

\* No name: of no branch, or a flag that is not given.
NoName == ""

ASSUME NamesAssumption ==
  /\ Listed \in Seq(Names) /\ IsInjective(Listed)
  /\ "none" \notin Names /\ NoName \notin Names \cup Branches /\ "hangs" \notin Branches

Done(r) == [res |-> "ok", repo |-> r]
Refused(r) == [res |-> "failed", repo |-> r]
Broken(r) == [res |-> "error", repo |-> r]
-----------------------------------------------------------------------------
(***************************************************************************)
(* Questions.                                                              *)
(***************************************************************************)
\* GetAllBranchesInfo: what a branch tracks is known by its name also if it is gone,
\* unless everything that is tracked is gone: git show-ref fails then.
GetAllBranchesInfo(r) ==
  LET tracked == {r.up[b] : b \in DOMAIN r.tip} \ {NoRef}
      shown == tracked = {} \/ \E u \in tracked : Exists(r, u)
      info(b) == [name |-> b, revision |-> r.tip[b], isHead |-> r.on = b,
                  tracking |-> IF shown THEN r.up[b] ELSE NoRef]
      names == Without(Listed, Names \ DOMAIN r.tip) IN
  [k \in DOMAIN names |-> info(names[k])]

\* setProjectState: the current branch is "none" where no branch is; uncommitted changes
\* and untracked files are looked for on demand.
StateOf(r, checkDirty) ==
  [branches |-> {i.name : i \in Range(GetAllBranchesInfo(r))}, current |-> r.on, revision |-> HeadOf(r),
   hasUncommitted |-> checkDirty /\ r.dirty, hasUntracked |-> checkDirty /\ r.untracked]

\* ExtraCommits: the commits of x that y has not.
ExtraCommits(x, y) ==
  LET shared == {i \in DOMAIN x.own : x.base = y.base /\ IsPrefix(SubSeq(x.own, 1, i), y.own)} IN
  (IF x.base > y.base THEN {Upstream(n) : n \in (y.base + 1)..x.base} ELSE {})
    \cup {Rev(x.base, SubSeq(x.own, 1, i)) : i \in DOMAIN x.own \ shared}

MergedBranches(r, ref) == {b \in DOMAIN r.tip : IsAncestor(r.tip[b], RevisionOf(r, ref))}

\* RemoteBranchName: the branch of the remote at the end of the chain of local branches
\* HEAD's branch tracks, or NoName if it ends elsewhere.  A chain that is a circle is followed
\* for ever: "hangs".
RemoteBranchName(r) ==
  LET start == IF r.on = "none" THEN NoRef ELSE r.up[r.on]
      next(u) == IF Exists(r, u) THEN r.up[u[2]] ELSE NoRef
      refs == {start, NoRef} \cup {r.up[b] : b \in Names}
      goesOn(S) == start \in S /\ \A u \in S : u[1] = "local" => next(u) \in S
      ends == {u \in refs : u[1] # "local" /\ \A S \in SUBSET refs : goesOn(S) => u \in S} IN
  CASE ends = {} -> "hangs" [] ends = {NoRef} -> NoName [] OTHER -> (CHOOSE u \in ends : TRUE)[2]
-----------------------------------------------------------------------------
(***************************************************************************)
(* Commands.                                                               *)
(***************************************************************************)
SetHead(r, x) == IF r.on = "none" THEN [r EXCEPT !.at = x] ELSE [r EXCEPT !.tip[r.on] = x]

\* CheckoutBranch: HEAD goes to a local branch, or to a revision.  Changes and files that
\* are in the way prevent it.
OnBranch(r, b) == [r EXCEPT !.on = b]
DetachedAt(r, x) == [r EXCEPT !.on = "none", !.at = x]
CheckoutBranch(r, ref, detach) ==
  LET x == RevisionOf(r, ref)
      moved == IF ref[1] = "local" /\ ~detach THEN OnBranch(r, ref[2])
               ELSE IF ref = HeadRef /\ ~detach THEN r ELSE DetachedAt(r, x) IN
  IF ~Exists(r, ref) \/ r.midway THEN {Refused(r)}
  ELSE {Done(moved)} \cup IF (r.dirty \/ r.untracked) /\ x # HeadOf(r) THEN {Refused(r)} ELSE {}

\* DeleteBranch: not the one HEAD is on and, without force, only if it is merged with
\* what it tracks, or with HEAD if it tracks nothing that is there.
IsMerged(r, b) == IsAncestor(r.tip[b], RevisionOf(r, IF Exists(r, r.up[b]) THEN r.up[b] ELSE HeadRef))
Deleted(r, b) == [r EXCEPT !.tip = Restrict(r.tip, DOMAIN r.tip \ {b}), !.up[b] = NoRef]
DeleteBranch(r, b, force) ==
  IF b \in DOMAIN r.tip /\ r.on # b /\ (force \/ IsMerged(r, b)) THEN Done(Deleted(r, b)) ELSE Refused(r)

\* CreateBranchFromRef, for a name that is not taken, and SetUpstream: the branch is there
\* also if there is nothing it can track.
CreateBranch(r, b, ref, upstream) ==
  LET created == [r EXCEPT !.tip = Put(r.tip, b, RevisionOf(r, ref)), !.up[b] = NoRef] IN
  CASE b \in DOMAIN r.tip -> Refused(r)
    [] b \notin DOMAIN r.tip /\ ~Exists(r, upstream) -> Refused(created)
    [] OTHER -> Done([created EXCEPT !.up[b] = upstream])

\* Fetch of all branches, FetchRefspec of one of them, and of a revision that is on none.
FetchAll(r, prune) == Done([r EXCEPT !.origin = IF prune THEN r.theirs ELSE Over(r.origin, r.theirs)])
FetchBranch(r, b) ==
  IF b \notin DOMAIN r.theirs THEN Refused(r)
  ELSE Done([r EXCEPT !.origin = Put(r.origin, b, r.theirs[b]), !.fetched = r.theirs[b]])
FetchRev(r, x) == Done([r EXCEPT !.fetched = x])

\* Rebase and RebaseAbort.  With uncommitted changes git refuses to rebase, RebaseAbort
\* takes the changes for a rebase in progress, and there is none to abort.  A conflict is
\* aborted; stuck says that git may fail to abort it.
RebaseOrAbort(r, ref, stuck) ==
  LET x == RevisionOf(r, ref) IN
  IF ~Exists(r, ref) THEN {IF r.dirty THEN Broken(r) ELSE Refused(r)}
  ELSE IF r.dirty THEN {Broken(r)}
  ELSE {Done(SetHead(r, Rebased(HeadOf(r), x)))}
       \cup IF HeadOf(r).own # <<>> THEN {Refused(r)} ELSE {}
       \cup IF HeadOf(r).own # <<>> /\ stuck
            THEN {Broken([r EXCEPT !.midway = TRUE, !.on = "none", !.at = x])} ELSE {}

\* CherryPick of the last change of FETCH_HEAD, and CherryPickAbort: nothing to abort
\* where git refuses to begin.
CherryPickOrAbort(r, stuck) ==
  LET c == Last(r.fetched.own)
      x == HeadOf(r) IN
  (IF Contains(x.own, c) THEN {Refused(r)} ELSE {Done(SetHead(r, Rev(x.base, Append(x.own, c)))), Refused(r)})
    \cup IF stuck THEN {Broken([r EXCEPT !.midway = TRUE])} ELSE {}
==============================================================================
