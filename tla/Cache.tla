-------------------------------- MODULE Cache --------------------------------
(***************************************************************************)
(* updateCache and updateOrCreateCache of project/project.go: a goroutine  *)
(* per project brings the git cache of the project's remote up to date,    *)
(* at most Jobs of them at a time and one at a time in a cache directory.  *)
(*                                                                         *)
(* A branch of a remote has the revisions 1, 2, ... up to its tip.  A      *)
(* pinned project wants revision 1, the others want HEAD.  The projects of *)
(* a cache are all shallow or none is, as the TODO in createCache says.    *)
(* Partial clones and the offloading of pack files are left out.           *)
(***************************************************************************)
EXTENDS Naturals, FiniteSets

CONSTANTS
  Projects,  \* remoteProjects: the projects of the manifest
  Dir,       \* CacheDirPath of a project
  Pinned,    \* projects with a revision
  Shallow,   \* cache directories of projects with a HistoryDepth
  Default,   \* projects on the default branch of their remote
  Jobs,      \* jirix.Jobs
  MaxTip,    \* bound: how far a branch goes
  MaxFaults, \* bound: steps that fail
  MaxKills,  \* bound: kills of jiri
  MaxRuns    \* bound: runs of updateCache

ASSUME CacheAssumption ==
  /\ IsFiniteSet(Projects) /\ Pinned \subseteq Projects /\ Default \subseteq Projects
  /\ Jobs \in Nat \ {0} /\ MaxTip \in Nat \ {0}
  /\ MaxFaults \in Nat /\ MaxKills \in Nat /\ MaxRuns \in Nat \ {0}

Dirs == {Dir[p] : p \in Projects}
At(d) == {p \in Projects : Dir[p] = d}

VARIABLES
  tip,     \* the remotes: the tip of a project's branch
  dir,     \* a cache on disk: "absent", "broken" (no objects or no configuration), "stripped"
           \* (its objects, but no section remote.origin), "made"
  has,     \* the revisions of a project's branch in the cache
  pc,      \* the goroutine of a project, where it is in updateOrCreateCache
  made,    \* has it just created the cache?
  lock,    \* the mutex of a cache directory: the set of its holder
  slots,   \* tokens in fetchLimit
  errs,    \* has errs an error?
  main,    \* updateCache: "off", "loop" or "returned"
  runs, kills, faults, \* counted against their bounds
  began,   \* history: tip when the run began
  suspect  \* history: intact caches this run has taken for corrupted ones

disk == <<dir, has>>
DirStates == {"absent", "broken", "stripped", "made"}
vars == <<tip, dir, has, pc, made, lock, slots, errs, main, runs, kills, faults, began, suspect>>

Goto(p, l) == pc' = [pc EXCEPT ![p] = l]
Fault == faults < MaxFaults /\ faults' = faults + 1
NoFault == UNCHANGED faults
Fail(p) == Fault /\ errs' = TRUE /\ Goto(p, "unlock")
-----------------------------------------------------------------------------
\* What fetching and cloning put into the cache: a shallow fetch the tip of the branch it
\* names, a shallow clone that of the default branch, the others every revision.
Fetched(p) ==
  [q \in Projects |->
     IF Dir[q] # Dir[p] THEN has[q]
     ELSE IF Dir[p] \notin Shallow THEN 1 .. tip[q]
     ELSE IF q = p THEN has[q] \cup {tip[q]} ELSE has[q]]

Cloned(d) ==
  [q \in Projects |->
     IF Dir[q] # d THEN has[q]
     ELSE IF d \notin Shallow THEN 1 .. tip[q]
     ELSE IF q \in Default THEN {tip[q]} ELSE {}]

Emptied(d) == [q \in Projects |-> IF Dir[q] = d THEN {} ELSE has[q]]

\* Mutant: any revision will do.
IsAnyRevAvailable(p) == has[p] # {}

\* IsRevAvailable: HEAD never is.
IsRevAvailable(p) == p \in Pinned /\ 1 \in has[p]
-----------------------------------------------------------------------------
\* Mutant: a failed fetch is followed by a new clone.
FailAndRemake(p) ==
  /\ pc[p] = "fetch"
  /\ \/ NoFault /\ has' = Fetched(p) /\ Goto(p, "unlock") /\ UNCHANGED errs
     \/ Fault /\ Goto(p, "clear") /\ UNCHANGED <<errs, has>>
  /\ UNCHANGED <<tip, dir, made, lock, slots, main, runs, kills, began, suspect>>

\* updateCache is called; the tokens and the mutexes are those of the call.
Start ==
  /\ main # "loop" /\ runs < MaxRuns
  /\ main' = "loop" /\ runs' = runs + 1
  /\ pc' = [p \in Projects |-> "todo"]
  /\ made' = [p \in Projects |-> FALSE]
  /\ lock' = [d \in Dirs |-> {}] /\ slots' = 0 /\ errs' = FALSE
  /\ began' = tip /\ suspect' = {}
  /\ UNCHANGED <<tip, dir, has, kills, faults>>

\* The loop takes a token for a project and starts its goroutine.
Go(p) ==
  /\ main = "loop" /\ pc[p] = "todo" /\ slots < Jobs
  /\ slots' = slots + 1 /\ Goto(p, "lock")
  /\ UNCHANGED <<tip, disk, made, lock, errs, main, runs, kills, faults, began, suspect>>

Lock(p) ==
  /\ pc[p] = "lock" /\ lock[Dir[p]] = {}
  /\ lock' = [lock EXCEPT ![Dir[p]] = {p}]
  /\ Goto(p, IF dir[Dir[p]] = "absent" THEN "clone" ELSE "update")
  /\ UNCHANGED <<tip, disk, made, slots, errs, main, runs, kills, faults, began, suspect>>

\* errCacheCorruption: right after createCache it is an error like any other, else the
\* cache is cleared.  Intact says that there is nothing wrong with the cache.
Corrupted(p, intact) ==
  /\ suspect' = suspect \cup {d \in {Dir[p]} : intact}
  /\ IF made[p] THEN errs' = TRUE /\ Goto(p, "unlock") ELSE Goto(p, "clear") /\ UNCHANGED errs

\* The first part of the closure updateCache: are there objects, and can remote.origin be
\* removed from the configuration?
Update(p) ==
  /\ pc[p] = "update"
  /\ \/ /\ dir[Dir[p]] = "made" /\ NoFault
        /\ dir' = [dir EXCEPT ![Dir[p]] = "stripped"] /\ Goto(p, "url")
        /\ UNCHANGED <<errs, suspect>>
     \/ /\ IF dir[Dir[p]] = "made" THEN Fault ELSE NoFault
        /\ Corrupted(p, dir[Dir[p]] = "made") /\ UNCHANGED dir
  /\ UNCHANGED <<tip, has, made, lock, slots, main, runs, kills, began>>

\* It gets a new remote.origin, with its url ...
SetUrl(p) ==
  /\ pc[p] = "url"
  /\ \/ NoFault /\ dir' = [dir EXCEPT ![Dir[p]] = "made"] /\ Goto(p, "refspec") /\ UNCHANGED <<errs, suspect>>
     \/ Fault /\ Corrupted(p, TRUE) /\ UNCHANGED dir
  /\ UNCHANGED <<tip, has, made, lock, slots, main, runs, kills, began>>

\* ... and with what to fetch.
SetRefspec(p) ==
  /\ pc[p] = "refspec"
  /\ \/ NoFault /\ Goto(p, IF IsRevAvailable(p) THEN "unlock" ELSE "fetch") /\ UNCHANGED <<errs, suspect>>
     \/ Fault /\ Corrupted(p, TRUE)
  /\ UNCHANGED <<tip, disk, made, lock, slots, main, runs, kills, began>>

\* The retried FetchRefspec.
FetchRefspec(p) ==
  /\ pc[p] = "fetch"
  /\ \/ NoFault /\ has' = Fetched(p) /\ Goto(p, "unlock") /\ UNCHANGED errs
     \/ Fail(p) /\ UNCHANGED has
  /\ UNCHANGED <<tip, dir, made, lock, slots, main, runs, kills, began, suspect>>

\* os.RemoveAll of a corrupted cache; when it fails, it has removed a part.
Clear(p) ==
  /\ pc[p] = "clear"
  /\ has' = Emptied(Dir[p])
  /\ \/ NoFault /\ dir' = [dir EXCEPT ![Dir[p]] = "absent"] /\ Goto(p, "clone") /\ UNCHANGED errs
     \/ Fail(p) /\ dir' = [dir EXCEPT ![Dir[p]] = "broken"]
  /\ UNCHANGED <<tip, made, lock, slots, main, runs, kills, began, suspect>>

\* git clone, which removes what it made when it fails.
Clone(p) ==
  /\ pc[p] = "clone"
  /\ \/ /\ NoFault /\ dir' = [dir EXCEPT ![Dir[p]] = "made"] /\ has' = Cloned(Dir[p])
        /\ Goto(p, "config") /\ UNCHANGED errs
     \/ Fail(p) /\ UNCHANGED disk
  /\ UNCHANGED <<tip, made, lock, slots, main, runs, kills, began, suspect>>

\* The configuration of a new cache, before the call of the closure updateCache.
Config(p) ==
  /\ pc[p] = "config"
  /\ made' = [made EXCEPT ![p] = TRUE]
  /\ \/ NoFault /\ Goto(p, "update") /\ UNCHANGED errs
     \/ Fail(p)
  /\ UNCHANGED <<tip, disk, lock, slots, main, runs, kills, began, suspect>>

\* The deferred calls of the goroutine: Unlock, Done, and the token.
Unlock(p) ==
  /\ pc[p] = "unlock"
  /\ lock' = [lock EXCEPT ![Dir[p]] = {}]
  /\ slots' = slots - 1 /\ Goto(p, "done")
  /\ UNCHANGED <<tip, disk, made, errs, main, runs, kills, faults, began, suspect>>

\* wg.Wait and the return.
Return ==
  /\ main = "loop" /\ \A p \in Projects : pc[p] = "done"
  /\ main' = "returned"
  /\ UNCHANGED <<tip, disk, pc, made, lock, slots, errs, runs, kills, faults, began, suspect>>

\* jiri is killed.  A clone or a removal that was under way leaves the cache as it finds
\* it, broken, or with a part of what it should have; a cache without its remote.origin
\* stays without it.
Kill ==
  /\ main = "loop" /\ kills < MaxKills
  /\ kills' = kills + 1 /\ main' = "off"
  /\ \E state \in [Dirs -> DirStates] :
       LET torn == {d \in Dirs : state[d] # dir[d]} IN
       /\ \A d \in torn :
            \E p \in lock[d] : pc[p] = "clone" \/ (pc[p] = "clear" /\ state[d] \in {"absent", "broken"})
       /\ dir' = state
       /\ has' = [q \in Projects |-> IF Dir[q] \in torn THEN {} ELSE has[q]]
  /\ UNCHANGED <<tip, pc, made, lock, slots, errs, runs, faults, began, suspect>>

\* Someone pushes to the branch of p.
Push(p) ==
  /\ tip[p] < MaxTip
  /\ tip' = [tip EXCEPT ![p] = @ + 1]
  /\ UNCHANGED <<disk, pc, made, lock, slots, errs, main, runs, kills, faults, began, suspect>>
-----------------------------------------------------------------------------
Init ==
  /\ tip = [p \in Projects |-> 1]
  /\ dir = [d \in Dirs |-> "absent"] /\ has = [p \in Projects |-> {}]
  /\ pc = [p \in Projects |-> "done"] /\ made = [p \in Projects |-> FALSE]
  /\ lock = [d \in Dirs |-> {}] /\ slots = 0 /\ errs = FALSE
  /\ main = "off" /\ runs = 0 /\ kills = 0 /\ faults = 0
  /\ began = tip /\ suspect = {}

Work(p) ==
  /\ main = "loop"
  /\ \/ Lock(p) \/ Update(p) \/ SetUrl(p) \/ SetRefspec(p) \/ FetchRefspec(p)
     \/ Clear(p) \/ Clone(p) \/ Config(p) \/ Unlock(p)

Next ==
  \/ Start \/ Return \/ Kill
  \/ \E p \in Projects : Go(p) \/ Work(p) \/ Push(p)

Spec == Init /\ [][Next]_vars
-----------------------------------------------------------------------------
\* Where a goroutine is while it holds the mutex of its cache.
Inside == {"update", "url", "refspec", "fetch", "clear", "clone", "config", "unlock"}

\* The types of the variables; a token for every goroutine that is under way.
TypeOK ==
  /\ tip \in [Projects -> 1 .. MaxTip] /\ began \in [Projects -> 1 .. MaxTip]
  /\ dir \in [Dirs -> DirStates]
  /\ has \in [Projects -> SUBSET (1 .. MaxTip)]
  /\ pc \in [Projects -> Inside \cup {"todo", "lock", "done"}]
  /\ made \in [Projects -> BOOLEAN] /\ errs \in BOOLEAN
  /\ lock \in [Dirs -> SUBSET Projects]
  /\ slots \in 0 .. Jobs
  /\ main = "loop" => slots = Cardinality({p \in Projects : pc[p] \notin {"todo", "done"}})
  /\ main \in {"off", "loop", "returned"} /\ suspect \subseteq Dirs
  /\ runs \in 0 .. MaxRuns /\ kills \in 0 .. MaxKills /\ faults \in 0 .. MaxFaults

\* Projects that share a remote never work in the cache directory at the same time, so
\* none clears or clones it under the hands of another.
OneInACache ==
  main = "loop" =>
    \A p, q \in DOMAIN pc :
      Dir[p] = Dir[q] /\ pc[p] \in Inside /\ pc[q] \in Inside => p = q

\* When updateCache returns without an error, every project finds in the cache what it is
\* about to check out: the revision it is pinned to, and otherwise a tip that is not older
\* than the start of the run, also when kills and errors of earlier runs have left the
\* cache torn.  Not so when git config fails on an intact cache: it is then cleared and,
\* if it is a shallow one, has the tip of one project only.
Ready ==
  main = "returned" /\ ~errs =>
    \A p \in DOMAIN has :
      Dir[p] \in suspect \/
      IF p \in Pinned THEN Dir[p] \in Shallow \/ 1 \in has[p]
      ELSE \E r \in has[p] : r >= began[p]

\* A cache has lost its remote.origin only because jiri was killed between the two commands
\* that remove and set it, or because the second failed.
Configured ==
  \A p \in DOMAIN has :
    dir[Dir[p]] = "stripped" =>
      \/ kills + faults > 0
      \/ main = "loop" /\ \E q \in DOMAIN pc : Dir[q] = Dir[p] /\ pc[q] = "url"

\* The caches are used by one at a time, and in the end there is what is wanted in them.
CacheReady == OneInACache /\ Ready /\ Configured

\* A failing fetch or clone never takes away objects that checkouts may borrow from the
\* cache.  A cache with all its objects is cleared in two cases only: a git config failed on
\* it in this run, or it has been left without its remote.origin (Configured says by what),
\* which the next to update it takes for a corruption.
Kept ==
  [][\A p \in DOMAIN has :
       \/ Dir[p] \in suspect
       \/ dir[Dir[p]] = "stripped"
       \/ has[p] \subseteq has'[p]]_vars

\* updateCache returns, unless jiri is killed.
Returns == main = "loop" ~> main # "loop"
=============================================================================
