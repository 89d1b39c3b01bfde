------------------------------- MODULE Update -------------------------------
(***************************************************************************)
(* UpdateUniverse and updateProjects of project/project.go, with the       *)
(* operations of project/operations.go, over a file system of nested       *)
(* checkouts.  A run of "jiri update" finds the local projects, in the     *)
(* latest snapshot or by a scan, compares them with the manifest, tests    *)
(* the operations this asks for and runs them phase by phase; the first    *)
(* phase to fail ends the attempt, and a fast attempt is followed by one   *)
(* with a full scan.  In the end the workspace is written to the latest    *)
(* snapshot.  The run may be killed between any two steps.                 *)
(*                                                                         *)
(* A tree is one checkout on the disk: the first for a project, or a later *)
(* one made by a create.  Revisions are left out: Behind says which        *)
(* projects in place need an update.                                       *)
(***************************************************************************)
EXTENDS Naturals, FiniteSets, SequencesExt, Functions

\* Paths below jirix.Root are sequences of characters, 0 being the separator: operations.go
\* compares paths both by component and as strings, and the two differ for names like "foo"
\* and "foobar".
Sep == 0

\* p is the directory d or something in it.
Under(d, p) == p = d \/ IsPrefix(Append(d, Sep), p)

\* The directories p lies in, below the root.
Ancestors(p) == {SubSeq(p, 1, i - 1) : i \in {j \in DOMAIN p : p[j] = Sep}}

\* Where p, under src, comes to lie when src is renamed to dst.
Carried(p, src, dst) == dst \o SubSeq(p, Len(src) + 1, Len(p))

\* filepath.Join of dst and rest, which may begin with a separator or not.
Join(dst, rest) ==
  IF rest = <<>> \/ Head(rest) = Sep THEN dst \o rest ELSE Append(dst, Sep) \o rest

\* The order of operations.Less: of the strings path + "/", with the separator
\* below every other character.
PathLess(p, q) ==
  LET s == Append(p, Sep)
      t == Append(q, Sep)
  IN  \/ IsStrictPrefix(s, t)
      \/ \E n \in DOMAIN s \cap DOMAIN t :
           /\ s[n] < t[n]
           /\ \A m \in 1..(n - 1) : s[m] = t[m]

\* The entry of the swap directory for src: one component, the hash of src, here
\* taken to be injective.  No path below the root starts with SwapMark.
SwapMark == 999
SwapName(src) == <<SwapMark>> \o [i \in DOMAIN src |-> IF src[i] = Sep THEN SwapMark ELSE src[i]]
InSwap(p) == p # <<>> /\ Head(p) = SwapMark

CONSTANTS
  Projects,    \* keys of projects
  Start,       \* Start[p]: where p is checked out at first, for some projects
  Manifests,   \* the manifests runs may be given: paths of some projects each
  Moved,       \* projects whose remote in the manifests is a new one
  Ignore,      \* projects with Ignore in their local config
  NoUpdate,    \* projects with NoUpdate in their local config
  Behind,      \* projects whose revision changes
  Covers,      \* projects whose .gitignore names the directories nested in them
  Edited,      \* projects the user works on
  GC,          \* the values of -gc
  Copies,      \* bound: trees of a project
  MaxRuns,     \* bound: runs of jiri update
  MaxCrashes,  \* bound: runs killed
  MaxFaults    \* bound: failures of git or of the file system

\* A path is relative to the root.
Path == {p \in Seq(Nat) : p # <<>> /\ p[1] # Sep}

ASSUME UpdateAssumption ==
  /\ \A p \in DOMAIN Start : p \in Projects /\ Start[p] \in Path
  /\ \A m \in Manifests : \A p \in DOMAIN m : p \in Projects /\ m[p] \in Path
  /\ GC \subseteq BOOLEAN
  /\ Copies \in Nat \ {0}
  /\ MaxRuns \in Nat /\ MaxCrashes \in Nat /\ MaxFaults \in Nat

Trees == Projects \X (1..Copies)
Of(t) == t[1]

Nowhere == <<>>   \* no project of the model lies in the root itself
NoMove == {}
NoMeta == [key |-> "none"]

VARIABLES
  at,       \* at[t]: the directory of tree t, or Nowhere
  meta,     \* meta[t]: the metadata kept in the tree
  bare,     \* trees that are no checkout, only a directory with metadata
  work,     \* trees with branches, uncommitted changes or untracked files
  dirs,     \* the directories there are
  latest,   \* the latest snapshot, if there is one
  manifest, \* the manifest of this run
  gc,       \* the flag -gc of this run
  phase,    \* where the run is
  scan,     \* "fast" or "full"
  local,    \* the local projects the attempt has found, as in their metadata
  left,     \* projects whose operation is still to come in this phase
  kept,     \* the trie notDeleted: source paths of projects not deleted
  psrc, pdst, \* parentSrcPath, parentDestPath of runMoveOperations
  moving,   \* the move under way: its project and its op.source
  failed,   \* did an operation of this phase fail, while others go on?
  ret,      \* what the last run returned
  runs, crashes, faults

fsVars == <<at, meta, bare, dirs>>
moveVars == <<psrc, pdst, moving>>
inputVars == <<manifest, gc>>
countVars == <<runs, crashes>>
vars == <<at, meta, bare, work, dirs, latest, manifest, gc, phase, scan, local, left,
          kept, psrc, pdst, moving, failed, ret, runs, crashes, faults>>

Remote(p) == IF p \in Moved THEN "new" ELSE "old"
Skipped(p) == p \in Ignore \cup NoUpdate
-----------------------------------------------------------------------------
(***************************************************************************)
(* The disk.                                                               *)
(***************************************************************************)
OnDisk == {t \in Trees : at[t] # Nowhere}
TreesAt(d) == {t \in OnDisk : at[t] = d}
Around(d) == {d} \cup Ancestors(d)
Exists(d) == d \in dirs
IsEmptyDir(d) == TreesAt(d) = {} /\ \A e \in dirs : Under(d, e) => e = d

\* A tree of p that is not there yet.
Fresh(p) == <<p, CHOOSE i \in 1..Copies : at[<<p, i>>] = Nowhere>>
EnoughCopies(p) == \E i \in 1..Copies : at[<<p, i>>] = Nowhere

\* The checkout git finds from d: in d itself or in the innermost directory around
\* it that holds one.
Repo(d) ==
  LET checkouts == {t \in OnDisk \ bare : at[t] \in Around(d)}
  IN  {t \in checkouts : \A u \in checkouts : Len(at[u]) <= Len(at[t])}

GitWorks(d) == Exists(d) /\ Repo(d) # {}

IsLocalProject(d) == \E t \in TreesAt(d) : meta[t] # NoMeta

\* rename(from, to) with all that lies under it, where ds are the directories.
Rename(from, to, ds) ==
  /\ at' = [t \in Trees |-> IF at[t] # Nowhere /\ Under(from, at[t])
                            THEN Carried(at[t], from, to) ELSE at[t]]
  /\ dirs' = {IF Under(from, d) THEN Carried(d, from, to) ELSE d : d \in ds}
  /\ UNCHANGED <<meta, bare>>

\* RemoveAll(d), then removeEmptyParents.
RemoveTree(d) ==
  LET gone == {t \in OnDisk : Under(d, at[t])}
      rest == {e \in dirs : ~Under(d, e)}
      full(a) == \/ \E t \in OnDisk \ gone : Under(a, at[t])
                 \/ \E e \in rest \ Ancestors(d) : Under(a, e)
  IN  /\ at' = [t \in Trees |-> IF t \in gone THEN Nowhere ELSE at[t]]
      /\ meta' = [t \in Trees |-> IF t \in gone THEN NoMeta ELSE meta[t]]
      /\ bare' = bare \ gone
      /\ dirs' = {e \in rest : e \in Ancestors(d) => full(e)}

\* writeMetadata of p into its path in the manifest, on the disk given: the
\* directory is made if it is not there.
WriteMetadata(p) ==
  LET d == manifest[p]
      m == [key |-> p, path |-> d, remote |-> Remote(p)]
      here == TreesAt(d)
  IN  /\ dirs' = dirs \cup Around(d)
      /\ IF here # {}
         THEN /\ meta' = [t \in Trees |-> IF t \in here THEN m ELSE meta[t]]
              /\ UNCHANGED <<at, bare>>
         ELSE /\ EnoughCopies(p)
              /\ at' = [at EXCEPT ![Fresh(p)] = d]
              /\ meta' = [meta EXCEPT ![Fresh(p)] = m]
              /\ bare' = bare \cup {Fresh(p)}
-----------------------------------------------------------------------------
(***************************************************************************)
(* computeOperations.                                                      *)
(***************************************************************************)
Kind(p) ==
  IF p \notin DOMAIN local THEN "create"
  ELSE IF p \notin DOMAIN manifest THEN "delete"
  ELSE IF local[p].remote # Remote(p) THEN "change-remote"
  ELSE IF local[p].path # manifest[p] THEN "move"
  ELSE IF p \in Behind THEN "update" ELSE "null"

OpsOf(k) == {p \in DOMAIN local \cup DOMAIN manifest : Kind(p) = k}

\* op.project.Path: that of the manifest, or the local one for a delete.
OpPath(p) == IF p \in DOMAIN manifest THEN manifest[p] ELSE local[p].path

\* The next operation of the phase; deletes go from the end of the order.
IsNext(p) ==
  /\ p \in left
  /\ \A q \in left \ {p} :
       IF phase = "delete" THEN ~PathLess(OpPath(p), OpPath(q))
                           ELSE ~PathLess(OpPath(q), OpPath(p))

\* The Test of every operation, none of which looks at what the others will do.
TestFails ==
  \/ \E p \in OpsOf("delete") : ~Exists(local[p].path)
  \/ \E p \in OpsOf("move") : ~Exists(local[p].path) \/ Exists(manifest[p])
-----------------------------------------------------------------------------
(***************************************************************************)
(* The course of a run.                                                    *)
(***************************************************************************)
Phases == <<"delete", "change-remote", "move", "update", "create", "null", "status">>

\* Phase number n begins, or the first one after it that has something to do.
Enter(n) ==
  LET busy == {i \in n..Len(Phases) : i = Len(Phases) \/ OpsOf(Phases[i]) # {}}
      ph == Phases[CHOOSE i \in busy : \A j \in busy : i <= j]
  IN  /\ phase' = ph
      /\ left' = OpsOf(ph)

Number(ph) == CHOOSE i \in DOMAIN Phases : Phases[i] = ph

\* p's operation is done: the next one, or the next phase.
Done(ph, p) ==
  IF left = {p} THEN Enter(Number(ph) + 1)
                ELSE phase' = ph /\ left' = left \ {p}

\* What an attempt keeps in memory is gone.
Forget ==
  /\ local' = <<>> /\ left' = {} /\ kept' = {}
  /\ psrc' = <<>> /\ pdst' = <<>> /\ moving' = NoMove
  /\ failed' = FALSE

\* The attempt ends with r.  An error in a fast one is tried again with a scan.
\* Mutant: an error in any attempt is.
EndOrRetry(r) ==
  /\ Forget
  /\ IF r = "error"
     THEN phase' = "load" /\ scan' = "full" /\ UNCHANGED ret
     ELSE phase' = "snapshot" /\ ret' = r /\ UNCHANGED scan
EndAttempt(r) ==
  /\ Forget
  /\ IF r = "error" /\ scan = "fast"
     THEN phase' = "load" /\ scan' = "full" /\ UNCHANGED ret
     ELSE phase' = "snapshot" /\ ret' = r /\ UNCHANGED scan

Fails == EndAttempt("error")

\* Something outside jiri fails.
Fault == faults < MaxFaults /\ faults' = faults + 1

Begin ==
  /\ phase = "idle"
  /\ runs < MaxRuns
  /\ runs' = runs + 1
  /\ manifest' \in Manifests
  /\ gc' \in GC
  /\ scan' = IF gc' THEN "full" ELSE "fast"
  /\ phase' = "load"
  /\ ret' = "none"
  /\ UNCHANGED <<fsVars, work, latest, local, left, kept, moveVars, failed, crashes, faults>>

\* findLocalProjects: a tree found where its metadata does not put it is stale, and
\* nothing below it is looked at.
Seen(t) ==
  /\ t \in OnDisk /\ ~InSwap(at[t])
  /\ meta[t] # NoMeta /\ meta[t].path = at[t]
  /\ \A d \in Ancestors(at[t]) : \A u \in TreesAt(d) :
       meta[u] # NoMeta => meta[u].path = d

Found == {meta[t] : t \in {u \in Trees : Seen(u)}}
ByKey(ms) == [p \in {m.key : m \in ms} |-> CHOOSE m \in ms : m.key = p]
NameConflict == \E m, n \in Found : m # n /\ m.key = n.key

\* Are all projects of the latest snapshot there?  What is there is not looked at.
SnapshotUsable(s) == \A p \in DOMAIN s : IsLocalProject(s[p].path)

FromSnapshot == scan = "fast" /\ \E s \in latest : SnapshotUsable(s)
LocalProjects == IF FromSnapshot THEN CHOOSE s \in latest : TRUE ELSE ByKey(Found)

\* LocalProjects, the states of the projects, computeOperations and the tests.
Load ==
  /\ phase = "load"
  /\ \/ /\ FromSnapshot \/ ~NameConflict
        /\ local' = LocalProjects
        /\ phase' = "test"
        /\ UNCHANGED <<scan, left, kept, moveVars, failed, ret, faults>>
     \/ ~FromSnapshot /\ NameConflict /\ Fails /\ UNCHANGED faults
     \/ Fault /\ Fails
  /\ UNCHANGED <<fsVars, work, latest, inputVars, countVars>>

Test ==
  /\ phase = "test"
  /\ LET stops == TestFails \/ \E p \in DOMAIN local : ~GitWorks(local[p].path)
     IN  \/ stops /\ Fails
         \/ /\ ~stops
            /\ Enter(IF gc THEN 1 ELSE 2)
            /\ UNCHANGED <<scan, local, kept, moveVars, failed, ret>>
  /\ UNCHANGED <<fsVars, work, latest, inputVars, countVars, faults>>
-----------------------------------------------------------------------------
(***************************************************************************)
(* runDeleteOperations and deleteOperation.Run, without -gc not reached.   *)
(***************************************************************************)
\* What Run finds in d: branches, uncommitted changes, or untracked files, among
\* which git counts checkouts in d that no .gitignore names.
\* Mutant: only what git knows of the checkout itself.
HasOwnWork(d) == Repo(d) \cap work # {}
HasWork(d) ==
  \E t \in Repo(d) :
    \/ t \in work
    \/ /\ Of(t) \notin Covers
       /\ \E u \in OnDisk \ bare : u \notin Repo(d) /\ Under(d, at[u])

\* notDeleted.Contains
KeptBelow(d) == \E k \in kept : Under(d, k)

\* Mutant: the checks of Run before it asks git, without the one for Ignore.
DeletableIfIgnored(p) == ~KeptBelow(local[p].path)
Deletable(p) == ~KeptBelow(local[p].path) /\ p \notin Ignore

\* notDeleted.Insert
KeepIt(p) == kept' = kept \cup {local[p].path}

Delete(p) ==
  LET d == local[p].path IN
  /\ phase = "delete" /\ IsNext(p)
  /\ \/ /\ ~Deletable(p) \/ (GitWorks(d) /\ HasWork(d))
        /\ KeepIt(p)
        /\ Done("delete", p)
        /\ UNCHANGED <<fsVars, scan, local, moveVars, failed, ret>>
     \/ /\ Deletable(p) /\ GitWorks(d) /\ ~HasWork(d)
        /\ RemoveTree(d)
        /\ Done("delete", p)
        /\ UNCHANGED <<scan, local, kept, moveVars, failed, ret>>
     \/ /\ Deletable(p) /\ ~GitWorks(d)
        /\ Fails
        /\ UNCHANGED fsVars
  /\ UNCHANGED <<work, latest, inputVars, countVars, faults>>

(***************************************************************************)
(* changeRemoteOperation.Run works in the path of the manifest.            *)
(***************************************************************************)
ChangeRemote(p) ==
  LET d == manifest[p] IN
  /\ phase = "change-remote" /\ IsNext(p)
  /\ \/ Skipped(p) /\ Done("change-remote", p) /\ UNCHANGED <<fsVars, scan, local, kept, moveVars, failed, ret>>
     \/ ~Skipped(p) /\ ~GitWorks(d) /\ Fails /\ UNCHANGED fsVars
     \/ \* a branch is not in the new remote: it is left as it is
        /\ ~Skipped(p) /\ GitWorks(d) /\ TreesAt(d) \cap work # {}
        /\ Done("change-remote", p) /\ UNCHANGED <<fsVars, scan, local, kept, moveVars, failed, ret>>
     \/ /\ ~Skipped(p) /\ GitWorks(d)
        /\ WriteMetadata(p)
        /\ Done("change-remote", p) /\ UNCHANGED <<scan, local, kept, moveVars, failed, ret>>
  /\ UNCHANGED <<work, latest, inputVars, countVars, faults>>

(***************************************************************************)
(* runMoveOperations and moveOperation.Run.  A source that begins with the *)
(* source of the last move that did not is taken to have moved with it.    *)
(***************************************************************************)
WithParent(p) == psrc # <<>> /\ IsPrefix(psrc, local[p].path)
Source(p) ==
  LET s == local[p].path IN
  IF WithParent(p) THEN Join(pdst, SubSeq(s, Len(psrc) + 1, Len(s))) ELSE s

SetParent(p) ==
  IF WithParent(p) THEN UNCHANGED <<psrc, pdst>>
  ELSE psrc' = local[p].path /\ pdst' = manifest[p]

\* Up to the first rename of renameDir, into the swap directory.
Move(p) ==
  LET s == Source(p) IN
  /\ phase = "move" /\ IsNext(p)
  /\ \/ /\ p \in Ignore
        /\ SetParent(p) /\ Done("move", p)
        /\ UNCHANGED <<fsVars, moving, scan, local, kept, failed, ret>>
     \/ /\ p \notin Ignore /\ s = manifest[p]
        /\ SetParent(p) /\ moving' = {<<p, s>>} /\ phase' = "moved"
        /\ UNCHANGED <<fsVars, scan, local, left, kept, failed, ret>>
     \/ /\ p \notin Ignore /\ s # manifest[p]
        /\ Exists(s) /\ ~Exists(SwapName(s))
        /\ SetParent(p) /\ moving' = {<<p, s>>} /\ phase' = "moving"
        /\ Rename(s, SwapName(s), dirs)
        /\ UNCHANGED <<scan, local, left, kept, failed, ret>>
     \/ /\ p \notin Ignore /\ s # manifest[p]
        /\ ~Exists(s) \/ Exists(SwapName(s))
        /\ Fails /\ UNCHANGED fsVars
  /\ UNCHANGED <<work, latest, inputVars, countVars, faults>>

\* Mutant: the tree is left in the swap directory.
LeaveInSwap(src, ds) == dirs' = ds /\ UNCHANGED <<at, meta, bare>>

\* Move tmp -> src, if nothing has come there.
TakeBack(src, ds) ==
  IF src \notin ds THEN Rename(SwapName(src), src, ds)
                  ELSE dirs' = ds /\ UNCHANGED <<at, meta, bare>>

MoveIn(p, src) ==
  LET d == manifest[p]
      ds == dirs \cup Ancestors(d) IN
  /\ phase = "moving" /\ <<p, src>> \in moving
  /\ \/ /\ d \notin ds
        /\ Rename(SwapName(src), d, ds)
        /\ phase' = "moved"
        /\ UNCHANGED <<scan, local, left, kept, moveVars, failed, ret, faults>>
     \/ /\ \/ d \in ds /\ UNCHANGED faults
           \/ Fault
        /\ TakeBack(src, ds)
        /\ Fails
     \/ /\ Fault     \* MkdirAll, or both renames
        /\ Fails /\ UNCHANGED fsVars
  /\ UNCHANGED <<work, latest, inputVars, countVars>>

\* syncProjectMaster works in the path of the manifest.
SyncWorks(p) == Skipped(p) \/ GitWorks(manifest[p])

\* The rest of an operation that ends in syncProjectMaster and writeMetadata.
SyncAndWrite(ph, p) ==
  /\ \/ /\ SyncWorks(p)
        /\ WriteMetadata(p)
        /\ Done(ph, p)
        /\ UNCHANGED <<scan, local, kept, moveVars, failed, ret>>
     \/ ~SyncWorks(p) /\ Fails /\ UNCHANGED fsVars
  /\ UNCHANGED <<work, latest, inputVars, countVars, faults>>

MoveFinish(p, src) == phase = "moved" /\ <<p, src>> \in moving /\ SyncAndWrite("move", p)
UpdateOp(p) == phase = "update" /\ IsNext(p) /\ SyncAndWrite("update", p)

Null(p) ==
  /\ phase = "null" /\ IsNext(p)
  /\ WriteMetadata(p)
  /\ Done("null", p)
  /\ UNCHANGED <<work, latest, inputVars, countVars, scan, local, kept, moveVars, failed, ret, faults>>
-----------------------------------------------------------------------------
(***************************************************************************)
(* runCreateOperations, in an order its workers keep: after the operations *)
(* on the directories around, and not at all if one of these fails.        *)
(***************************************************************************)
Ready(p) ==
  /\ p \in left
  /\ \A q \in left : Under(manifest[q], manifest[p]) => manifest[q] = manifest[p]

\* rest is still to be created, and an error is to be reported if bad.
\* Mutant: the error is not passed on.
CreatesGoOnQuietly(rest, bad) ==
  IF rest # {}
  THEN left' = rest /\ failed' = FALSE /\ UNCHANGED <<phase, scan, local, kept, moveVars, ret>>
  ELSE Enter(Number("null")) /\ failed' = FALSE /\ UNCHANGED <<scan, local, kept, moveVars, ret>>
CreatesGoOn(rest, bad) ==
  \/ /\ rest # {}
     /\ left' = rest /\ failed' = bad /\ UNCHANGED <<phase, scan, local, kept, moveVars, ret>>
  \/ /\ rest = {} /\ ~bad
     /\ Enter(Number("null")) /\ failed' = FALSE /\ UNCHANGED <<scan, local, kept, moveVars, ret>>
  \/ rest = {} /\ bad /\ Fails

Create(p) ==
  LET d == manifest[p]
      given == {q \in left : Under(d, manifest[q])} IN
  /\ phase = "create" /\ Ready(p)
  /\ \/ /\ Exists(d) => IsEmptyDir(d)
        /\ EnoughCopies(p)
        /\ dirs' = dirs \cup Around(d)
        /\ at' = [at EXCEPT ![Fresh(p)] = d]
        /\ meta' = [meta EXCEPT ![Fresh(p)] = [key |-> p, path |-> d, remote |-> Remote(p)]]
        /\ UNCHANGED <<bare, faults>>
        /\ CreatesGoOn(left \ {p}, failed)
     \/ /\ Exists(d) /\ ~IsEmptyDir(d)
        /\ CreatesGoOn(left \ given, TRUE)
        /\ UNCHANGED <<fsVars, faults>>
     \/ /\ Exists(d) => IsEmptyDir(d)
        /\ Fault   \* the clone, which is removed again
        /\ dirs' = (dirs \cup Ancestors(d)) \ {d}
        /\ CreatesGoOn(left \ given, TRUE)
        /\ UNCHANGED <<at, meta, bare>>
  /\ UNCHANGED <<work, latest, inputVars, countVars>>
-----------------------------------------------------------------------------
\* getProjectStatus asks git about every project; packages and hooks come after it.
Status ==
  /\ phase = "status"
  /\ EndAttempt(IF \A p \in DOMAIN manifest : Skipped(p) \/ GitWorks(manifest[p])
                THEN "nil" ELSE "error")
  /\ UNCHANGED <<fsVars, work, latest, inputVars, countVars, faults>>

\* Git, the network or the file system fails an operation before it does anything,
\* or packages or hooks fail.
OpFails ==
  /\ phase \in {"delete", "change-remote", "move", "moved", "update", "null", "status"}
  /\ Fault
  /\ Fails
  /\ UNCHANGED <<fsVars, work, latest, inputVars, countVars>>

\* WriteUpdateHistorySnapshot, after any outcome, with a full scan of its own.
Snapshot ==
  /\ phase = "snapshot"
  /\ phase' = "idle"
  /\ IF NameConflict \/ \E m \in Found : ~GitWorks(m.path)
     THEN ret' = "error" /\ UNCHANGED latest
     ELSE latest' = {ByKey(Found)} /\ UNCHANGED ret
  /\ UNCHANGED <<fsVars, work, inputVars, scan, local, left, kept, moveVars, failed,
                 countVars, faults>>

\* The process is killed; a clone may be left half made, with no metadata.
Crash ==
  /\ phase # "idle"
  /\ crashes < MaxCrashes
  /\ crashes' = crashes + 1
  /\ phase' = "idle" /\ ret' = "killed"
  /\ Forget
  /\ \/ UNCHANGED fsVars
     \/ \E p \in left :
          /\ phase = "create" /\ Ready(p)
          /\ Exists(manifest[p]) => IsEmptyDir(manifest[p])
          /\ EnoughCopies(p)
          /\ dirs' = dirs \cup Around(manifest[p])
          /\ at' = [at EXCEPT ![Fresh(p)] = manifest[p]]
          /\ UNCHANGED <<meta, bare>>
  /\ UNCHANGED <<work, latest, inputVars, scan, runs, faults>>

\* Between runs the user starts to work in a checkout.
UserWorks(t) ==
  /\ phase = "idle"
  /\ Of(t) \in Edited
  /\ t \in OnDisk \ (bare \cup work) /\ ~InSwap(at[t])
  /\ work' = work \cup {t}
  /\ UNCHANGED <<fsVars, latest, inputVars, phase, scan, local, left, kept, moveVars,
                 failed, ret, countVars, faults>>

Operation(p) ==
  \/ Delete(p) \/ ChangeRemote(p) \/ Move(p)
  \/ \E m \in moving : MoveIn(p, m[2]) \/ MoveFinish(p, m[2])
  \/ UpdateOp(p) \/ Create(p) \/ Null(p)

Step == Load \/ Test \/ (\E p \in Projects : Operation(p)) \/ Status \/ Snapshot

Halted == phase = "idle" /\ runs = MaxRuns /\ UNCHANGED vars

Init ==
  /\ at = [t \in Trees |-> IF t[2] = 1 /\ Of(t) \in DOMAIN Start THEN Start[Of(t)] ELSE Nowhere]
  /\ meta = [t \in Trees |-> IF at[t] = Nowhere THEN NoMeta
                             ELSE [key |-> Of(t), path |-> at[t], remote |-> "old"]]
  /\ bare = {}
  /\ work = {}
  /\ dirs = UNION {Around(Start[p]) : p \in DOMAIN Start}
  /\ latest = {ByKey(Found)}
  /\ manifest = <<>> /\ gc = FALSE
  /\ phase = "idle" /\ scan = "fast"
  /\ local = <<>> /\ left = {} /\ kept = {}
  /\ psrc = <<>> /\ pdst = <<>> /\ moving = NoMove
  /\ failed = FALSE /\ ret = "none"
  /\ runs = 0 /\ crashes = 0 /\ faults = 0

Next ==
  \/ Begin \/ Step \/ OpFails \/ Crash
  \/ \E t \in Trees : UserWorks(t)
  \/ Halted

Spec == Init /\ [][Next]_vars
-----------------------------------------------------------------------------
Meta == [key : Projects, path : Path, remote : {"old", "new"}]
IsLocals(l) == \A p \in DOMAIN l : p \in Projects /\ l[p] \in Meta

\* The values the variables take.
DiskOK ==
  /\ at \in [Trees -> Path \cup {Nowhere}]
  /\ meta \in [Trees -> Meta \cup {NoMeta}]
  /\ bare \subseteq Trees
  /\ dirs \subseteq Path

AttemptOK ==
  /\ IsLocals(local)
  /\ left \subseteq Projects
  /\ kept \subseteq Path
  /\ psrc \in Path \cup {Nowhere}
  /\ psrc # Nowhere => pdst \in Path
  /\ moving \subseteq Projects \X Path
  /\ failed \in BOOLEAN

RunOK ==
  /\ work \subseteq Trees
  /\ \A s \in latest : IsLocals(s)
  /\ \A p \in DOMAIN manifest : p \in Projects /\ manifest[p] \in Path
  /\ gc \in BOOLEAN
  /\ phase \in {"idle", "load", "test", "moving", "moved", "snapshot"} \cup Range(Phases)
  /\ scan \in {"fast", "full"}
  /\ ret \in {"none", "nil", "error", "killed"}
  /\ runs \in 0..MaxRuns /\ crashes \in 0..MaxCrashes /\ faults \in 0..MaxFaults

TypeOK == DiskOK /\ AttemptOK /\ RunOK

\* Unsaved work is never lost: a tree that holds some is on the disk at all times,
\* if only in the swap directory (deleteOperation.Run: "Never delete projects with
\* non-master branches, uncommitted work, or untracked content").
WorkSurvives == \A t \in work : at[t] # Nowhere

\* As long as no run was killed (the run after that may take the tree of one project for
\* that of another), a run that reports success leaves each project of the manifest that is
\* not ignored checked out in its place (jiri update: "The sequence in which the
\* individual updates happen guarantees that we end up with a consistent workspace").
Consistent ==
  phase = "idle" /\ ret = "nil" /\ crashes = 0 =>
    \A p \in DOMAIN manifest \ Ignore : \E t \in TreesAt(manifest[p]) : Of(t) = p /\ t \notin bare

\* As long as no run was killed, what a fast run takes from the snapshot is there: the
\* project itself, and not another one in its place (projectsExistLocally: "returns
\* true iff all the given projects exist on the local filesystem").
SnapshotTrue ==
  phase = "test" /\ scan = "fast" /\ crashes = 0 /\ latest = {local} =>
    \A p \in DOMAIN local : \E t \in TreesAt(local[p].path) : Of(t) = p

\* A success is consistent, and what a fast run believes is true (Consistent, SnapshotTrue).
WorkspaceTrue == Consistent /\ SnapshotTrue

\* An ignored project stays where it is (behaviour.md: "jiri will completely ignore this
\* project"), as long as it does not lie in one that is moved.
IgnoredStay == [][\A t \in Trees : Of(t) \in Ignore /\ at[t] # Nowhere => at'[t] = at[t]]_vars

\* Every run ends.
RunsEnd == []<>(phase = "idle")

\* When a run has ended without being killed and nothing outside has failed so far, the swap directory
\* is empty: no tree is left where only a message of renameDir points to it.
SwapEmpty == phase = "idle" /\ crashes = 0 /\ faults = 0 => \A d \in dirs : ~InSwap(d)
=============================================================================
