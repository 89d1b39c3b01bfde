---------------------------- MODULE UpdateHistory ----------------------------
(***************************************************************************)
(* WriteUpdateHistorySnapshot and WriteUpdateHistoryLog of                 *)
(* project/project.go, run after run, in a directory of files named by the *)
(* second: each writes its file and then turns the link "second-latest" to *)
(* what "latest" was and "latest" to the new file.  The links of snapshots *)
(* are hard links, to the file itself; those of logs are symbolic, to its  *)
(* name.  A run may be killed, or fail, at any step.                       *)
(***************************************************************************)
EXTENDS Naturals, Functions

CONSTANTS
  MaxRuns,  \* bound: runs
  MaxTime   \* bound: seconds

ASSUME HistoryAssumption == MaxRuns \in Nat /\ MaxTime \in Nat \ {0}

VARIABLES
  log,      \* is it the log (symbolic links) or the snapshot (hard links)?
  clock,
  files,    \* the files of the directory: name |-> inode
  tmp,      \* the temporary files of safeWriteFile: name |-> inode
  data,     \* data[i]: the run whose whole snapshot or log is in inode i, or Partial
  latest,   \* what the link refers to, or None
  second,
  hpc,       \* where the run is
  run,      \* its number
  name,     \* the name of its file
  given,    \* inodes given out so far
  once      \* history: has a run ended?

linkVars == <<latest, second>>
historyVars == <<log, clock, files, tmp, data, latest, second, hpc, run, name, given, once>>

\* f with v under n.
Put(f, n, v) == [m \in DOMAIN f \cup {n} |-> IF m = n THEN v ELSE f[m]]

None == 0
Partial == 0

\* Where a link leads.
Target == IF log THEN name ELSE files[name]
Content(link) == data[IF log THEN files[link] ELSE link]
-----------------------------------------------------------------------------
Tick ==
  /\ clock < MaxTime
  /\ clock' = clock + 1
  /\ UNCHANGED <<files, tmp, data, linkVars, hpc, run, name, given, once>>

Begin ==
  /\ hpc \in {"idle", "ended"} /\ run < MaxRuns
  /\ hpc' = "create" /\ run' = run + 1 /\ name' = clock
  /\ UNCHANGED <<clock, files, tmp, data, linkVars, given, once>>

\* ioutil.WriteFile opens the file, which truncates it if it is there.
Open(dir, i) ==
  /\ IF name \in DOMAIN dir
     THEN i = dir[name] /\ UNCHANGED given
     ELSE i = given + 1 /\ given' = given + 1
  /\ data' = Put(data, i, Partial)

\* Mutant: a snapshot is written without a temporary file.
CreateInPlace ==
  /\ hpc = "create" /\ hpc' = "fill"
  /\ \E i \in 1..(given + 1) :
       Open(files, i) /\ files' = Put(files, name, i) /\ tmp' = Put(tmp, name, i)
  /\ UNCHANGED <<clock, linkVars, run, name, once>>

Create ==
  /\ hpc = "create" /\ hpc' = "fill"
  /\ \E i \in 1..(given + 1) :
       \/ log /\ Open(files, i) /\ files' = Put(files, name, i) /\ UNCHANGED tmp
       \/ ~log /\ Open(tmp, i) /\ tmp' = Put(tmp, name, i) /\ UNCHANGED files
  /\ UNCHANGED <<clock, linkVars, run, name, once>>

Fill ==
  /\ hpc = "fill"
  /\ hpc' = IF log THEN "look" ELSE "rename"
  /\ data' = [data EXCEPT ![IF log THEN files[name] ELSE tmp[name]] = run]
  /\ UNCHANGED <<clock, files, tmp, linkVars, run, name, given, once>>

\* The rename at the end of safeWriteFile.
Rename ==
  /\ hpc = "rename" /\ hpc' = "look"
  /\ files' = Put(files, name, tmp[name])
  /\ tmp' = Restrict(tmp, DOMAIN tmp \ {name})
  /\ UNCHANGED <<clock, data, linkVars, run, name, given, once>>

\* isFile(latestLink)
Look ==
  /\ hpc = "look"
  /\ hpc' = IF latest = None THEN "unlink" ELSE "drop"
  /\ UNCHANGED <<clock, files, tmp, data, linkVars, run, name, given, once>>

DropSecond ==
  /\ hpc = "drop" /\ hpc' = "second"
  /\ second' = None
  /\ UNCHANGED <<clock, files, tmp, data, latest, run, name, given, once>>

\* Mutant: the link is turned to the new file.
LinkSecondNew ==
  /\ hpc = "second" /\ hpc' = "unlink"
  /\ second' = Target
  /\ UNCHANGED <<clock, files, tmp, data, latest, run, name, given, once>>

\* os.Link fails if the link is there: it is not, after DropSecond.
LinkSecond ==
  /\ hpc = "second" /\ hpc' = "unlink"
  /\ second' = latest
  /\ UNCHANGED <<clock, files, tmp, data, latest, run, name, given, once>>

\* Mutant: both links are removed first.
UnlinkBoth ==
  /\ hpc = "unlink" /\ hpc' = "link"
  /\ latest' = None /\ second' = None
  /\ UNCHANGED <<clock, files, tmp, data, run, name, given, once>>

Unlink ==
  /\ hpc = "unlink" /\ hpc' = "link"
  /\ latest' = None
  /\ UNCHANGED <<clock, files, tmp, data, second, run, name, given, once>>

Link ==
  /\ hpc = "link" /\ hpc' = "ended"
  /\ latest' = Target /\ once' = TRUE
  /\ UNCHANGED <<clock, files, tmp, data, second, run, name, given>>

\* The run is killed, or a step of it fails and it returns the error.
Stop ==
  /\ hpc \notin {"idle", "ended"} /\ hpc' = "idle"
  /\ UNCHANGED <<clock, files, tmp, data, linkVars, run, name, given, once>>
-----------------------------------------------------------------------------
HistoryInit ==
  /\ log \in BOOLEAN
  /\ clock = 1 /\ files = <<>> /\ tmp = <<>> /\ data = <<>> /\ given = 0
  /\ latest = None /\ second = None
  /\ hpc = "idle" /\ run = 0 /\ name = 1 /\ once = FALSE

AllDone == hpc \in {"idle", "ended"} /\ run = MaxRuns /\ clock = MaxTime /\ UNCHANGED historyVars

HistoryNext ==
  \/ /\ \/ Tick \/ Begin \/ Create \/ Fill \/ Rename \/ Look \/ DropSecond \/ LinkSecond
        \/ Unlink \/ Link \/ Stop
     /\ UNCHANGED log
  \/ AllDone

HistorySpec == HistoryInit /\ [][HistoryNext]_historyVars
-----------------------------------------------------------------------------
Links == {latest, second} \ {None}

\* The values the variables take: a link is never left without its file.
HistoryTypeOK ==
  /\ log \in BOOLEAN /\ clock \in 1..MaxTime /\ run \in 0..MaxRuns /\ name \in 1..MaxTime /\ given \in Nat /\ once \in BOOLEAN
  /\ DOMAIN files \subseteq 1..MaxTime /\ DOMAIN tmp \subseteq 1..MaxTime
  /\ data \in [1..given -> 0..MaxRuns]
  /\ Range(files) \cup Range(tmp) \subseteq 1..given
  /\ Links \subseteq IF log THEN DOMAIN files ELSE 1..given
  /\ hpc \in {"idle", "create", "fill", "rename", "look", "drop", "second", "unlink", "link", "ended"}

\* A snapshot that a link names is whole at every moment, also while a second run in
\* the same second writes a file of the same name, and whatever was killed: the next
\* update trusts "latest" as it is.
LatestWhole == \A l \in Links : Content(l) # Partial

\* From the end of the first run on there is a record of some run under one of the two
\* links, whatever is killed where.
OneLeft == once => Links # {}

\* A run that ends has its record under "latest" and an older one, or none, under
\* "second-latest"; at no moment does "second-latest" name the newer of the two.
InOrder ==
  /\ hpc = "ended" =>
       /\ latest # None /\ Content(latest) = run
       /\ second \notin {None, latest} => Content(second) < run
  /\ latest # None /\ second # None /\ Content(latest) # Partial => Content(second) <= Content(latest)

\* Whatever is killed, once a run has ended a record of some run is left under one of the two
\* links (OneLeft), the newer one under "latest" (InOrder), and no link of the snapshots leads
\* to one that is half written (LatestWhole).
HistoryKept == OneLeft /\ InOrder /\ (~log => LatestWhole)
=============================================================================
