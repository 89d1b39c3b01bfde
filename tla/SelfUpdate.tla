------------------------------ MODULE SelfUpdate ------------------------------
(***************************************************************************)
(* updateExecutable of update.go with the retries of "jiri update": each   *)
(* process that runs the old binary writes the new one to a temporary file *)
(* next to it, moves the old one to another temporary file, moves the new  *)
(* one to its place, and moves the old one back if that failed.  The file  *)
(* it replaces is where its own binary is at that time, which another      *)
(* process may have moved.                                                 *)
(***************************************************************************)
EXTENDS Naturals, FiniteSets, Functions

CONSTANTS
  Teams,      \* the sets of processes that may run the old binary at the same time
  Attempts,   \* jirix.Attempts
  MaxFaults,  \* bound: operations on files that fail
  MaxKills    \* bound: processes killed

ASSUME SelfUpdateAssumption ==
  /\ \A team \in Teams : IsFiniteSet(team)
  /\ Attempts \in Nat \ {0} /\ MaxFaults \in Nat /\ MaxKills \in Nat

VARIABLES
  file,    \* the files of the directory: name |-> what is in them
  own,     \* the name under which the binary the processes run was last seen
  pc,      \* pc[p]: where p is, for the processes of one team
  try,     \* try[p]: its attempt
  path,    \* path[p]: the file it replaces
  faults, kills

vars == <<file, own, pc, try, path, faults, kills>>

Jiri == <<"jiri">>
NewFile(p) == <<"new", p, try[p]>>
OldFile(p) == <<"old", p, try[p]>>
There(f) == f \in DOMAIN file
Team == DOMAIN pc

\* Creates the file f, or empties it, and writes c to it.
CreateFile(f, c) == file' = [g \in DOMAIN file \cup {f} |-> IF g = f THEN c ELSE file[g]]

\* Renames the file a to b, in place of b if there is one.  The old binary keeps its
\* name when it is deleted.
RenameFile(a, b) ==
  /\ file' = [f \in (DOMAIN file \ {a}) \cup {b} |-> IF f = b THEN file[a] ELSE file[f]]
  /\ own' = IF own = a THEN b ELSE own

Goto(p, here, there) == pc[p] = here /\ pc' = [pc EXCEPT ![p] = there]

Fault == faults < MaxFaults /\ faults' = faults + 1
-----------------------------------------------------------------------------
\* osutil.Executable, and os.Stat
Find(p) ==
  /\ path' = [path EXCEPT ![p] = own]
  /\ \/ There(own) /\ Goto(p, "find", "write")
     \/ ~There(own) /\ Goto(p, "find", "failed")
  /\ UNCHANGED <<file, own, try, faults, kills>>

\* The first temporary file: all of it is written, or only some.
Write(p) ==
  /\ \/ /\ Goto(p, "write", "backup")
        /\ CreateFile(NewFile(p), "new") /\ UNCHANGED faults
     \/ Fault /\ Goto(p, "write", "failed") /\ CreateFile(NewFile(p), "some")
  /\ UNCHANGED <<own, try, path, kills>>

\* The second one, still empty.
Backup(p) ==
  /\ \/ Goto(p, "backup", "away") /\ CreateFile(OldFile(p), "empty") /\ UNCHANGED faults
     \/ Fault /\ Goto(p, "backup", "failed") /\ UNCHANGED file
  /\ UNCHANGED <<own, try, path, kills>>

MoveAway(p) ==
  /\ \/ /\ There(path[p]) /\ Goto(p, "away", "in")
        /\ RenameFile(path[p], OldFile(p)) /\ UNCHANGED faults
     \/ ~There(path[p]) /\ Goto(p, "away", "clean") /\ UNCHANGED <<file, own, faults>>
     \/ There(path[p]) /\ Fault /\ Goto(p, "away", "clean") /\ UNCHANGED <<file, own>>
  /\ UNCHANGED <<try, path, kills>>

\* Mutant: there is no way back.
MoveInOnly(p) ==
  /\ \/ Goto(p, "in", "cleanOk") /\ RenameFile(NewFile(p), path[p]) /\ UNCHANGED faults
     \/ Fault /\ Goto(p, "in", "clean") /\ UNCHANGED <<file, own>>
  /\ UNCHANGED <<try, path, kills>>

MoveIn(p) ==
  /\ \/ Goto(p, "in", "cleanOk") /\ RenameFile(NewFile(p), path[p]) /\ UNCHANGED faults
     \/ Fault /\ Goto(p, "in", "back") /\ UNCHANGED <<file, own>>
  /\ UNCHANGED <<try, path, kills>>

MoveBack(p) ==
  /\ Goto(p, "back", "clean")
  /\ \/ There(OldFile(p)) /\ RenameFile(OldFile(p), path[p]) /\ UNCHANGED faults
     \/ ~There(OldFile(p)) /\ UNCHANGED <<file, own, faults>>
     \/ There(OldFile(p)) /\ Fault /\ UNCHANGED <<file, own>>
  /\ UNCHANGED <<try, path, kills>>

\* Mutant: the first temporary file is removed as well.
CleanBoth(p) ==
  /\ \/ Goto(p, "clean", "failed")
     \/ Goto(p, "cleanOk", "updated")
  /\ file' = Restrict(file, DOMAIN file \ {OldFile(p), NewFile(p)})
  /\ UNCHANGED <<own, try, path, faults, kills>>

\* Mutant: the backup is put back in any case.
CleanByRestore(p) ==
  /\ \/ Goto(p, "clean", "failed")
     \/ Goto(p, "cleanOk", "updated")
  /\ IF There(OldFile(p)) THEN RenameFile(OldFile(p), path[p]) ELSE UNCHANGED <<file, own>>
  /\ UNCHANGED <<try, path, faults, kills>>

\* The deferred os.Remove of the backup, in whatever state it is.
Clean(p) ==
  /\ \/ Goto(p, "clean", "failed")
     \/ Goto(p, "cleanOk", "updated")
  /\ file' = Restrict(file, DOMAIN file \ {OldFile(p)})
  /\ UNCHANGED <<own, try, path, faults, kills>>

\* retry.Function
Retry(p) ==
  /\ \/ try[p] < Attempts /\ Goto(p, "failed", "find") /\ try' = [try EXCEPT ![p] = @ + 1]
     \/ try[p] = Attempts /\ Goto(p, "failed", "gaveUp") /\ UNCHANGED try
  /\ UNCHANGED <<file, own, path, faults, kills>>

Ended == {"updated", "gaveUp", "killed"}

Kill(p) ==
  /\ kills < MaxKills /\ pc[p] \notin Ended
  /\ kills' = kills + 1
  /\ pc' = [pc EXCEPT ![p] = "killed"]
  /\ UNCHANGED <<file, own, try, path, faults>>
-----------------------------------------------------------------------------
Start(team) ==
  /\ file = [f \in {Jiri} |-> "old"] /\ own = Jiri
  /\ pc = [p \in team |-> "find"] /\ try = [p \in team |-> 1]
  /\ path = [p \in team |-> Jiri]
  /\ faults = 0 /\ kills = 0

Init == \E team \in Teams : Start(team)

Step(p) ==
  \/ Find(p) \/ Write(p) \/ Backup(p) \/ MoveAway(p) \/ MoveIn(p) \/ MoveBack(p)
  \/ Clean(p) \/ Retry(p)

AllEnded == \A p \in Team : pc[p] \in Ended

Finished == AllEnded /\ UNCHANGED vars

Next == (\E p \in Team : Step(p) \/ Kill(p)) \/ Finished

Spec == Init /\ [][Next]_vars
-----------------------------------------------------------------------------
Binaries == {f \in DOMAIN file : file[f] \in {"old", "new"}}

\* The values the variables take.
TypeOK ==
  /\ \A f \in DOMAIN file : file[f] \in {"old", "new", "some", "empty"}
  /\ Team \in Teams
  /\ pc \in [Team -> Ended \cup {"find", "write", "backup", "away", "in", "back", "clean", "cleanOk", "failed"}]
  /\ try \in [Team -> 1..Attempts]
  /\ DOMAIN path = Team
  /\ faults \in 0..MaxFaults /\ kills \in 0..MaxKills

\* Whatever fails and whoever is killed, a whole binary is left in the directory, if
\* only under the name of a temporary file: the backup is removed after a failed way
\* back too.
NeverGone == Binaries # {}

\* How many failures are made good: one, by the way back, as long as there is one
\* process.  Where there are more, another may have moved the backup by then.
MadeGood == IF Cardinality(Team) = 1 THEN 1 ELSE 0

\* When nobody is at work any more and nobody was killed, jiri is there and whole, and
\* no update that was done is undone.
InPlace ==
  AllEnded /\ kills = 0 /\ faults <= MadeGood =>
    /\ Jiri \in Binaries
    /\ (\E p \in Team : pc[p] = "updated" /\ path[p] = Jiri) => file[Jiri] = "new"

\* Whatever happens jiri is left, whole, under some name, and it is in its place when all
\* is over and there was no failure or one that is made good.
JiriStays == NeverGone /\ InPlace
===============================================================================
