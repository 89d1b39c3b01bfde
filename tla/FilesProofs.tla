---------------------------- MODULE FilesProofs ----------------------------
(* Proofs about SelfUpdate, UpdateHistory, Settings, ManifestCmd and EditCmd. *)
EXTENDS SelfUpdate, UpdateHistory, Settings, ManifestCmd, EditCmd, FiniteSetTheorems, TLAPS

-----------------------------------------------------------------------------
(* The inductive invariant. *)

\* What a process replaces, and what it started from, is never a new binary.
Names == own[1] # "new" /\ \A p \in Team : path[p][1] # "new"

\* From the first temporary file on there is a whole new binary in it.
Written ==
  \A p \in Team :
    pc[p] \in {"backup", "away", "in", "back", "clean"} =>
      There(NewFile(p)) /\ file[NewFile(p)] = "new"

\* The new binaries nobody will move any more, or only to the place of jiri.
Settled(p, t) ==
  \/ t < try[p]
  \/ t = try[p] /\ pc[p] \in {"back", "clean", "failed", "gaveUp", "killed"}
  \/ t = try[p] /\ pc[p] \in {"backup", "away", "in"} /\ path[p] = Jiri

Spare(p, t) ==
  /\ Settled(p, t) /\ There(<<"new", p, t>>)
  /\ file[<<"new", p, t>>] = "new"

\* jiri is in its place, or there is a new binary to fall back on.
Left == Jiri \in Binaries \/ \E p \in Team, t \in 1..Attempts : Spare(p, t)

GoneInv == TypeOK /\ Names /\ Written /\ Left

\* The failures so far are made good.
Calm == kills = 0 /\ faults <= MadeGood

\* jiri is in its place, or somebody is about to bring it there; who brought it, brought
\* the new one; who has to go back met a failure.
Placed ==
  /\ Jiri \in Binaries \/ \E p \in Team : path[p] = Jiri /\ pc[p] \in {"in", "back"}
  /\ \A p \in Team :
       pc[p] \in {"cleanOk", "updated"} /\ path[p] = Jiri /\ There(Jiri) => file[Jiri] = "new"
  /\ \A p \in Team : pc[p] = "back" => faults > 0

\* A process that is alone always replaces jiri, and has it in its backup when it has to
\* go back.
Alone ==
  Cardinality(Team) = 1 =>
    \A p \in Team :
      /\ path[p] = Jiri
      /\ pc[p] \in {"find", "write", "backup", "away", "clean", "failed"} => own = Jiri
      /\ pc[p] \in {"in", "back"} => own = OldFile(p) /\ OldFile(p) \in Binaries

IInv == GoneInv /\ (Calm => Placed /\ Alone)

-----------------------------------------------------------------------------
(* The directory. *)

\* The names of the files of different purposes, processes and attempts differ.
LEMMA DifferentNames ==
  ASSUME NEW p, NEW q, NEW t, NEW u
  PROVE  /\ <<"new", p, t>>[1] = "new" /\ <<"old", p, t>>[1] = "old" /\ Jiri[1] = "jiri"
         /\ <<"new", p, t>> = <<"new", q, u>> => p = q /\ t = u
         /\ <<"new", p, t>> # Jiri /\ <<"old", p, t>> # Jiri /\ <<"new", p, t>> # <<"old", q, u>>
  BY DEF Jiri

\* A file is created, or emptied: the others stay.
LEMMA CreatedFile ==
  ASSUME NEW f, NEW c, CreateFile(f, c)
  PROVE  /\ DOMAIN file' = DOMAIN file \cup {f} /\ file'[f] = c
         /\ \A g \in DOMAIN file : g # f => file'[g] = file[g]
  BY DEF CreateFile

\* A file is renamed: the ones with other names stay.
LEMMA RenamedFile ==
  ASSUME NEW a \in DOMAIN file, NEW b, RenameFile(a, b)
  PROVE  /\ DOMAIN file' = (DOMAIN file \ {a}) \cup {b} /\ file'[b] = file[a]
         /\ \A g \in DOMAIN file : g \notin {a, b} => file'[g] = file[g]
         /\ own' = IF own = a THEN b ELSE own
  BY DEF RenameFile

\* A file is removed, if it was there: the others stay.
LEMMA RemovedFile ==
  ASSUME NEW f, file' = Restrict(file, DOMAIN file \ {f})
  PROVE  /\ DOMAIN file' = DOMAIN file \ {f}
         /\ \A g \in DOMAIN file : g # f => file'[g] = file[g]
  BY DEF Restrict

-----------------------------------------------------------------------------
(* Type correctness. *)

LEMMA InitTypeOK == Init => TypeOK
<1> SUFFICES ASSUME NEW team \in Teams, Start(team)
             PROVE  TypeOK
  BY DEF Init
<1>1. DOMAIN file = {Jiri} /\ file[Jiri] = "old"
  BY DEF Start
<1>2. Team = team
  BY DEF Start, Team
<1>3. 1 \in 1..Attempts /\ 0 \in 0..MaxFaults /\ 0 \in 0..MaxKills
  BY SelfUpdateAssumption
<1>4. QED
  BY <1>1, <1>2, <1>3 DEF Start, TypeOK, Ended

LEMMA NextTypeOK == TypeOK /\ Written /\ [Next]_vars => TypeOK'
<1> SUFFICES ASSUME TypeOK, Written, [Next]_vars
             PROVE  TypeOK'
  OBVIOUS
<1> USE SelfUpdateAssumption
<1> DEFINE Contents == {"old", "new", "some", "empty"}
<1>1. ASSUME NEW p \in Team, Find(p)
      PROVE  TypeOK'
  BY <1>1 DEF Find, Goto, TypeOK, Ended, Team
<1>2. ASSUME NEW p \in Team, Write(p)
      PROVE  TypeOK'
  <2>1. PICK c \in {"new", "some"} : CreateFile(NewFile(p), c)
    BY <1>2 DEF Write
  <2>2. \A f \in DOMAIN file' : file'[f] \in Contents
    BY <2>1, CreatedFile DEF TypeOK
  <2>3. QED
    BY <1>2, <2>2 DEF Write, Goto, Fault, TypeOK, Ended, Team
<1>3. ASSUME NEW p \in Team, Backup(p)
      PROVE  TypeOK'
  <2>1. CreateFile(OldFile(p), "empty") \/ file' = file
    BY <1>3 DEF Backup
  <2>2. \A f \in DOMAIN file' : file'[f] \in Contents
    BY <2>1, CreatedFile DEF TypeOK
  <2>3. QED
    BY <1>3, <2>2 DEF Backup, Goto, Fault, TypeOK, Ended, Team
<1>4. ASSUME NEW a \in DOMAIN file, NEW b, RenameFile(a, b)
      PROVE  \A f \in DOMAIN file' : file'[f] \in Contents
  <2>1. DOMAIN file' = (DOMAIN file \ {a}) \cup {b} /\ file'[b] = file[a]
    BY <1>4, RenamedFile
  <2>2. \A g \in DOMAIN file : g \notin {a, b} => file'[g] = file[g]
    BY <1>4, RenamedFile
  <2>3. QED
    BY <2>1, <2>2 DEF TypeOK
<1>5. ASSUME NEW p \in Team, MoveAway(p)
      PROVE  TypeOK'
  <2>1. \A f \in DOMAIN file' : file'[f] \in Contents
    BY <1>4, <1>5 DEF MoveAway, There, TypeOK
  <2>2. QED
    BY <1>5, <2>1 DEF MoveAway, Goto, Fault, TypeOK, Ended, Team
<1>6. ASSUME NEW p \in Team, MoveIn(p)
      PROVE  TypeOK'
  <2>1. \A f \in DOMAIN file' : file'[f] \in Contents
    BY <1>4, <1>6 DEF MoveIn, Goto, Written, There, TypeOK
  <2>2. QED
    BY <1>6, <2>1 DEF MoveIn, Goto, Fault, TypeOK, Ended, Team
<1>7. ASSUME NEW p \in Team, MoveBack(p)
      PROVE  TypeOK'
  <2>1. \A f \in DOMAIN file' : file'[f] \in Contents
    BY <1>4, <1>7 DEF MoveBack, There, TypeOK
  <2>2. QED
    BY <1>7, <2>1 DEF MoveBack, Goto, Fault, TypeOK, Ended, Team
<1>8. ASSUME NEW p \in Team, Clean(p)
      PROVE  TypeOK'
  <2>1. \A f \in DOMAIN file' : file'[f] \in Contents
    BY <1>8, RemovedFile DEF Clean, TypeOK
  <2>2. QED
    BY <1>8, <2>1 DEF Clean, Goto, TypeOK, Ended, Team
<1>9. ASSUME NEW p \in Team, Retry(p)
      PROVE  TypeOK'
  BY <1>9 DEF Retry, Goto, TypeOK, Ended, Team
<1>10. ASSUME NEW p \in Team, Kill(p)
       PROVE  TypeOK'
  BY <1>10 DEF Kill, TypeOK, Ended, Team
<1>11. CASE UNCHANGED vars
  BY <1>11 DEF vars, TypeOK, Team
<1>12. QED
  BY <1>1, <1>2, <1>3, <1>5, <1>6, <1>7, <1>8, <1>9, <1>10, <1>11 DEF Next, Step, Finished

-----------------------------------------------------------------------------
(* What a step leaves alone. *)

\* A step of a process is its own.
LEMMA OthersWait ==
  ASSUME TypeOK, NEW p \in Team, Step(p) \/ Kill(p), NEW q \in Team, q # p
  PROVE  pc'[q] = pc[q] /\ try'[q] = try[q] /\ path'[q] = path[q]
<1>1. pc'[q] = pc[q]
  BY DEF Step, Find, Write, Backup, MoveAway, MoveIn, MoveBack, Clean, Retry, Kill, Goto, TypeOK
<1>2. try'[q] = try[q] /\ path'[q] = path[q]
  BY DEF Step, Find, Write, Backup, MoveAway, MoveIn, MoveBack, Clean, Retry, Kill, TypeOK
<1>3. QED
  BY <1>1, <1>2

LEMMA TeamStays ==
  ASSUME TypeOK, NEW p \in Team, Step(p) \/ Kill(p)
  PROVE  Team' = Team
  BY DEF Step, Find, Write, Backup, MoveAway, MoveIn, MoveBack, Clean, Retry, Kill, Goto, TypeOK, Team

\* A step changes the file it replaces and the two temporary ones of its attempt, each at
\* its time.
LEMMA Untouched ==
  ASSUME TypeOK, Written, NEW p \in Team, Step(p) \/ Kill(p), NEW f \in DOMAIN file,
         f # OldFile(p),
         pc[p] \in {"write", "in"} => f # NewFile(p),
         pc[p] \in {"away", "in", "back"} => f # path[p]
  PROVE  f \in DOMAIN file' /\ file'[f] = file[f]
<1>1. CASE Find(p) \/ Retry(p) \/ Kill(p)
  BY <1>1 DEF Find, Retry, Kill
<1>2. CASE Write(p)
  BY <1>2, CreatedFile DEF Write, Goto
<1>3. CASE Backup(p)
  BY <1>3, CreatedFile DEF Backup, Goto
<1>4. CASE MoveAway(p)
  <2>1. CASE file' = file
    BY <2>1
  <2>2. CASE file' # file
    <3>1. path[p] \in DOMAIN file /\ RenameFile(path[p], OldFile(p))
      BY <1>4, <2>2 DEF MoveAway, Goto, There
    <3>2. f # path[p] /\ f # OldFile(p)
      BY <1>4 DEF MoveAway, Goto
    <3>3. QED
      BY <3>1, <3>2 DEF RenameFile
  <2>3. QED
    BY <2>1, <2>2
<1>5. CASE MoveIn(p)
  <2>1. CASE file' = file
    BY <2>1
  <2>2. CASE file' # file
    <3>1. NewFile(p) \in DOMAIN file /\ RenameFile(NewFile(p), path[p])
      BY <1>5, <2>2 DEF MoveIn, Goto, There, Written
    <3>2. f # NewFile(p) /\ f # path[p]
      BY <1>5 DEF MoveIn, Goto
    <3>3. QED
      BY <3>1, <3>2 DEF RenameFile
  <2>3. QED
    BY <2>1, <2>2
<1>6. CASE MoveBack(p)
  <2>1. CASE file' = file
    BY <2>1
  <2>2. CASE file' # file
    <3>1. OldFile(p) \in DOMAIN file /\ RenameFile(OldFile(p), path[p])
      BY <1>6, <2>2 DEF MoveBack, Goto, There
    <3>2. f # OldFile(p) /\ f # path[p]
      BY <1>6 DEF MoveBack, Goto
    <3>3. QED
      BY <3>1, <3>2 DEF RenameFile
  <2>3. QED
    BY <2>1, <2>2
<1>7. CASE Clean(p)
  BY <1>7, RemovedFile DEF Clean
<1>8. QED
  BY <1>1, <1>2, <1>3, <1>4, <1>5, <1>6, <1>7 DEF Step

-----------------------------------------------------------------------------
(* A whole binary remains. *)

LEMMA NamesStep ==
  ASSUME TypeOK, Names, Written, NEW p \in Team, Step(p) \/ Kill(p)
  PROVE  Names'
<1>1. OldFile(p)[1] = "old"
  BY DifferentNames DEF OldFile
<1>2. own' \in {own, OldFile(p), path[p]}
  <2>1. CASE MoveAway(p) \/ MoveIn(p) \/ MoveBack(p)
    BY <2>1 DEF MoveAway, MoveIn, MoveBack, RenameFile
  <2>2. CASE ~(MoveAway(p) \/ MoveIn(p) \/ MoveBack(p))
    BY <2>2 DEF Step, Find, Write, Backup, Clean, Retry, Kill
  <2>3. QED
    BY <2>1, <2>2
<1>3. path'[p] \in {path[p], own}
  BY DEF Step, Find, Write, Backup, MoveAway, MoveIn, MoveBack, Clean, Retry, Kill, TypeOK
<1>4. QED
  BY <1>1, <1>2, <1>3, OthersWait, TeamStays DEF Names

\* The new binary of an attempt stays until its process moves it in.
LEMMA NewStays ==
  ASSUME TypeOK, Names, Written, NEW p \in Team, Step(p) \/ Kill(p), NEW q, NEW t,
         There(<<"new", q, t>>), <<q, t>> = <<p, try[p]>> => pc[p] \notin {"write", "in"}
  PROVE  There(<<"new", q, t>>)' /\ file'[<<"new", q, t>>] = file[<<"new", q, t>>]
<1> DEFINE f == <<"new", q, t>>
<1>1. f # OldFile(p) /\ f # path[p]
  BY DifferentNames DEF OldFile, Names
<1>2. pc[p] \in {"write", "in"} => f # NewFile(p)
  BY DifferentNames DEF NewFile
<1>3. QED
  BY <1>1, <1>2, Untouched DEF There

LEMMA WrittenStep ==
  ASSUME TypeOK, Names, Written, NEW p \in Team, Step(p) \/ Kill(p)
  PROVE  Written'
<1> SUFFICES ASSUME NEW q \in Team', pc'[q] \in {"backup", "away", "in", "back", "clean"}
             PROVE  There(NewFile(q))' /\ file'[NewFile(q)'] = "new"
  BY DEF Written
<1>1. q \in Team
  BY TeamStays
<1>2. CASE q # p
  <2>1. pc'[q] = pc[q] /\ NewFile(q)' = NewFile(q)
    BY <1>1, <1>2, OthersWait DEF NewFile
  <2>2. QED
    BY <1>1, <1>2, <2>1, NewStays DEF Written, NewFile
<1>3. CASE q = p /\ pc[p] = "write"
  <2>1. Write(p) /\ pc'[p] # "failed"
    BY <1>1, <1>3 DEF Step, Find, Write, Backup, MoveAway, MoveIn, MoveBack, Clean, Retry, Kill, Goto, TypeOK
  <2>2. CreateFile(NewFile(p), "new")
    BY <1>1, <1>3, <2>1 DEF Write, Goto, TypeOK, Team
  <2>3. NewFile(p)' = NewFile(p)
    BY <2>1 DEF Write, NewFile
  <2>4. QED
    BY <1>3, <2>2, <2>3 DEF CreateFile, There
<1>4. CASE q = p /\ pc[p] = "in"
  <2>1. MoveIn(p) /\ pc'[p] # "cleanOk"
    BY <1>1, <1>4 DEF Step, Find, Write, Backup, MoveAway, MoveIn, MoveBack, Clean, Retry, Kill, Goto, TypeOK
  <2>2. file' = file /\ NewFile(p)' = NewFile(p)
    BY <1>1, <2>1 DEF MoveIn, Goto, TypeOK, NewFile
  <2>3. QED
    BY <1>1, <1>4, <2>2 DEF Written, There
<1>5. CASE q = p /\ pc[p] \notin {"write", "in"}
  <2>1. pc[p] \in {"backup", "away", "back", "clean"} /\ try' = try
    BY <1>1, <1>5 DEF Step, Find, Write, Backup, MoveAway, MoveIn, MoveBack, Clean, Retry, Kill, Goto, TypeOK, Ended
  <2>2. QED
    BY <1>1, <1>5, <2>1, NewStays DEF Written, NewFile
<1>6. QED
  BY <1>2, <1>3, <1>4, <1>5

\* A process at work on jiri leaves a new binary behind, whatever becomes of its attempt.
LEMMA WorkedOn ==
  ASSUME TypeOK, Names, Written, NEW p \in Team, Step(p) \/ Kill(p),
         pc[p] \in {"away", "in", "back"}, path[p] = Jiri
  PROVE  Left'
<1>1. try' = try /\ path' = path /\ try[p] \in 1..Attempts /\ Team' = Team
  BY TeamStays DEF Step, Find, Write, Backup, MoveAway, MoveIn, MoveBack, Clean, Retry, Kill, Goto, TypeOK
<1>2. CASE MoveIn(p) /\ pc'[p] = "cleanOk"
  <2>1. RenameFile(NewFile(p), Jiri) /\ There(NewFile(p)) /\ file[NewFile(p)] = "new"
    BY <1>2 DEF MoveIn, Goto, Written, TypeOK, Team
  <2>2. Jiri \in Binaries'
    BY <2>1 DEF RenameFile, Binaries
  <2>3. QED
    BY <2>2 DEF Left, Jiri
<1>3. CASE ~(MoveIn(p) /\ pc'[p] = "cleanOk")
  <2>1. There(NewFile(p))' /\ file'[NewFile(p)] = "new"
    <3>1. CASE pc[p] = "in"
      <4>1. file' = file
        BY <1>3, <3>1 DEF Step, Find, Write, Backup, MoveAway, MoveIn, MoveBack, Clean, Retry, Kill, Goto, TypeOK, Team
      <4>2. QED
        BY <1>1, <3>1, <4>1 DEF Written, There, NewFile
    <3>2. CASE pc[p] # "in"
      BY <1>1, <3>2, NewStays DEF Written, NewFile
    <3>3. QED
      BY <3>1, <3>2
  <2>2. pc'[p] \in {"in", "back", "clean", "killed"}
    BY <1>3 DEF Step, Find, Write, Backup, MoveAway, MoveIn, MoveBack, Clean, Retry, Kill, Goto, TypeOK, Team
  <2>3. Spare(p, try[p])'
    BY <1>1, <2>1, <2>2 DEF Spare, Settled, NewFile, Jiri
  <2>4. QED
    BY <1>1, <2>3 DEF Left
<1>4. QED
  BY <1>2, <1>3

LEMMA JiriUntouched ==
  ASSUME TypeOK, Written, NEW p \in Team, Step(p) \/ Kill(p), There(Jiri),
         ~(pc[p] \in {"away", "in", "back"} /\ path[p] = Jiri)
  PROVE  There(Jiri)' /\ file'[Jiri] = file[Jiri]
<1>1. Jiri # OldFile(p) /\ Jiri # NewFile(p)
  BY DifferentNames DEF OldFile, NewFile
<1>2. QED
  BY <1>1, Untouched DEF There, Jiri

LEMMA LeftStep ==
  ASSUME TypeOK, Names, Written, Left, NEW p \in Team, Step(p) \/ Kill(p)
  PROVE  Left'
<1>1. CASE pc[p] \in {"away", "in", "back"} /\ path[p] = Jiri
  BY <1>1, WorkedOn
<1>2. CASE ~(pc[p] \in {"away", "in", "back"} /\ path[p] = Jiri) /\ Jiri \in Binaries
  BY <1>2, JiriUntouched DEF Left, Binaries, There, Jiri
<1>3. ASSUME ~(pc[p] \in {"away", "in", "back"} /\ path[p] = Jiri),
             NEW q \in Team, NEW t \in 1..Attempts, Spare(q, t)
      PROVE  Left'
  <2>1. <<q, t>> = <<p, try[p]>> => pc[p] \notin {"write", "in"}
    BY <1>3 DEF Spare, Settled
  <2>2. There(<<"new", q, t>>)' /\ file'[<<"new", q, t>>] = "new"
    BY <1>3, <2>1, NewStays DEF Spare
  <2>3. Settled(q, t)'
    <3>1. CASE q # p
      BY <1>3, <3>1, OthersWait DEF Spare, Settled
    <3>2. CASE q = p /\ t < try[p]
      <4>1. try[p] \in Nat /\ try'[p] \in {try[p], try[p] + 1}
        BY SelfUpdateAssumption DEF Step, Find, Write, Backup, MoveAway, MoveIn, MoveBack, Clean, Retry, Kill, TypeOK
      <4>2. QED
        BY <3>2, <4>1 DEF Settled
    <3>3. CASE q = p /\ t = try[p] /\ pc[p] \in {"clean", "failed", "back", "gaveUp", "killed"}
      <4>1. \/ try' = try /\ pc'[p] \in {"clean", "failed", "gaveUp", "killed"}
            \/ try' = [try EXCEPT ![p] = @ + 1]
        BY <1>3, <3>3 DEF Step, Find, Write, Backup, MoveAway, MoveIn, MoveBack, Clean, Retry, Kill, Goto, TypeOK, Ended, Team
      <4>2. t < t + 1 /\ try \in [Team -> 1..Attempts]
        BY SelfUpdateAssumption DEF TypeOK
      <4>3. QED
        BY <3>3, <4>1, <4>2 DEF Settled
    <3>4. CASE q = p /\ t = try[p] /\ pc[p] = "backup" /\ path[p] = Jiri
      <4>1. try' = try /\ path' = path /\ pc'[p] \in {"away", "failed", "killed"}
        BY <1>3, <3>4 DEF Step, Find, Write, Backup, MoveAway, MoveIn, MoveBack, Clean, Retry, Kill, Goto, TypeOK, Ended, Team
      <4>2. QED
        BY <3>4, <4>1 DEF Settled, Jiri
    <3>5. Settled(q, t)
      BY <1>3 DEF Spare
    <3>6. \/ q # p
          \/ q = p /\ t < try[p]
          \/ q = p /\ t = try[p] /\ pc[p] \in {"clean", "failed", "back", "gaveUp", "killed"}
          \/ q = p /\ t = try[p] /\ pc[p] = "backup" /\ path[p] = Jiri
      BY <1>3, <3>5 DEF Settled
    <3>7. QED
      BY <3>1, <3>2, <3>3, <3>4, <3>6
  <2>4. Spare(q, t)'
    BY <2>2, <2>3 DEF Spare
  <2>5. QED
    BY <1>3, <2>4, TeamStays DEF Left
<1>4. QED
  BY <1>1, <1>2, <1>3 DEF Left

-----------------------------------------------------------------------------
(* jiri is in its place in the end. *)

\* Failures and kills are not forgotten.
LEMMA CalmBefore ==
  ASSUME TypeOK, NEW p \in Team, Step(p) \/ Kill(p), Calm'
  PROVE  /\ Calm /\ Step(p)
         /\ MadeGood' = MadeGood /\ faults \in Nat /\ faults' \in {faults, faults + 1}
<1>1. /\ kills \in Nat /\ kills' \in {kills, kills + 1} /\ faults \in Nat
      /\ faults' \in {faults, faults + 1} /\ (Kill(p) => kills' = kills + 1)
  BY SelfUpdateAssumption DEF Step, Find, Write, Backup, MoveAway, MoveIn, MoveBack, Clean, Retry, Kill, Fault, TypeOK
<1>2. MadeGood' = MadeGood /\ MadeGood \in {0, 1}
  BY TeamStays DEF MadeGood
<1>3. QED
  BY <1>1, <1>2 DEF Calm

LEMMA AloneTeam ==
  ASSUME Cardinality(Team) = 1, TypeOK, NEW p \in Team
  PROVE  Team = {p}
<1>1. IsFiniteSet(Team)
  BY SelfUpdateAssumption DEF TypeOK
<1>2. PICK q : Team = {q}
  BY <1>1, FS_Singleton
<1>3. QED
  BY <1>2

LEMMA AloneStep ==
  ASSUME TypeOK, Placed, Alone, NEW p \in Team, Step(p), Calm, Calm'
  PROVE  Alone'
<1> SUFFICES ASSUME Cardinality(Team) = 1
             PROVE  /\ path'[p] = Jiri
                    /\ pc'[p] \in {"find", "write", "backup", "away", "clean", "failed"} => own' = Jiri
                    /\ pc'[p] \in {"in", "back"} => own' = OldFile(p)' /\ OldFile(p)' \in Binaries'
  BY AloneTeam, TeamStays DEF Alone, Jiri
<1>1. /\ path[p] = Jiri
      /\ pc[p] \in {"find", "write", "backup", "away", "clean", "failed"} => own = Jiri
      /\ pc[p] \in {"in", "back"} => own = OldFile(p) /\ OldFile(p) \in Binaries
  BY DEF Alone
<1>2. OldFile(p) # Jiri /\ NewFile(p) # OldFile(p)
  BY DifferentNames DEF OldFile, NewFile
<1>3. p \in DOMAIN pc /\ p \in DOMAIN path
  BY DEF TypeOK, Team
<1>4. CASE Find(p) \/ Write(p) \/ Backup(p) \/ Clean(p) \/ Retry(p)
  <2>1. own' = own /\ path'[p] \in {path[p], own} /\ pc'[p] \notin {"in", "back"}
    BY <1>3, <1>4 DEF Find, Write, Backup, Clean, Retry, Goto
  <2>2. pc'[p] \in {"find", "write", "backup", "away", "clean", "failed"} =>
          pc[p] \in {"find", "write", "backup", "away", "clean", "failed"}
    BY <1>3, <1>4 DEF Find, Write, Backup, Clean, Retry, Goto
  <2>3. path'[p] = Jiri
    BY <1>1, <1>3, <1>4 DEF Find, Write, Backup, Clean, Retry, Goto
  <2>4. QED
    BY <1>1, <2>1, <2>2, <2>3
<1>5. CASE MoveAway(p)
  <2>1. Jiri \in Binaries /\ own = Jiri /\ OldFile(p)' = OldFile(p) /\ path' = path
    BY <1>1, <1>5, AloneTeam DEF Placed, MoveAway, Goto, OldFile
  <2>2. CASE file' = file /\ own' = own /\ pc'[p] = "clean"
    BY <1>1, <2>1, <2>2
  <2>3. CASE RenameFile(Jiri, OldFile(p)) /\ pc'[p] = "in"
    <3>1. own' = OldFile(p) /\ OldFile(p) \in Binaries'
      BY <2>1, <2>3 DEF RenameFile, Binaries
    <3>2. QED
      BY <1>1, <2>1, <2>3, <3>1
  <2>4. QED
    BY <1>1, <1>3, <1>5, <2>2, <2>3 DEF MoveAway, Goto
<1>6. CASE MoveIn(p)
  <2>1. own = OldFile(p) /\ OldFile(p) \in Binaries /\ OldFile(p)' = OldFile(p) /\ path' = path
    BY <1>1, <1>6 DEF MoveIn, Goto, OldFile
  <2>2. CASE file' = file /\ own' = own /\ pc'[p] = "back"
    BY <1>1, <2>1, <2>2 DEF Binaries
  <2>3. QED
    BY <1>1, <1>3, <1>6, <2>1, <2>2 DEF MoveIn, Goto
<1>7. CASE MoveBack(p)
  <2>1. own = OldFile(p) /\ There(OldFile(p)) /\ path' = path /\ pc'[p] = "clean"
    BY <1>1, <1>3, <1>7 DEF MoveBack, Goto, Binaries, There
  <2>2. faults' = faults
    <3>1. faults > 0 /\ faults \in Nat /\ faults' <= 1
      BY <1>7, TeamStays DEF Placed, MoveBack, Goto, TypeOK, Calm, MadeGood
    <3>2. QED
      BY <1>7, <3>1 DEF MoveBack, Fault
  <2>3. RenameFile(OldFile(p), Jiri)
    <3>1. ~Fault
      BY <2>2 DEF Fault, TypeOK
    <3>2. QED
      BY <1>1, <1>7, <2>1, <3>1 DEF MoveBack
  <2>4. QED
    BY <1>1, <2>1, <2>3 DEF RenameFile
<1>8. QED
  BY <1>4, <1>5, <1>6, <1>7 DEF Step

LEMMA JiriNotMade ==
  ASSUME TypeOK, Written, NEW p \in Team, Step(p), There(Jiri)',
         ~(pc[p] \in {"in", "back"} /\ path[p] = Jiri)
  PROVE  There(Jiri) /\ file'[Jiri] = file[Jiri]
<1>1. Jiri # OldFile(p) /\ Jiri # NewFile(p)
  BY DifferentNames DEF OldFile, NewFile
<1>2. There(Jiri)
  <2>1. Jiri \in DOMAIN file'
    BY DEF There, Jiri
  <2>2. QED
    BY <1>1, <2>1 DEF Step, Find, Write, Backup, MoveAway, MoveIn, MoveBack, Clean, Retry, Goto,
                      CreateFile, RenameFile, Restrict, There
<1>3. CASE pc[p] = "away" /\ path[p] = Jiri
  <2>1. MoveAway(p) /\ file' = file
    <3>1. MoveAway(p)
      BY <1>3 DEF Step, Find, Write, Backup, MoveAway, MoveIn, MoveBack, Clean, Retry, Goto
    <3>2. ~RenameFile(Jiri, OldFile(p))
      BY <1>1 DEF RenameFile, There, Jiri
    <3>3. QED
      BY <1>3, <3>1, <3>2 DEF MoveAway
  <2>2. QED
    BY <1>2, <2>1
<1>4. CASE ~(pc[p] = "away" /\ path[p] = Jiri)
  BY <1>2, <1>4, JiriUntouched
<1>5. QED
  BY <1>3, <1>4

\* With failures that are made good, only a process that is alone goes back.
LEMMA GoesBackAlone ==
  ASSUME TypeOK, Placed, Alone, NEW p \in Team, pc[p] = "back", Step(p), Calm, Calm'
  PROVE  /\ Cardinality(Team) = 1 /\ Team = {p}
         /\ path[p] = Jiri /\ RenameFile(OldFile(p), Jiri) /\ OldFile(p) \in Binaries
<1>1. faults > 0 /\ faults \in Nat /\ faults <= MadeGood
  BY DEF Placed, Calm, TypeOK
<1>2. Cardinality(Team) = 1 /\ faults = 1
  BY <1>1 DEF MadeGood
<1>3. Team = {p}
  BY <1>2, AloneTeam
<1>4. path[p] = Jiri /\ OldFile(p) \in Binaries
  BY <1>2 DEF Alone
<1>5. MoveBack(p)
  BY DEF Step, Find, Write, Backup, MoveAway, MoveIn, MoveBack, Clean, Retry, Goto
<1>6. ~Fault
  BY <1>2, TeamStays DEF Calm, MadeGood, Fault
<1>7. RenameFile(OldFile(p), Jiri)
  BY <1>4, <1>5, <1>6 DEF MoveBack, Binaries, There
<1>8. QED
  BY <1>2, <1>3, <1>4, <1>7

LEMMA PlacedStep ==
  ASSUME TypeOK, Written, Placed, Alone, NEW p \in Team, Step(p), Calm, Calm'
  PROVE  Placed'
<1>1. Jiri \in Binaries' \/ \E q \in Team' : path'[q] = Jiri /\ pc'[q] \in {"in", "back"}
  <2>1. CASE path[p] = Jiri /\ pc[p] \in {"away", "in"}
    <3>1. CASE MoveAway(p) /\ pc'[p] = "in"
      BY <2>1, <3>1, TeamStays DEF MoveAway
    <3>2. CASE MoveIn(p) /\ pc'[p] = "back"
      BY <2>1, <3>2, TeamStays DEF MoveIn
    <3>3. CASE MoveIn(p) /\ pc'[p] # "back"
      <4>1. RenameFile(NewFile(p), Jiri) /\ There(NewFile(p)) /\ file[NewFile(p)] = "new"
        BY <2>1, <3>3 DEF MoveIn, Goto, Written, TypeOK, Team
      <4>2. QED
        BY <4>1 DEF RenameFile, Binaries
    <3>4. CASE MoveAway(p) /\ pc'[p] # "in"
      <4>1. file' = file /\ path' = path /\ p \in DOMAIN pc
        BY <2>1, <3>4 DEF MoveAway, Goto, TypeOK, Team
      <4>2. CASE Jiri \in Binaries
        BY <4>1, <4>2 DEF Binaries
      <4>3. CASE Jiri \notin Binaries
        <5>1. PICK q \in Team : path[q] = Jiri /\ pc[q] \in {"in", "back"}
          BY <4>3 DEF Placed
        <5>2. q # p
          BY <2>1, <3>4, <5>1 DEF MoveAway, Goto
        <5>3. QED
          BY <4>1, <5>1, <5>2, OthersWait, TeamStays
      <4>4. QED
        BY <4>2, <4>3
    <3>5. QED
      BY <2>1, <3>1, <3>2, <3>3, <3>4 DEF Step, Find, Write, Backup, MoveAway, MoveIn, MoveBack, Clean, Retry, Goto
  <2>2. CASE pc[p] = "back"
    <3>1. RenameFile(OldFile(p), Jiri) /\ OldFile(p) \in Binaries
      BY <2>2, GoesBackAlone
    <3>2. QED
      BY <3>1 DEF RenameFile, Binaries
  <2>3. CASE ~(path[p] = Jiri /\ pc[p] \in {"away", "in"}) /\ pc[p] # "back"
    <3>1. CASE Jiri \in Binaries
      BY <2>3, <3>1, JiriUntouched DEF Binaries, There, Jiri
    <3>2. CASE Jiri \notin Binaries
      <4>1. PICK q \in Team : path[q] = Jiri /\ pc[q] \in {"in", "back"}
        BY <3>2 DEF Placed
      <4>2. q # p
        BY <2>3, <4>1
      <4>3. QED
        BY <4>1, <4>2, OthersWait, TeamStays
    <3>3. QED
      BY <3>1, <3>2
  <2>4. QED
    BY <2>1, <2>2, <2>3
<1>2. ASSUME NEW q \in Team, pc'[q] \in {"cleanOk", "updated"}, path'[q] = Jiri, There(Jiri)'
      PROVE  file'[Jiri] = "new"
  <2>1. CASE pc[p] = "back"
    <3>1. q = p /\ pc'[p] = "clean"
      BY <2>1, GoesBackAlone DEF Step, Find, Write, Backup, MoveAway, MoveIn, MoveBack, Clean, Retry, Goto, TypeOK, Team
    <3>2. QED
      BY <1>2, <3>1
  <2>2. CASE pc[p] = "in" /\ path[p] = Jiri
    <3>1. CASE pc'[p] = "back"
      <4>1. MoveIn(p) /\ file' = file
        BY <2>2, <3>1 DEF Step, Find, Write, Backup, MoveAway, MoveIn, MoveBack, Clean, Retry, Goto, TypeOK, Team
      <4>2. q # p
        BY <1>2, <3>1
      <4>3. There(Jiri)
        BY <1>2, <4>1 DEF There, Jiri
      <4>4. QED
        BY <1>2, <4>1, <4>2, <4>3, OthersWait DEF Placed
    <3>2. CASE pc'[p] # "back"
      <4>1. RenameFile(NewFile(p), Jiri) /\ file[NewFile(p)] = "new"
        BY <2>2, <3>2 DEF Step, Find, Write, Backup, MoveAway, MoveIn, MoveBack, Clean, Retry, Goto, TypeOK, Team, Written
      <4>2. QED
        BY <4>1 DEF RenameFile
    <3>3. QED
      BY <3>1, <3>2
  <2>3. CASE pc[p] # "back" /\ ~(pc[p] = "in" /\ path[p] = Jiri)
    <3>1. There(Jiri) /\ file'[Jiri] = file[Jiri]
      BY <1>2, <2>3, JiriNotMade
    <3>2. pc[q] \in {"cleanOk", "updated"} /\ path[q] = Jiri
      <4>1. CASE q # p
        BY <1>2, <4>1, OthersWait
      <4>2. CASE q = p
        BY <1>2, <2>3, <4>2 DEF Step, Find, Write, Backup, MoveAway, MoveIn, MoveBack, Clean, Retry, Goto, TypeOK, Team
      <4>3. QED
        BY <4>1, <4>2
    <3>3. QED
      BY <3>1, <3>2 DEF Placed
  <2>4. QED
    BY <2>1, <2>2, <2>3
<1>3. ASSUME NEW q \in Team, pc'[q] = "back"
      PROVE  faults' > 0
  <2>1. faults \in Nat /\ faults' \in {faults, faults + 1}
    BY CalmBefore
  <2>2. CASE q # p
    BY <1>3, <2>1, <2>2, OthersWait DEF Placed
  <2>3. CASE q = p
    <3>1. MoveIn(p) /\ faults' = faults + 1
      BY <1>3, <2>3 DEF Step, Find, Write, Backup, MoveAway, MoveIn, MoveBack, Clean, Retry, Goto, TypeOK, Team, Fault
    <3>2. QED
      BY <2>1, <3>1
  <2>4. QED
    BY <2>2, <2>3
<1>4. QED
  BY <1>1, <1>2, <1>3, TeamStays DEF Placed, Jiri

-----------------------------------------------------------------------------
(* The theorems. *)

LEMMA InitIInv == Init => IInv
<1> SUFFICES ASSUME NEW team \in Teams, Start(team)
             PROVE  IInv
  BY DEF Init
<1>1. TypeOK
  BY InitTypeOK DEF Init
<1>2. Jiri \in Binaries /\ own = Jiri /\ Jiri[1] # "new"
  BY DifferentNames DEF Start, Binaries
<1>3. \A p \in Team : path[p] = Jiri /\ pc[p] = "find"
  BY DEF Start, Team
<1>4. Names /\ Written /\ Left
  BY <1>2, <1>3 DEF Names, Written, Left
<1>5. Placed /\ Alone
  BY <1>2, <1>3 DEF Placed, Alone
<1>6. QED
  BY <1>1, <1>4, <1>5 DEF IInv, GoneInv

LEMMA NextIInv == IInv /\ [Next]_vars => IInv'
<1> SUFFICES ASSUME IInv, [Next]_vars
             PROVE  IInv'
  OBVIOUS
<1>1. TypeOK /\ Names /\ Written /\ Left /\ TypeOK'
  BY NextTypeOK DEF IInv, GoneInv
<1>2. ASSUME NEW p \in Team, Step(p) \/ Kill(p)
      PROVE  IInv'
  <2>1. Names' /\ Written' /\ Left'
    BY <1>1, <1>2, NamesStep, WrittenStep, LeftStep
  <2>2. ASSUME Calm'
        PROVE  Placed' /\ Alone'
    <3>1. Calm /\ Step(p)
      BY <1>1, <1>2, <2>2, CalmBefore
    <3>2. QED
      BY <1>1, <2>2, <3>1, PlacedStep, AloneStep DEF IInv
  <2>3. QED
    BY <1>1, <2>1, <2>2 DEF IInv, GoneInv
<1>3. CASE UNCHANGED vars
  BY <1>3 DEF vars, IInv, GoneInv, TypeOK, Names, Written, Left, Spare, Settled, Calm, MadeGood,
              Placed, Alone, Team, There, NewFile, OldFile, Binaries, Jiri
<1>4. QED
  BY <1>2, <1>3 DEF Next, Finished

\* Whatever the calls of the file system answer and whoever is killed, the processes are
\* where the code can be, and every file is whole, cut off, or empty.
THEOREM TypeCorrect == Spec => []TypeOK
<1>1. IInv => TypeOK
  BY DEF IInv, GoneInv
<1>2. QED
  BY InitIInv, NextIInv, <1>1, PTL DEF Spec

\* updateExecutable never leaves the directory without a whole binary, and puts one in the
\* place of jiri, the new one if it reports success, unless it is killed or meets more
\* failures than the way back makes good: for any number of processes that update at the
\* same time, with any number of attempts, failures and kills.
THEOREM JiriIsKept == Spec => []JiriStays
<1>1. IInv => NeverGone
  BY DEF IInv, GoneInv, Left, Spare, NeverGone, Binaries, There
<1>2. ASSUME IInv, AllEnded, Calm
      PROVE  /\ Jiri \in Binaries
             /\ (\E p \in Team : pc[p] = "updated" /\ path[p] = Jiri) => file[Jiri] = "new"
  <2>1. Placed
    BY <1>2 DEF IInv
  <2>2. \A p \in Team : pc[p] \notin {"in", "back"}
    BY <1>2 DEF AllEnded, Ended
  <2>3. Jiri \in Binaries
    BY <2>1, <2>2 DEF Placed
  <2>4. QED
    BY <2>1, <2>3 DEF Placed, Binaries, There
<1>3. IInv => JiriStays
  BY <1>1, <1>2 DEF InPlace, JiriStays, Calm
<1>4. QED
  BY InitIInv, NextIInv, <1>3, PTL DEF Spec
-----------------------------------------------------------------------------
(* The links of the update history. *)

Busy == hpc \notin {"idle", "ended"}

\* Where the run is tells what it has done: its file is whole when it turns to the links,
\* and it removes a link only where the other one is left, if there is one.
RunSteps ==
  /\ name <= clock /\ (hpc # "idle" => run > 0)
  /\ \A i \in 1..given : data[i] <= run
  /\ hpc = "fill" => name \in DOMAIN (IF log THEN files ELSE tmp)
  /\ hpc = "rename" => ~log /\ name \in DOMAIN tmp /\ data[tmp[name]] = run
  /\ hpc \in {"look", "drop", "second", "unlink", "link", "ended"} =>
       name \in DOMAIN files /\ data[files[name]] = run
  /\ hpc \in {"drop", "second"} => latest # None
  /\ hpc \in {"unlink", "link"} /\ once => second # None
  /\ hpc = "link" => latest = None
  /\ hpc = "ended" => latest = Target

\* The hard links: no temporary file is under a link, nor under the name of a finished
\* snapshot, so that what the links lead to stays as it is.
HardLinks ==
  /\ \A n, m \in DOMAIN tmp : tmp[n] = tmp[m] => n = m
  /\ \A n \in DOMAIN tmp : tmp[n] \notin Links
  /\ \A n \in DOMAIN tmp, m \in DOMAIN files : tmp[n] # files[m]
  /\ \A l \in Links : data[l] # Partial /\ (Busy => data[l] < run)
  /\ hpc = "ended" /\ second # None => data[second] < run
  /\ latest # None /\ second # None => data[second] <= data[latest]

\* The symbolic links: a later name is of a later run, whatever is written again in the same
\* second, and "second-latest" is never a later name than "latest".
SymbolicLinks ==
  /\ \A n, m \in DOMAIN files : files[n] = files[m] => n = m
  /\ \A n \in DOMAIN files : n <= name
  /\ \A n \in DOMAIN files : n # name \/ hpc = "create" => data[files[n]] < run
  /\ \A n, m \in DOMAIN files :
       n < m /\ data[files[m]] # Partial => data[files[n]] <= data[files[m]]
  /\ latest # None /\ second # None => second <= latest

HistoryInv == HistoryTypeOK /\ RunSteps /\ OneLeft /\ (IF log THEN SymbolicLinks ELSE HardLinks)
LEMMA InitHistoryInv == HistoryInit => HistoryInv
<1> SUFFICES ASSUME HistoryInit PROVE HistoryInv
  OBVIOUS
<1>1. DOMAIN files = {} /\ DOMAIN tmp = {} /\ Range(files) = {} /\ Range(tmp) = {} /\ Links = {} /\ given = 0
  BY DEF HistoryInit, Range, Links, None
<1>2. data \in [1..given -> 0..MaxRuns]
  BY <1>1 DEF HistoryInit
<1>3. HistoryTypeOK
  <2>1. 1 \in 1..MaxTime /\ 0 \in 0..MaxRuns /\ given \in Nat
    BY <1>1, HistoryAssumption
  <2>2. QED
    BY <1>1, <1>2, <2>1 DEF HistoryInit, HistoryTypeOK
<1>4. RunSteps
  BY <1>1 DEF HistoryInit, RunSteps
<1>5. QED
  BY <1>1, <1>3, <1>4 DEF HistoryInit, HistoryInv, OneLeft, SymbolicLinks, HardLinks, None

\* The steps that write no file and turn no link.
LEMMA QuietSteps ==
  ASSUME HistoryInv, UNCHANGED log, Tick \/ Begin \/ Look \/ Stop
  PROVE  HistoryInv'
<1> USE HistoryAssumption DEF HistoryInv
<1>0. HistoryTypeOK'
  <2>1. CASE Tick
    BY <2>1 DEF Tick, HistoryTypeOK, linkVars, Links
  <2>2. CASE Begin
    BY <2>2 DEF Begin, HistoryTypeOK, linkVars, Links
  <2>3. CASE Look
    BY <2>3 DEF Look, HistoryTypeOK, linkVars, Links
  <2>4. CASE Stop
    BY <2>4 DEF Stop, HistoryTypeOK, linkVars, Links
  <2>5. QED
    BY <2>1, <2>2, <2>3, <2>4
<1>1. CASE Tick
  <2>1. RunSteps'
    BY <1>1 DEF Tick, HistoryTypeOK, RunSteps, linkVars, Target
  <2>2. OneLeft' /\ IF log' THEN SymbolicLinks' ELSE HardLinks'
    BY <1>1 DEF Tick, HistoryTypeOK, OneLeft, SymbolicLinks, HardLinks, linkVars, Links, Busy
  <2>3. QED
    BY <1>0, <2>1, <2>2
<1>2. CASE Begin
  <2>1. RunSteps'
    BY <1>2 DEF Begin, HistoryTypeOK, RunSteps, linkVars, Target
  <2>2. ~log => HardLinks'
    BY <1>2 DEF Begin, HistoryTypeOK, RunSteps, HardLinks, linkVars, Links, Busy
  <2>3. log => SymbolicLinks'
    <3> SUFFICES ASSUME log PROVE SymbolicLinks'
      OBVIOUS
    <3>1. \A n \in DOMAIN files : files[n] \in 1..given /\ n \in 1..MaxTime /\ data[files[n]] <= run
      BY DEF HistoryTypeOK, RunSteps, Range
    <3>2. QED
      BY <1>2, <3>1 DEF Begin, HistoryTypeOK, RunSteps, SymbolicLinks, linkVars, Links
  <2>4. OneLeft'
    BY <1>2 DEF Begin, OneLeft, linkVars, Links
  <2>5. QED
    BY <1>0, <2>1, <2>2, <2>3, <2>4
<1>3. CASE Look
  <2>1. RunSteps'
    BY <1>3 DEF Look, HistoryTypeOK, RunSteps, OneLeft, Links, linkVars, Target
  <2>2. OneLeft' /\ IF log' THEN SymbolicLinks' ELSE HardLinks'
    BY <1>3 DEF Look, HistoryTypeOK, OneLeft, SymbolicLinks, HardLinks, linkVars, Links, Busy
  <2>3. QED
    BY <1>0, <2>1, <2>2
<1>4. CASE Stop
  <2>1. RunSteps'
    BY <1>4 DEF Stop, HistoryTypeOK, RunSteps, linkVars, Target
  <2>2. OneLeft' /\ IF log' THEN SymbolicLinks' ELSE HardLinks'
    BY <1>4 DEF Stop, HistoryTypeOK, OneLeft, SymbolicLinks, HardLinks, linkVars, Links, Busy
  <2>3. QED
    BY <1>0, <2>1, <2>2
<1>5. QED
  BY <1>1, <1>2, <1>3, <1>4

\* The steps that turn the links.
LEMMA LinkSteps ==
  ASSUME HistoryInv, UNCHANGED log, DropSecond \/ LinkSecond \/ Unlink \/ Link
  PROVE  HistoryInv'
<1> USE HistoryAssumption DEF HistoryInv
<1>0. \A n \in DOMAIN files : files[n] \in 1..given /\ n \in 1..MaxTime
  BY DEF HistoryTypeOK, Range
<1>1. CASE DropSecond
  <2>1. HistoryTypeOK'
    BY <1>1 DEF DropSecond, HistoryTypeOK, Links
  <2>2. RunSteps'
    BY <1>1 DEF DropSecond, HistoryTypeOK, RunSteps, Target
  <2>3. OneLeft' /\ IF log' THEN SymbolicLinks' ELSE HardLinks'
    BY <1>1 DEF DropSecond, HistoryTypeOK, RunSteps, OneLeft, SymbolicLinks, HardLinks, Links, Busy
  <2>4. QED
    BY <2>1, <2>2, <2>3
<1>2. CASE LinkSecond
  <2>1. HistoryTypeOK'
    BY <1>2 DEF LinkSecond, HistoryTypeOK, Links
  <2>2. RunSteps'
    BY <1>2 DEF LinkSecond, HistoryTypeOK, RunSteps, Target
  <2>3. OneLeft'
    BY <1>2 DEF LinkSecond, RunSteps, OneLeft, Links
  <2>4. log => SymbolicLinks'
    BY <1>0, <1>2 DEF LinkSecond, HistoryTypeOK, RunSteps, SymbolicLinks, Links
  <2>5. ~log => HardLinks'
    BY <1>2 DEF LinkSecond, HistoryTypeOK, RunSteps, HardLinks, Links, Busy
  <2>6. QED
    BY <1>2, <2>1, <2>2, <2>3, <2>4, <2>5
<1>3. CASE Unlink
  <2>1. HistoryTypeOK'
    BY <1>3 DEF Unlink, HistoryTypeOK, Links
  <2>2. RunSteps'
    BY <1>3 DEF Unlink, HistoryTypeOK, RunSteps, Target
  <2>3. OneLeft' /\ IF log' THEN SymbolicLinks' ELSE HardLinks'
    BY <1>3 DEF Unlink, HistoryTypeOK, RunSteps, OneLeft, SymbolicLinks, HardLinks, Links, Busy
  <2>4. QED
    BY <2>1, <2>2, <2>3
<1>4. CASE Link
  <2>0. Target # None /\ IF log THEN Target \in DOMAIN files ELSE Target \in 1..given
    BY <1>0, <1>4 DEF Link, RunSteps, HistoryTypeOK, Target, None
  <2>1. HistoryTypeOK'
    BY <1>4, <2>0 DEF Link, HistoryTypeOK, Links
  <2>2. RunSteps'
    BY <1>4 DEF Link, HistoryTypeOK, RunSteps, Target
  <2>3. OneLeft'
    BY <1>4, <2>0 DEF Link, OneLeft, Links
  <2>4. log => SymbolicLinks'
    BY <1>0, <1>4 DEF Link, HistoryTypeOK, RunSteps, SymbolicLinks, Links, Target
  <2>5. ~log => HardLinks'
    BY <1>0, <1>4, <2>0 DEF Link, HistoryTypeOK, RunSteps, HardLinks, Links, Target, Busy, Partial
  <2>6. QED
    BY <1>4, <2>1, <2>2, <2>3, <2>4, <2>5
<1>5. QED
  BY <1>1, <1>2, <1>3, <1>4

\* What Open leaves: the file that was there, emptied, or a new one; the others as they were.
LEMMA OpenedFile ==
  ASSUME HistoryTypeOK, NEW dir, NEW i \in 1..(given + 1), Range(dir) \subseteq 1..given, Open(dir, i)
  PROVE  /\ given' \in Nat /\ given <= given' /\ i \in 1..given'
         /\ data' \in [1..given' -> 0..MaxRuns] /\ data'[i] = Partial
         /\ \A j \in 1..given' : j # i => j \in 1..given /\ data'[j] = data[j]
         /\ \/ name \in DOMAIN dir /\ i = dir[name]
            \/ name \notin DOMAIN dir /\ i \notin 1..given
<1>1. given \in Nat /\ data \in [1..given -> 0..MaxRuns] /\ 0 \in 0..MaxRuns
  BY HistoryAssumption DEF HistoryTypeOK
<1>2. data' = [m \in 1..given \cup {i} |-> IF m = i THEN 0 ELSE data[m]]
  BY <1>1 DEF Open, Put, Partial
<1>3. CASE name \in DOMAIN dir
  <2>1. i = dir[name] /\ i \in 1..given /\ given' = given
    BY <1>3 DEF Open, Range
  <2>2. 1..given \cup {i} = 1..given'
    BY <2>1
  <2>3. QED
    BY <1>1, <1>2, <1>3, <2>1, <2>2 DEF Partial
<1>4. CASE name \notin DOMAIN dir
  <2>1. i = given + 1 /\ given' = given + 1
    BY <1>4 DEF Open
  <2>2. 1..given \cup {i} = 1..given'
    BY <1>1, <2>1
  <2>3. \A j \in 1..given' : j # i => j \in 1..given
    BY <1>1, <2>1
  <2>4. QED
    BY <1>1, <1>2, <1>4, <2>1, <2>2, <2>3 DEF Partial
<1>5. QED
  BY <1>3, <1>4

LEMMA CreateStep ==
  ASSUME HistoryInv, UNCHANGED log, Create
  PROVE  HistoryInv'
<1> USE HistoryAssumption
<1>1. HistoryTypeOK /\ RunSteps /\ OneLeft
  BY DEF HistoryInv
<1>2. \A n \in DOMAIN files : files[n] \in 1..given /\ n \in 1..MaxTime
  BY <1>1 DEF HistoryTypeOK, Range
<1>3. \A n \in DOMAIN tmp : tmp[n] \in 1..given /\ n \in 1..MaxTime
  BY <1>1 DEF HistoryTypeOK, Range
<1>4. OneLeft'
  BY <1>1 DEF Create, linkVars, OneLeft, Links
<1>5. CASE log
  <2>1. PICK i \in 1..(given + 1) : Open(files, i) /\ files' = Put(files, name, i) /\ UNCHANGED tmp
    BY <1>5 DEF Create
  <2>2. /\ given' \in Nat /\ given <= given' /\ i \in 1..given'
        /\ data' \in [1..given' -> 0..MaxRuns] /\ data'[i] = Partial
        /\ \A j \in 1..given' : j # i => j \in 1..given /\ data'[j] = data[j]
        /\ \/ name \in DOMAIN files /\ i = files[name]
           \/ name \notin DOMAIN files /\ i \notin 1..given
    <3>1. Range(files) \subseteq 1..given
      BY <1>1 DEF HistoryTypeOK
    <3>2. QED
      BY <1>1, <2>1, <3>1, OpenedFile
  <2>3. /\ DOMAIN files' = DOMAIN files \cup {name} /\ files'[name] = i
        /\ \A n \in DOMAIN files : n # name => files'[n] = files[n]
    BY <2>1 DEF Put
  <2>4. \A n \in DOMAIN files' : files'[n] \in 1..given' /\ n \in 1..MaxTime
    BY <1>1, <1>2, <2>2, <2>3 DEF HistoryTypeOK
  <2>5. \A n \in DOMAIN tmp' : tmp'[n] \in 1..given'
    BY <1>1, <1>3, <2>1, <2>2 DEF HistoryTypeOK
  <2>6. HistoryTypeOK'
    <3>1. Range(files)' \cup Range(tmp)' \subseteq 1..given'
      BY <2>4, <2>5 DEF Range
    <3>2. DOMAIN files' \subseteq 1..MaxTime
      BY <2>4
    <3>3. Links' \subseteq DOMAIN files'
      BY <1>1, <1>5, <2>3 DEF Create, linkVars, Links, HistoryTypeOK
    <3>4. QED
      BY <1>1, <1>5, <2>1, <2>2, <3>1, <3>2, <3>3 DEF Create, linkVars, HistoryTypeOK
  <2>7. RunSteps'
    BY <1>1, <1>5, <2>2, <2>3 DEF Create, RunSteps, HistoryTypeOK, Partial
  <2>8. SymbolicLinks'
    <3>1. SymbolicLinks
      BY <1>5 DEF HistoryInv
    <3>2. \A n \in DOMAIN files : n # name => files'[n] = files[n] /\ files[n] # i
      BY <1>2, <2>2, <2>3, <3>1 DEF SymbolicLinks
    <3>3. \A n \in DOMAIN files : n # name => data'[files'[n]] = data[files[n]]
      <4>1. \A j \in 1..given : j \in 1..given'
        BY <1>1, <2>2 DEF HistoryTypeOK
      <4>2. QED
        BY <1>2, <2>2, <3>2, <4>1
    <3>4. hpc = "create" /\ hpc' = "fill" /\ UNCHANGED <<name, run, latest, second>>
      BY DEF Create, linkVars
    <3>5. \A n, m \in DOMAIN files' : files'[n] = files'[m] => n = m
      BY <2>3, <3>1, <3>2 DEF SymbolicLinks
    <3>6. \A n \in DOMAIN files' : n <= name'
      BY <1>1, <2>3, <3>1, <3>4 DEF SymbolicLinks, HistoryTypeOK
    <3>7. \A n \in DOMAIN files' : n # name' => data'[files'[n]] < run'
      BY <2>3, <3>1, <3>3, <3>4 DEF SymbolicLinks
    <3>8. \A n, m \in DOMAIN files' :
            n < m /\ data'[files'[m]] # Partial => data'[files'[n]] <= data'[files'[m]]
      <4> SUFFICES ASSUME NEW n \in DOMAIN files', NEW m \in DOMAIN files', n < m, data'[files'[m]] # Partial
                   PROVE  data'[files'[n]] <= data'[files'[m]]
        OBVIOUS
      <4>1. m # name
        BY <2>2, <2>3
      <4>2. n # name
        <5>1. m <= name /\ m \in Nat /\ name \in Nat /\ n \in Nat
          BY <1>1, <1>2, <2>3, <3>1, <4>1 DEF SymbolicLinks, HistoryTypeOK
        <5>2. QED
          BY <5>1, <4>1
      <4>3. QED
        BY <2>3, <3>1, <3>3, <4>1, <4>2 DEF SymbolicLinks
    <3>9. QED
      BY <3>1, <3>4, <3>5, <3>6, <3>7, <3>8 DEF SymbolicLinks
  <2>9. QED
    BY <1>4, <1>5, <2>6, <2>7, <2>8 DEF HistoryInv
<1>6. CASE ~log
  <2>1. PICK i \in 1..(given + 1) : Open(tmp, i) /\ tmp' = Put(tmp, name, i) /\ UNCHANGED files
    BY <1>6 DEF Create
  <2>2. /\ given' \in Nat /\ given <= given' /\ i \in 1..given'
        /\ data' \in [1..given' -> 0..MaxRuns] /\ data'[i] = Partial
        /\ \A j \in 1..given' : j # i => j \in 1..given /\ data'[j] = data[j]
        /\ \/ name \in DOMAIN tmp /\ i = tmp[name]
           \/ name \notin DOMAIN tmp /\ i \notin 1..given
    <3>1. Range(tmp) \subseteq 1..given
      BY <1>1 DEF HistoryTypeOK
    <3>2. QED
      BY <1>1, <2>1, <3>1, OpenedFile
  <2>3. /\ DOMAIN tmp' = DOMAIN tmp \cup {name} /\ tmp'[name] = i
        /\ \A n \in DOMAIN tmp : n # name => tmp'[n] = tmp[n]
    BY <2>1 DEF Put
  <2>4. \A n \in DOMAIN tmp' : tmp'[n] \in 1..given' /\ n \in 1..MaxTime
    BY <1>1, <1>3, <2>2, <2>3 DEF HistoryTypeOK
  <2>5. \A n \in DOMAIN files' : files'[n] \in 1..given'
    BY <1>1, <1>2, <2>1, <2>2 DEF HistoryTypeOK
  <2>6. HistoryTypeOK'
    <3>1. Range(files)' \cup Range(tmp)' \subseteq 1..given'
      BY <2>4, <2>5 DEF Range
    <3>2. DOMAIN tmp' \subseteq 1..MaxTime
      BY <2>4
    <3>3. Links' \subseteq 1..given'
      BY <1>1, <1>6, <2>2 DEF Create, linkVars, Links, HistoryTypeOK
    <3>4. QED
      BY <1>1, <1>6, <2>1, <2>2, <3>1, <3>2, <3>3 DEF Create, linkVars, HistoryTypeOK
  <2>7. RunSteps'
    BY <1>1, <1>6, <2>2, <2>3 DEF Create, RunSteps, HistoryTypeOK, Partial
  <2>8. HardLinks'
    <3>1. HardLinks /\ Links \subseteq 1..given
      BY <1>1, <1>6 DEF HistoryInv, HistoryTypeOK
    <3>2. \A n \in DOMAIN tmp : n # name => tmp[n] # i
      BY <1>3, <2>2, <3>1 DEF HardLinks
    <3>3. i \notin Links /\ \A n \in DOMAIN files : files[n] # i
      BY <1>2, <2>2, <3>1 DEF HardLinks
    <3>4. \A l \in Links : data'[l] = data[l]
      BY <1>1, <2>2, <3>1, <3>3 DEF HistoryTypeOK
    <3>5. hpc = "create" /\ hpc' = "fill" /\ UNCHANGED <<name, run, latest, second>> /\ Links' = Links
      BY DEF Create, linkVars, Links
    <3>6. \A n, m \in DOMAIN tmp' : tmp'[n] = tmp'[m] => n = m
      BY <2>3, <3>1, <3>2 DEF HardLinks
    <3>7. \A n \in DOMAIN tmp' : tmp'[n] \notin Links' /\ \A m \in DOMAIN files' : tmp'[n] # files'[m]
      BY <2>1, <2>3, <3>1, <3>3, <3>5 DEF HardLinks
    <3>8. \A l \in Links' : data'[l] # Partial /\ data'[l] < run'
      BY <3>1, <3>4, <3>5 DEF HardLinks, Busy
    <3>9. latest' # None /\ second' # None => data'[second'] <= data'[latest']
      BY <3>1, <3>4, <3>5 DEF HardLinks, Links
    <3>10. QED
      BY <3>5, <3>6, <3>7, <3>8, <3>9 DEF HardLinks
  <2>9. QED
    BY <1>4, <1>6, <2>6, <2>7, <2>8 DEF HistoryInv
<1>7. QED
  BY <1>5, <1>6

LEMMA FillStep ==
  ASSUME HistoryInv, UNCHANGED log, Fill
  PROVE  HistoryInv'
<1> USE HistoryAssumption
<1>1. HistoryTypeOK /\ RunSteps /\ OneLeft
  BY DEF HistoryInv
<1>2. \A n \in DOMAIN files : files[n] \in 1..given /\ n \in 1..MaxTime
  BY <1>1 DEF HistoryTypeOK, Range
<1>3. \A n \in DOMAIN tmp : tmp[n] \in 1..given /\ n \in 1..MaxTime
  BY <1>1 DEF HistoryTypeOK, Range
<1>4. OneLeft'
  BY <1>1 DEF Fill, linkVars, OneLeft, Links
<1> DEFINE i == IF log THEN files[name] ELSE tmp[name]
<1>5. i \in 1..given /\ name \in DOMAIN (IF log THEN files ELSE tmp)
  BY <1>1, <1>2, <1>3 DEF Fill, RunSteps
<1>6. /\ data' \in [1..given -> 0..MaxRuns] /\ data'[i] = run
      /\ \A j \in 1..given : j # i => data'[j] = data[j]
  BY <1>1, <1>5 DEF Fill, HistoryTypeOK
<1>7. HistoryTypeOK'
  <2>1. UNCHANGED <<log, clock, files, tmp, latest, second, run, name, given, once>>
    BY DEF Fill, linkVars
  <2>2. hpc' \in {"look", "rename"} /\ Links' = Links
    BY DEF Fill, linkVars, Links
  <2>3. QED
    BY <1>1, <1>6, <2>1, <2>2 DEF HistoryTypeOK
<1>8. RunSteps'
  <2>1. UNCHANGED <<log, clock, files, tmp, latest, second, run, name, given, once>>
    BY DEF Fill, linkVars
  <2>2. hpc = "fill" /\ hpc' = IF log THEN "look" ELSE "rename"
    BY DEF Fill
  <2>3. \A j \in 1..given : data'[j] <= run
    <3>1. run <= run /\ \A j \in 1..given : data[j] <= run
      BY <1>1 DEF RunSteps, HistoryTypeOK
    <3>2. QED
      BY <1>6, <3>1
  <2>4. QED
    BY <1>1, <1>5, <1>6, <2>1, <2>2, <2>3 DEF RunSteps
<1>9. CASE log
  <2>1. SymbolicLinks
    BY <1>9 DEF HistoryInv
  <2>2. UNCHANGED <<files, latest, second, run, name>> /\ hpc = "fill" /\ hpc' = "look"
    BY <1>9 DEF Fill, linkVars
  <2>3. \A n \in DOMAIN files : n # name => data'[files[n]] = data[files[n]]
    BY <1>2, <1>5, <1>6, <1>9, <2>1 DEF SymbolicLinks
  <2>4. data'[files[name]] = run /\ name \in DOMAIN files
    BY <1>5, <1>6, <1>9
  <2>5. \A n, m \in DOMAIN files :
          n < m /\ data'[files[m]] # Partial => data'[files[n]] <= data'[files[m]]
    <3> SUFFICES ASSUME NEW n \in DOMAIN files, NEW m \in DOMAIN files, n < m, data'[files[m]] # Partial
                 PROVE  data'[files[n]] <= data'[files[m]]
      OBVIOUS
    <3>1. n \in Nat /\ m \in Nat /\ name \in Nat /\ m <= name /\ n <= name
      BY <1>1, <1>2, <2>1 DEF SymbolicLinks, HistoryTypeOK
    <3>2. n # name
      BY <3>1
    <3>3. data[files[n]] <= run /\ data'[files[n]] = data[files[n]]
      BY <1>1, <1>2, <2>3, <3>2 DEF RunSteps
    <3>4. QED
      BY <2>1, <2>3, <2>4, <3>3 DEF SymbolicLinks
  <2>6. \A n \in DOMAIN files : n # name => data'[files[n]] < run
    BY <2>1, <2>3 DEF SymbolicLinks
  <2>7. SymbolicLinks'
    BY <2>1, <2>2, <2>5, <2>6 DEF SymbolicLinks
  <2>8. QED
    BY <1>4, <1>7, <1>8, <1>9, <2>7 DEF HistoryInv, Fill
<1>10. CASE ~log
  <2>1. HardLinks /\ Links \subseteq 1..given
    BY <1>1, <1>10 DEF HistoryInv, HistoryTypeOK
  <2>2. UNCHANGED <<files, tmp, latest, second, run, name>> /\ hpc = "fill" /\ hpc' = "rename" /\ Links' = Links
    BY <1>10 DEF Fill, linkVars, Links
  <2>3. \A l \in Links : data'[l] = data[l]
    BY <1>5, <1>6, <1>10, <2>1 DEF HardLinks
  <2>4. \A l \in Links : data'[l] # Partial /\ data'[l] < run
    BY <2>1, <2>2, <2>3 DEF HardLinks, Busy
  <2>5. latest # None /\ second # None => data'[second] <= data'[latest]
    BY <2>1, <2>3 DEF HardLinks, Links
  <2>6. HardLinks'
    BY <2>1, <2>2, <2>4, <2>5 DEF HardLinks
  <2>7. QED
    BY <1>4, <1>7, <1>8, <1>10, <2>6 DEF HistoryInv, Fill
<1>11. QED
  BY <1>9, <1>10

LEMMA RenameStep ==
  ASSUME HistoryInv, UNCHANGED log, Rename
  PROVE  HistoryInv'
<1> USE HistoryAssumption
<1>1. HistoryTypeOK /\ RunSteps /\ OneLeft /\ ~log /\ HardLinks
  BY DEF HistoryInv, Rename, RunSteps
<1>2. \A n \in DOMAIN files : files[n] \in 1..given /\ n \in 1..MaxTime
  BY <1>1 DEF HistoryTypeOK, Range
<1>3. \A n \in DOMAIN tmp : tmp[n] \in 1..given /\ n \in 1..MaxTime
  BY <1>1 DEF HistoryTypeOK, Range
<1>4. UNCHANGED <<log, clock, data, latest, second, run, name, given, once>> /\ Links' = Links
  BY DEF Rename, linkVars, Links
<1>5. hpc = "rename" /\ hpc' = "look" /\ name \in DOMAIN tmp /\ data[tmp[name]] = run
  BY <1>1 DEF Rename, RunSteps
<1>6. /\ DOMAIN files' = DOMAIN files \cup {name} /\ files'[name] = tmp[name]
      /\ \A n \in DOMAIN files : n # name => files'[n] = files[n]
  BY DEF Rename, Put
<1>7. DOMAIN tmp' = DOMAIN tmp \ {name} /\ \A n \in DOMAIN tmp' : tmp'[n] = tmp[n]
  BY DEF Rename, Restrict
<1>8. HistoryTypeOK'
  <2>1. Range(files)' \cup Range(tmp)' \subseteq 1..given
    BY <1>2, <1>3, <1>5, <1>6, <1>7 DEF Range
  <2>2. DOMAIN files' \subseteq 1..MaxTime /\ DOMAIN tmp' \subseteq 1..MaxTime
    BY <1>2, <1>3, <1>5, <1>6, <1>7
  <2>3. QED
    BY <1>1, <1>4, <1>5, <2>1, <2>2 DEF HistoryTypeOK
<1>9. RunSteps'
  BY <1>1, <1>4, <1>5, <1>6 DEF RunSteps
<1>10. OneLeft'
  BY <1>1, <1>4 DEF OneLeft
<1>11. HardLinks'
  <2>1. \A n, m \in DOMAIN tmp' : tmp'[n] = tmp'[m] => n = m
    BY <1>1, <1>7 DEF HardLinks
  <2>2. \A n \in DOMAIN tmp' : tmp'[n] \notin Links'
    BY <1>1, <1>4, <1>7 DEF HardLinks
  <2>3. \A n \in DOMAIN tmp', m \in DOMAIN files' : tmp'[n] # files'[m]
    BY <1>1, <1>5, <1>6, <1>7 DEF HardLinks
  <2>4. QED
    BY <1>1, <1>4, <1>5, <2>1, <2>2, <2>3 DEF HardLinks, Busy
<1>12. QED
  BY <1>1, <1>4, <1>8, <1>9, <1>10, <1>11 DEF HistoryInv

\* The inductive invariant of the update history.
LEMMA HistoryInvariance == HistorySpec => []HistoryInv
<1>1. HistoryInv /\ [HistoryNext]_historyVars => HistoryInv'
  <2>1. CASE UNCHANGED historyVars
    BY <2>1 DEF historyVars, HistoryInv, HistoryTypeOK, RunSteps, OneLeft, SymbolicLinks, HardLinks,
                Links, Busy, Target
  <2>2. QED
    BY <2>1, QuietSteps, LinkSteps, CreateStep, FillStep, RenameStep DEF HistoryNext, AllDone
<1>2. QED
  BY <1>1, InitHistoryInv, PTL DEF HistorySpec

\* WriteUpdateHistorySnapshot and WriteUpdateHistoryLog, killed or failing at any step, any
\* number of times, in any number of seconds: once one has ended a record is left under a link,
\* "second-latest" is never the newer one, and no link of the snapshots leads to half a file.
THEOREM LinksAreKept == HistorySpec => []HistoryKept
<1>1. HistoryInv => HistoryKept
  <2> SUFFICES ASSUME HistoryInv PROVE HistoryKept
    OBVIOUS
  <2>1. HistoryTypeOK /\ RunSteps /\ OneLeft
    BY DEF HistoryInv
  <2>2. \A n \in DOMAIN files : files[n] \in 1..given /\ n \in 1..MaxTime
    BY <2>1 DEF HistoryTypeOK, Range
  <2>3. CASE log
    <3>1. SymbolicLinks /\ Links \subseteq DOMAIN files
      BY <2>1, <2>3 DEF HistoryInv, HistoryTypeOK
    <3>2. latest # None => latest \in DOMAIN files
      BY <3>1 DEF Links
    <3>3. second # None => second \in DOMAIN files
      BY <3>1 DEF Links
    <3>4. \A n \in DOMAIN files : Content(n) = data[files[n]] /\ data[files[n]] \in Nat
      BY <2>1, <2>2, <2>3 DEF Content, HistoryTypeOK
    <3>5. hpc = "ended" => latest = name /\ latest # None /\ Content(latest) = run
      BY <2>1, <2>3, <3>4 DEF RunSteps, Target, HistoryTypeOK, None
    <3>6. hpc = "ended" /\ second \notin {None, latest} => Content(second) < run
      BY <3>1, <3>3, <3>4, <3>5 DEF SymbolicLinks
    <3>7. latest # None /\ second # None /\ Content(latest) # Partial => Content(second) <= Content(latest)
      <4> SUFFICES ASSUME latest # None, second # None, Content(latest) # Partial
                   PROVE  Content(second) <= Content(latest)
        OBVIOUS
      <4>1. second \in Nat /\ latest \in Nat /\ second <= latest
        BY <2>2, <3>1, <3>2, <3>3 DEF SymbolicLinks
      <4>2. CASE second = latest
        BY <3>2, <3>4, <4>2
      <4>3. CASE second < latest
        BY <3>1, <3>2, <3>3, <3>4, <4>3 DEF SymbolicLinks
      <4>4. QED
        BY <4>1, <4>2, <4>3
    <3>8. QED
      BY <2>1, <2>3, <3>5, <3>6, <3>7 DEF HistoryKept, InOrder
  <2>4. CASE ~log
    <3>1. HardLinks /\ Links \subseteq 1..given
      BY <2>1, <2>4 DEF HistoryInv, HistoryTypeOK
    <3>2. \A l : Content(l) = data[l]
      BY <2>4 DEF Content
    <3>3. hpc = "ended" => latest # None /\ Content(latest) = run
      BY <2>1, <2>2, <2>4, <3>2 DEF RunSteps, Target, None
    <3>4. QED
      BY <2>1, <3>1, <3>2, <3>3 DEF HistoryKept, InOrder, LatestWhole, HardLinks
  <2>5. QED
    BY <2>3, <2>4
<1>2. QED
  BY <1>1, HistoryInvariance, PTL

-----------------------------------------------------------------------------
(* The settings of a root. *)

\* What a file of settings may say so that commands start with it.
Sound(c) ==
  /\ c \in Recorded
  /\ c.lockfile = "" \/ IsBool(c.lockfile)
  /\ (c.user = "") = (c.analytics # "yes")

\* The flags that have passed the checks.
Checked(f) == (f.lockfile # "" => IsBool(f.lockfile)) /\ (f.analytics # "" => IsBool(f.analytics))

SettingsInv ==
  /\ config \in {NoFile, Torn} \/ Sound(config)
  /\ flags \in InitFlags
  /\ spc \in {"idle", "set", "write", "done"}
  /\ spc # "idle" => Sound(kept)
  /\ spc \in {"write", "done"} => Checked(flags)
  /\ spc = "done" => config = Set(kept, flags)

\* The flags applied to sound settings make sound settings.
LEMMA SetIsSound ==
  ASSUME NEW c, NEW f \in InitFlags, Sound(c), Checked(f)
  PROVE  Sound(Set(c, f))
<1> DEFINE s == Set(c, f)
<1>1. f \in Given
  BY SettingsAssumption
<1>2. s \in Recorded
  <2>1. c \in Recorded
    BY DEF Sound
  <2>2. s.cache \in Word /\ s.lockfile \in Word /\ s.threads \in Int
    BY <1>1, <2>1 DEF Set, Recorded, Given, Word
  <2>3. s.partial \in BOOLEAN /\ s.offload \in BOOLEAN
    BY <1>1, <2>1 DEF Set, Recorded, Given, Word
  <2>4. s.analytics \in Word /\ s.user \in Word
    BY <1>1, <2>1 DEF Set, Recorded, Given, Word
  <2>5. QED
    BY <2>2, <2>3, <2>4 DEF Set, Recorded, Given, Word
<1>3. s.lockfile = "" \/ IsBool(s.lockfile)
  BY DEF Set, Sound, Checked
<1>4. CASE f.analytics \in Trues \cup Falses
  BY <1>2, <1>3, <1>4 DEF Set, Sound, Trues, Falses
<1>5. CASE f.analytics = ""
  BY <1>2, <1>3, <1>5 DEF Set, Sound, Trues, Falses
<1>6. QED
  BY <1>4, <1>5 DEF Checked, IsBool

LEMMA NoConfigIsSound == Sound(NoConfig)
<1>1. NoConfig \in Recorded
  BY DEF NoConfig, Recorded, Word
<1>2. NoConfig.lockfile = "" /\ NoConfig.user = "" /\ NoConfig.analytics # "yes"
  BY DEF NoConfig
<1>3. QED
  BY <1>1, <1>2 DEF Sound

LEMMA InitSettingsInv == SettingsInit => SettingsInv
  BY DEF SettingsInit, SettingsInv

LEMMA SettingsStep == SettingsInv /\ [SettingsNext]_settingVars => SettingsInv'
<1> SUFFICES ASSUME SettingsInv, [SettingsNext]_settingVars PROVE SettingsInv'
  OBVIOUS
<1>1. ASSUME NEW f \in InitFlags, StartInit(f) PROVE SettingsInv'
  BY <1>1, NoConfigIsSound DEF StartInit, SettingsInv
<1>2. CASE Cut
  BY <1>2 DEF Cut, SettingsInv, Accepted, Checked
<1>3. CASE Refuse
  BY <1>3 DEF Refuse, SettingsInv
<1>4. CASE WriteConfig
  BY <1>4, SetIsSound DEF WriteConfig, SettingsInv
<1>5. CASE Leave \/ KillInit
  BY <1>5 DEF Leave, KillInit, SettingsInv
<1>6. ASSUME NEW d \in caches, RemoveCache(d) PROVE SettingsInv'
  BY <1>6 DEF RemoveCache, SettingsInv
<1>7. CASE RemoveConfig
  BY <1>7 DEF RemoveConfig, SettingsInv
<1>8. CASE UNCHANGED settingVars
  BY <1>8 DEF settingVars, SettingsInv
<1>9. QED
  BY <1>1, <1>2, <1>3, <1>4, <1>5, <1>6, <1>7, <1>8 DEF SettingsNext

\* What jiri init accepts commands start with, whatever flags are given in whatever order of
\* runs, kills and removals of the file; init keeps what it is given no flag for.
THEOREM SettingsAreKept == SettingsSpec => []SettingsKept
<1>1. SettingsInv => SettingsKept
  <2> SUFFICES ASSUME SettingsInv PROVE SettingsKept
    OBVIOUS
  <2>1. ASSUME Sound(config), config \notin {NoFile, Torn}, config.cache # "" => config.cache \in caches
        PROVE  NewX = {[config EXCEPT !.lockfile = IF config.lockfile \in Falses THEN "false" ELSE "true"]}
    BY <2>1 DEF NewX, Sound
  <2>2. StartsAfterInit
    BY <2>1 DEF StartsAfterInit, SettingsInv
  <2>3. ASSUME spc = "done", NewX # {}
        PROVE  LET x == CHOOSE c \in NewX : TRUE
               IN /\ x.cache = IF flags.cache = "" THEN kept.cache ELSE flags.cache
                  /\ x.partial = (flags.partial \/ kept.partial)
                  /\ flags.lockfile = "" => (x.lockfile = "false" <=> kept.lockfile \in Falses)
                  /\ flags.analytics = "" => x.analytics = kept.analytics
                  /\ (x.user = "") = (x.analytics # "yes")
    <3> DEFINE x == CHOOSE c \in NewX : TRUE
    <3>1. config = Set(kept, flags) /\ Sound(config)
      BY <2>3, SetIsSound DEF SettingsInv
    <3>2. config \notin {NoFile, Torn}
      BY <3>1, SettingsAssumption DEF Sound, Recorded
    <3>3. NewX = {[config EXCEPT !.lockfile = IF config.lockfile \in Falses THEN "false" ELSE "true"]}
      BY <2>3, <3>2 DEF NewX
    <3>4. x = [config EXCEPT !.lockfile = IF config.lockfile \in Falses THEN "false" ELSE "true"]
      BY <3>3
    <3> HIDE DEF x
    <3>5. /\ x.cache = config.cache /\ x.partial = config.partial /\ x.analytics = config.analytics
          /\ x.user = config.user /\ x.lockfile = IF config.lockfile \in Falses THEN "false" ELSE "true"
      BY <3>1, <3>4 DEF Sound, Recorded
    <3>6. x.cache = IF flags.cache = "" THEN kept.cache ELSE flags.cache
      BY <3>1, <3>5 DEF Set
    <3>7. x.partial = (flags.partial \/ kept.partial)
      BY <3>1, <3>5 DEF Set
    <3>8. ASSUME flags.lockfile = "" PROVE x.lockfile = "false" <=> kept.lockfile \in Falses
      <4>1. config.lockfile = kept.lockfile
        BY <3>1, <3>8 DEF Set
      <4>2. x.lockfile = "false" <=> config.lockfile \in Falses
        BY <3>5
      <4> QED BY <4>1, <4>2
    <3>9. ASSUME flags.analytics = "" PROVE x.analytics = kept.analytics
      BY <3>1, <3>5, <3>9 DEF Set, Trues, Falses
    <3>10. (x.user = "") = (x.analytics # "yes")
      BY <3>1, <3>5 DEF Sound
    <3>11. QED
      BY <3>6, <3>7, <3>8, <3>9, <3>10 DEF x
  <2>4. QED
    BY <2>2, <2>3 DEF SettingsKept, InitKeeps
<1>2. QED
  BY <1>1, InitSettingsInv, SettingsStep, PTL DEF SettingsSpec

-----------------------------------------------------------------------------
(* The commands that edit .jiri_manifest (ManifestCmd). *)

\* The entries that delete leaves: they are those at the places kept, each once.
LEMMA AtPlaces ==
  ASSUME NEW T, NEW s \in Seq(T), NEW K \in SUBSET (1..Len(s))
  PROVE  /\ At(s, K) \in Seq(T)
         /\ \E f \in [1..Len(At(s, K)) -> K] :
              /\ \A j, k \in 1..Len(At(s, K)) : f[j] = f[k] => j = k
              /\ \A k \in 1..Len(At(s, K)) : At(s, K)[k] = s[f[k]]
<1> DEFINE n == Cardinality(K)
           Upto(i) == {j \in K : j <= i}
           g == [i \in K |-> Cardinality(Upto(i))]
           Nth(k) == CHOOSE i \in K : Cardinality(Upto(i)) = k
<1>1. IsFiniteSet(K) /\ n \in Nat
  <2>1. IsFiniteSet(1..Len(s))
    BY FS_Interval
  <2> QED BY <2>1, FS_Subset, FS_CardinalityType
<1>2. \A i \in K : IsFiniteSet(Upto(i)) /\ g[i] \in 1..n
  <2> SUFFICES ASSUME NEW i \in K PROVE IsFiniteSet(Upto(i)) /\ Cardinality(Upto(i)) \in 1..n
    OBVIOUS
  <2>1. Upto(i) \in SUBSET K
    OBVIOUS
  <2>2. IsFiniteSet(Upto(i)) /\ Cardinality(Upto(i)) <= n /\ Cardinality(Upto(i)) \in Nat
    BY <2>1, <1>1, FS_Subset, FS_CardinalityType
  <2>3. i \in Upto(i)
    OBVIOUS
  <2>4. Cardinality(Upto(i)) # 0
    BY <2>2, <2>3, FS_EmptySet
  <2> QED BY <2>2, <2>4, <1>1
<1>3. \A i, j \in K : g[i] = g[j] => i = j
  <2>1. ASSUME NEW i \in K, NEW j \in K, i < j, g[i] = g[j] PROVE FALSE
    <3>1. Upto(i) \in SUBSET Upto(j)
      <4>1. i \in Int /\ j \in Int /\ \A k \in K : k \in Int
        OBVIOUS
      <4> HIDE DEF g
      <4>2. \A k \in K : k <= i => k <= j
        BY <2>1, <4>1
      <4> QED BY <4>2
    <3>2. Upto(i) = Upto(j)
      BY <3>1, <1>2, <2>1, FS_Subset
    <3>3. j \in Upto(j) /\ j \notin Upto(i)
      BY <2>1
    <3> QED BY <3>2, <3>3
  <2>2. \A i, j \in K : i < j \/ j < i \/ i = j
    OBVIOUS
  <2> HIDE DEF g
  <2> QED BY <2>1, <2>2
<1>4. g \in Surjection(K, 1..n)
  <2>1. g \in Injection(K, 1..n)
    BY <1>2, <1>3 DEF Injection, IsInjective
  <2>2. IsFiniteSet(1..n) /\ Cardinality(1..n) = n
    BY <1>1, FS_Interval
  <2> QED BY <1>1, <2>1, <2>2, FS_Injection
<1>5. \A k \in 1..n : \E i \in K : Cardinality(Upto(i)) = k
  BY <1>4 DEF Surjection
<1>6. \A k \in 1..n : Nth(k) \in K /\ Cardinality(Upto(Nth(k))) = k
  BY <1>5
<1>7. At(s, K) = [k \in 1..n |-> s[Nth(k)]]
  BY DEF At
<1> HIDE DEF Nth
<1>8. \A j, k \in 1..n : Nth(j) = Nth(k) => j = k
  BY <1>6
<1> HIDE DEF n
<1>9. At(s, K) \in Seq(T) /\ Len(At(s, K)) = n
  <2>1. \A i \in 1..Len(s) : s[i] \in T
    OBVIOUS
  <2>2. \A k \in 1..n : Nth(k) \in 1..Len(s)
    BY <1>6
  <2>3. \A k \in 1..n : s[Nth(k)] \in T
    BY <2>1, <2>2
  <2> HIDE DEF Upto
  <2> QED BY <1>1, <1>7, <2>3
<1>10. [k \in 1..n |-> Nth(k)] \in [1..n -> K]
  BY <1>6
<1>11. \A k \in 1..n : At(s, K)[k] = s[Nth(k)]
  BY <1>7
<1> DEFINE f == [k \in 1..n |-> Nth(k)]
<1>12. f \in [1..n -> K] /\ \A k \in 1..n : f[k] = Nth(k)
  BY <1>10
<1> HIDE DEF f
<1> QED BY <1>8, <1>9, <1>11, <1>12

\* Without the last place nothing but the last entry is gone.
LEMMA WithoutLast ==
  ASSUME NEW T, NEW s \in Seq(T), NEW e \in T, NEW K, K = {Len(s) + 1}
  PROVE  Without(Append(s, e), K) = s
<1> DEFINE n == Len(s)
           Upto(i) == {j \in 1..n : j <= i}
<1>1. (DOMAIN Append(s, e)) \ K = 1..n /\ n \in Nat
  OBVIOUS
<1>2. \A i \in Nat : Cardinality(1..i) = i
  <2> SUFFICES ASSUME NEW i \in Nat PROVE Cardinality(1..i) = i
    OBVIOUS
  <2>1. Cardinality(1..i) = IF 1 > i THEN 0 ELSE i - 1 + 1
    BY FS_Interval
  <2> QED BY <2>1
<1>3. \A i \in 1..n : Cardinality(Upto(i)) = i
  <2>1. ASSUME NEW i \in 1..n PROVE Upto(i) = 1..i /\ i \in Nat
    BY <1>1
  <2> QED BY <2>1, <1>2
<1>4. \A k \in 1..n : (CHOOSE i \in 1..n : Cardinality(Upto(i)) = k) = k
  BY <1>3
<1>5. At(Append(s, e), 1..n) = [k \in 1..n |-> Append(s, e)[CHOOSE i \in 1..n : Cardinality(Upto(i)) = k]]
  BY <1>1, <1>2 DEF At
<1>6. At(Append(s, e), 1..n) = [k \in 1..n |-> Append(s, e)[k]]
  BY <1>4, <1>5
<1>7. [k \in 1..n |-> Append(s, e)[k]] = s
  <2> HIDE DEF Upto
  <2> QED OBVIOUS
<1> QED BY <1>1, <1>6, <1>7 DEF Without

\* No default is written, and no project has two overrides.
NoDefaults(m) ==
  /\ \A i \in DOMAIN m.imports : m.imports[i].revision # "HEAD"
  /\ \A i \in DOMAIN m.projects : m.projects[i].revision # "HEAD"
  /\ \A i \in DOMAIN m.others : m.others[i].revision # "HEAD"
KeyOf(e) == <<e.name, e.remote>>
Differ(s) == \A i, j \in DOMAIN s : KeyOf(s[i]) = KeyOf(s[j]) => i = j
OneOverride(m) ==
  /\ Differ(m.projects) /\ Differ(m.others)
  /\ \A i \in DOMAIN m.projects, j \in DOMAIN m.others : KeyOf(m.projects[i]) # KeyOf(m.others[j])
WellFormed == {m \in ManifestFiles : NoDefaults(m) /\ OneOverride(m)}

LEMMA DefaultKeeps ==
  ASSUME NEW e \in Entries, NEW a \in Strings, NEW b \in Strings
  PROVE  /\ Default(e, a, b) \in Entries
         /\ Default(e, a, b).manifest = e.manifest /\ Default(e, a, b).name = e.name
         /\ Default(e, a, b).remote = e.remote
         /\ Default(e, a, b).revision = IF e.revision = a THEN b ELSE e.revision
  BY DEF Default, Entries

\* One list of a manifest.
DefaultList(s, a, b) == [i \in DOMAIN s |-> Default(s[i], a, b)]

LEMMA DefaultListKeeps ==
  ASSUME NEW s \in Seq(Entries), NEW a \in Strings, NEW b \in Strings
  PROVE  /\ DefaultList(s, a, b) \in Seq(Entries)
         /\ Len(DefaultList(s, a, b)) = Len(s)
         /\ DOMAIN DefaultList(s, a, b) = DOMAIN s
         /\ \A i \in DOMAIN s : /\ DefaultList(s, a, b)[i] = Default(s[i], a, b)
                                /\ s[i] \in Entries
                                /\ KeyOf(DefaultList(s, a, b)[i]) = KeyOf(s[i])
<1>1. \A i \in DOMAIN s : s[i] \in Entries
  OBVIOUS
<1>2. \A i \in DOMAIN s : Default(s[i], a, b) \in Entries /\ KeyOf(Default(s[i], a, b)) = KeyOf(s[i])
  BY <1>1, DefaultKeeps DEF KeyOf
<1>3. DefaultList(s, a, b) \in Seq(Entries) /\ Len(DefaultList(s, a, b)) = Len(s)
  BY <1>2 DEF DefaultList
<1> QED BY <1>1, <1>2, <1>3 DEF DefaultList

\* What is added at the end gets the default as the others do.
LEMMA DefaultAppend ==
  ASSUME NEW s \in Seq(Entries), NEW e \in Entries, NEW a \in Strings, NEW b \in Strings
  PROVE  DefaultList(Append(s, e), a, b) = Append(DefaultList(s, a, b), Default(e, a, b))
<1>1. DefaultList(s, a, b) \in Seq(Entries) /\ Default(e, a, b) \in Entries /\ Len(DefaultList(s, a, b)) = Len(s)
  BY DefaultListKeeps, DefaultKeeps
<1>2. \A i \in 1..Len(s) : DefaultList(s, a, b)[i] = Default(s[i], a, b)
  BY DefaultListKeeps
<1>3. \A i \in 1..Len(s)+1 :
        Default(Append(s, e)[i], a, b) = Append(DefaultList(s, a, b), Default(e, a, b))[i]
  BY <1>1, <1>2
<1>4. Append(DefaultList(s, a, b), Default(e, a, b))
        = [i \in 1..Len(s)+1 |-> Append(DefaultList(s, a, b), Default(e, a, b))[i]]
  <2>1. ASSUME NEW t \in Seq(Entries), NEW d \in Entries, Len(t) = Len(s)
        PROVE  Append(t, d) = [i \in 1..Len(s)+1 |-> Append(t, d)[i]]
    <3>1. Append(t, d) \in Seq(Entries) /\ Len(Append(t, d)) = Len(s) + 1
      BY <2>1
    <3>2. ASSUME NEW u \in Seq(Entries) PROVE u = [i \in 1..Len(u) |-> u[i]]
      OBVIOUS
    <3> QED BY <3>1, <3>2
  <2> QED BY <1>1, <2>1
<1>5. DOMAIN Append(s, e) = 1..Len(s)+1
  OBVIOUS
<1>6. DefaultList(Append(s, e), a, b) = [i \in 1..Len(s)+1 |-> Default(Append(s, e)[i], a, b)]
  BY <1>5 DEF DefaultList
<1> QED BY <1>3, <1>4, <1>6

\* The default that is left out is filled in again, and the other way round.
LEMMA DefaultBack ==
  ASSUME NEW s \in Seq(Entries), NEW a \in Strings, NEW b \in Strings,
         \A i \in DOMAIN s : s[i].revision # b
  PROVE  DefaultList(DefaultList(s, a, b), b, a) = s
<1>1. ASSUME NEW e \in Entries, e.revision # b PROVE Default(Default(e, a, b), b, a) = e
  BY <1>1 DEF Default, Entries
<1>2. \A i \in DOMAIN s : Default(DefaultList(s, a, b)[i], b, a) = s[i]
  BY <1>1, DefaultListKeeps
<1>3. DOMAIN DefaultList(s, a, b) = DOMAIN s
  BY DefaultListKeeps
<1>4. s = [i \in DOMAIN s |-> s[i]]
  OBVIOUS
<1>5. DefaultList(DefaultList(s, a, b), b, a) = [i \in DOMAIN s |-> Default(DefaultList(s, a, b)[i], b, a)]
  BY <1>3 DEF DefaultList
<1> QED BY <1>2, <1>4, <1>5

LEMMA TwoStrings == Unset \in Strings /\ "HEAD" \in Strings /\ Unset # "HEAD"
  BY DEF Strings, Unset

LEMMA DefaultLists ==
  ASSUME NEW m, NEW a, NEW b
  PROVE  Defaults(m, a, b) = [imports |-> DefaultList(m.imports, a, b),
                              projects |-> DefaultList(m.projects, a, b),
                              others |-> DefaultList(m.others, a, b)]
  BY DEF Defaults, DefaultList

LEMMA DefaultsKeep ==
  ASSUME NEW m \in ManifestFiles, NEW a \in Strings, NEW b \in Strings
  PROVE  Defaults(m, a, b) \in ManifestFiles /\ (OneOverride(m) => OneOverride(Defaults(m, a, b)))
<1>1. m.imports \in Seq(Entries) /\ m.projects \in Seq(Entries) /\ m.others \in Seq(Entries)
  BY DEF ManifestFiles
<1>2. Defaults(m, a, b) \in ManifestFiles
  BY <1>1, DefaultLists, DefaultListKeeps DEF ManifestFiles
<1>3. ASSUME NEW s \in Seq(Entries), Differ(s) PROVE Differ(DefaultList(s, a, b))
  BY <1>3, DefaultListKeeps DEF Differ
<1>4. ASSUME NEW s \in Seq(Entries), NEW t \in Seq(Entries),
             \A i \in DOMAIN s, j \in DOMAIN t : KeyOf(s[i]) # KeyOf(t[j])
      PROVE  \A i \in DOMAIN DefaultList(s, a, b), j \in DOMAIN DefaultList(t, a, b) :
               KeyOf(DefaultList(s, a, b)[i]) # KeyOf(DefaultList(t, a, b)[j])
  BY <1>4, DefaultListKeeps
<1>5. /\ Defaults(m, a, b).projects = DefaultList(m.projects, a, b)
      /\ Defaults(m, a, b).others = DefaultList(m.others, a, b)
  BY DefaultLists
<1> QED BY <1>1, <1>2, <1>3, <1>4, <1>5 DEF OneOverride

LEMMA UnfilledIsWellFormed ==
  ASSUME NEW m \in ManifestFiles, OneOverride(m) PROVE Unfilled(m) \in WellFormed
<1>1. Unfilled(m) \in ManifestFiles /\ OneOverride(Unfilled(m))
  BY DefaultsKeep, TwoStrings DEF Unfilled
<1>2. ASSUME NEW s \in Seq(Entries), NEW i \in DOMAIN DefaultList(s, "HEAD", Unset)
      PROVE  DefaultList(s, "HEAD", Unset)[i].revision # "HEAD"
  <2>1. i \in DOMAIN s /\ s[i] \in Entries /\ DefaultList(s, "HEAD", Unset)[i] = Default(s[i], "HEAD", Unset)
    BY TwoStrings, DefaultListKeeps
  <2>2. Default(s[i], "HEAD", Unset).revision = IF s[i].revision = "HEAD" THEN Unset ELSE s[i].revision
    BY <2>1, TwoStrings, DefaultKeeps
  <2> QED BY <2>1, <2>2, TwoStrings
<1>3. NoDefaults(Unfilled(m))
  <2>1. m.imports \in Seq(Entries) /\ m.projects \in Seq(Entries) /\ m.others \in Seq(Entries)
    BY DEF ManifestFiles
  <2> QED BY <1>2, <2>1, DefaultLists DEF Unfilled, NoDefaults
<1> QED BY <1>1, <1>3 DEF WellFormed

LEMMA FilledBack ==
  ASSUME NEW m \in WellFormed PROVE Unfilled(Filled(m)) = m
<1>1. m \in ManifestFiles /\ NoDefaults(m)
  BY DEF WellFormed
<1>2. m.imports \in Seq(Entries) /\ m.projects \in Seq(Entries) /\ m.others \in Seq(Entries)
  BY <1>1 DEF ManifestFiles
<1>3. m = [imports |-> m.imports, projects |-> m.projects, others |-> m.others]
  BY <1>1 DEF ManifestFiles
<1>4. ASSUME NEW s \in Seq(Entries), \A i \in DOMAIN s : s[i].revision # "HEAD"
      PROVE  DefaultList(DefaultList(s, Unset, "HEAD"), "HEAD", Unset) = s
  BY <1>4, DefaultBack, TwoStrings
<1>5. /\ DefaultList(DefaultList(m.imports, Unset, "HEAD"), "HEAD", Unset) = m.imports
      /\ DefaultList(DefaultList(m.projects, Unset, "HEAD"), "HEAD", Unset) = m.projects
      /\ DefaultList(DefaultList(m.others, Unset, "HEAD"), "HEAD", Unset) = m.others
  BY <1>1, <1>2, <1>4 DEF NoDefaults
<1>6. Filled(m) = [imports |-> DefaultList(m.imports, Unset, "HEAD"),
                   projects |-> DefaultList(m.projects, Unset, "HEAD"),
                   others |-> DefaultList(m.others, Unset, "HEAD")]
  BY DefaultLists DEF Filled
<1> QED BY <1>3, <1>5, <1>6, DefaultLists DEF Unfilled

\* Deleting keeps the entries apart.
LEMMA WithoutKeeps ==
  ASSUME NEW s \in Seq(Entries), NEW K
  PROVE  /\ Without(s, K) \in Seq(Entries)
         /\ \A k \in DOMAIN Without(s, K) : \E i \in DOMAIN s : Without(s, K)[k] = s[i]
         /\ Differ(s) => Differ(Without(s, K))
<1> DEFINE P == (DOMAIN s) \ K
           t == At(s, P)
<1>1. P \in SUBSET (1..Len(s)) /\ DOMAIN s = 1..Len(s) /\ Without(s, K) = t
  BY DEF Without
<1> HIDE DEF P
<1>2. t \in Seq(Entries)
  BY <1>1, AtPlaces
<1>3. PICK f \in [1..Len(t) -> P] : /\ \A j, k \in 1..Len(t) : f[j] = f[k] => j = k
                                    /\ \A k \in 1..Len(t) : t[k] = s[f[k]]
  BY <1>1, AtPlaces
<1> HIDE DEF t
<1>4. DOMAIN t = 1..Len(t)
  BY <1>2
<1>5. \A k \in DOMAIN t : f[k] \in DOMAIN s /\ t[k] = s[f[k]]
  BY <1>1, <1>3, <1>4
<1>6. ASSUME Differ(s) PROVE Differ(t)
  <2> SUFFICES ASSUME NEW i \in DOMAIN t, NEW j \in DOMAIN t, KeyOf(t[i]) = KeyOf(t[j]) PROVE i = j
    BY DEF Differ
  <2>1. f[i] = f[j]
    BY <1>5, <1>6 DEF Differ
  <2> QED BY <2>1, <1>3, <1>4
<1> QED BY <1>1, <1>2, <1>5, <1>6

LEMMA EntryType == \A c \in Commands : Entry(c) \in Entries /\ KeyOf(Entry(c)) = <<c.name, c.remote>>
  BY ManifestAssumption DEF Entry, Entries, KeyOf

\* A command makes a manifest of a manifest, with one override of a project as before.
LEMMA ResultKeeps ==
  ASSUME NEW c \in Commands, NEW f \in {Missing} \cup WellFormed, NEW m \in Result(c, f)
  PROVE  m \in ManifestFiles /\ OneOverride(m)
<1>1. Empty \in ManifestFiles /\ OneOverride(Empty)
  BY DEF Empty, ManifestFiles, OneOverride, Differ
<1>2. f # Missing => Filled(f) \in ManifestFiles /\ OneOverride(Filled(f))
  BY DefaultsKeep, TwoStrings DEF Filled, WellFormed
<1>3. Entry(c) \in Entries
  BY EntryType
<1>4. ASSUME NEW g \in ManifestFiles, OneOverride(g), m \in ImportTo(c, g)
      PROVE  m \in ManifestFiles /\ OneOverride(m)
  <2>1. g.imports \in Seq(Entries)
    BY DEF ManifestFiles
  <2>2. ASSUME NEW s \in Seq(Entries), m = [g EXCEPT !.imports = s]
        PROVE  m \in ManifestFiles /\ OneOverride(m)
    BY <2>2, <1>4 DEF ManifestFiles, OneOverride
  <2>3. Without(g.imports, ImportHits(c, g.imports)) \in Seq(Entries) /\ Append(g.imports, Entry(c)) \in Seq(Entries)
    BY <2>1, <1>3, WithoutKeeps
  <2>4. \/ m = [g EXCEPT !.imports = Without(g.imports, ImportHits(c, g.imports))]
        \/ m = [g EXCEPT !.imports = Append(g.imports, Entry(c))]
    BY <1>4 DEF ImportTo
  <2> QED BY <2>2, <2>3, <2>4
<1>5. ASSUME NEW g \in ManifestFiles, OneOverride(g), m \in OverrideTo(c, g)
      PROVE  m \in ManifestFiles /\ OneOverride(m)
  <2> DEFINE s == ListOf(c, g)
  <2>1. g.projects \in Seq(Entries) /\ g.others \in Seq(Entries) /\ s \in Seq(Entries)
    BY DEF ManifestFiles, ListOf
  <2>2. CASE m = g
    BY <2>2, <1>5
  <2>3. CASE m = WithList(c, g, Without(s, OverrideHits(c, s)))
    <3> DEFINE t == Without(s, OverrideHits(c, s))
    <3>1. /\ t \in Seq(Entries) /\ (Differ(s) => Differ(t))
          /\ \A k \in DOMAIN t : \E i \in DOMAIN s : t[k] = s[i]
      BY <2>1, WithoutKeeps
    <3> HIDE DEF t
    <3>2. CASE c.manifest = Unset
      <4>1. s = g.projects /\ m = [g EXCEPT !.projects = t]
        BY <3>2, <2>3 DEF ListOf, WithList, t
      <4>2. m \in ManifestFiles /\ m.projects = t /\ m.others = g.others
        BY <3>1, <4>1 DEF ManifestFiles
      <4> QED BY <3>1, <4>1, <4>2, <1>5 DEF OneOverride
    <3>3. CASE c.manifest # Unset
      <4>1. s = g.others /\ m = [g EXCEPT !.others = t]
        BY <3>3, <2>3 DEF ListOf, WithList, t
      <4>2. m \in ManifestFiles /\ m.others = t /\ m.projects = g.projects
        BY <3>1, <4>1 DEF ManifestFiles
      <4> QED BY <3>1, <4>1, <4>2, <1>5 DEF OneOverride
    <3> QED BY <3>2, <3>3
  <2>4. CASE m = WithList(c, g, Append(s, Entry(c))) /\ <<c.name, c.remote>> \notin OverrideKeys(g)
    <3> DEFINE t == Append(s, Entry(c))
    <3>1. /\ t \in Seq(Entries) /\ DOMAIN t = 1..Len(s)+1 /\ DOMAIN s = 1..Len(s) /\ Len(s) \in Nat
          /\ t[Len(s)+1] = Entry(c) /\ \A i \in DOMAIN s : t[i] = s[i]
      BY <2>1, <1>3
    <3>2. /\ \A i \in DOMAIN g.projects : KeyOf(g.projects[i]) # KeyOf(Entry(c))
          /\ \A i \in DOMAIN g.others : KeyOf(g.others[i]) # KeyOf(Entry(c))
      BY <2>4, EntryType DEF OverrideKeys, KeyOf, Range
    <3> HIDE DEF t
    <3>3. ASSUME Differ(s), \A i \in DOMAIN s : KeyOf(s[i]) # KeyOf(Entry(c)) PROVE Differ(t)
      <4>1. \A i \in DOMAIN t : i \in DOMAIN s \/ i = Len(s) + 1
        BY <3>1
      <4> QED BY <3>1, <3>3, <4>1 DEF Differ
    <3>4. \A i \in DOMAIN t : t[i] = Entry(c) \/ \E j \in DOMAIN s : t[i] = s[j]
      <4>1. \A i \in DOMAIN t : i \in DOMAIN s \/ i = Len(s) + 1
        BY <3>1
      <4> QED BY <3>1, <4>1
    <3>5. CASE c.manifest = Unset
      <4>1. s = g.projects /\ m = [g EXCEPT !.projects = t]
        BY <3>5, <2>4 DEF ListOf, WithList, t
      <4>2. m \in ManifestFiles /\ m.projects = t /\ m.others = g.others
        BY <3>1, <4>1 DEF ManifestFiles
      <4> QED BY <3>2, <3>3, <3>4, <4>1, <4>2, <1>5 DEF OneOverride
    <3>6. CASE c.manifest # Unset
      <4>1. s = g.others /\ m = [g EXCEPT !.others = t]
        BY <3>6, <2>4 DEF ListOf, WithList, t
      <4>2. m \in ManifestFiles /\ m.others = t /\ m.projects = g.projects
        BY <3>1, <4>1 DEF ManifestFiles
      <4> QED BY <3>2, <3>3, <3>4, <4>1, <4>2, <1>5 DEF OneOverride
    <3> QED BY <3>5, <3>6
  <2> QED BY <1>5, <2>2, <2>3, <2>4 DEF OverrideTo
<1> QED BY <1>1, <1>2, <1>4, <1>5 DEF Result

\* What a command has added to the manifest f was filled in, and then left out: Before is f
\* as it was filled in.
Before(f) == IF f = Missing THEN Empty ELSE Filled(f)

LEMMA BeforeType ==
  ASSUME NEW f \in {Missing} \cup WellFormed
  PROVE  /\ Before(f) \in ManifestFiles /\ OneOverride(Before(f))
         /\ Unfilled(Before(f)) = Same(f) /\ Filled(Unfilled(Before(f))) = Before(f)
<1>1. CASE f = Missing
  <2>1. Empty \in ManifestFiles /\ OneOverride(Empty)
    BY DEF Empty, ManifestFiles, OneOverride, Differ
  <2>2. \A a, b : DefaultList(<<>>, a, b) = <<>>
    BY DEF DefaultList
  <2>3. \A a, b : Defaults(Empty, a, b) = Empty
    BY <2>2, DefaultLists DEF Empty
  <2> QED BY <1>1, <2>1, <2>3 DEF Before, Same, Unfilled, Filled
<1>2. CASE f # Missing
  <2>1. f \in WellFormed /\ f \in ManifestFiles /\ OneOverride(f)
    BY <1>2 DEF WellFormed
  <2>2. Filled(f) \in ManifestFiles /\ OneOverride(Filled(f))
    BY <2>1, DefaultsKeep, TwoStrings DEF Filled
  <2>3. Unfilled(Filled(f)) = f
    BY <2>1, FilledBack
  <2> QED BY <1>2, <2>2, <2>3 DEF Before, Same
<1> QED BY <1>1, <1>2

\* An entry added is there with the default, and at the end, when the file is read again.
ReadAgain(e) == Default(Default(e, "HEAD", Unset), Unset, "HEAD")

LEMMA ReadAgainType ==
  ASSUME NEW e \in Entries
  PROVE  /\ ReadAgain(e) \in Entries /\ ReadAgain(e).manifest = e.manifest
         /\ ReadAgain(e).name = e.name /\ ReadAgain(e).remote = e.remote
<1>1. Default(e, "HEAD", Unset) \in Entries
  BY TwoStrings, DefaultKeeps
<1> QED BY <1>1, TwoStrings, DefaultKeeps DEF ReadAgain

LEMMA ListReadAgain ==
  ASSUME NEW s \in Seq(Entries), NEW e \in Entries,
         DefaultList(DefaultList(s, "HEAD", Unset), Unset, "HEAD") = s
  PROVE  DefaultList(DefaultList(Append(s, e), "HEAD", Unset), Unset, "HEAD") = Append(s, ReadAgain(e))
<1>1. DefaultList(s, "HEAD", Unset) \in Seq(Entries) /\ Default(e, "HEAD", Unset) \in Entries
  BY TwoStrings, DefaultListKeeps, DefaultKeeps
<1>2. DefaultList(Append(s, e), "HEAD", Unset) = Append(DefaultList(s, "HEAD", Unset), Default(e, "HEAD", Unset))
  BY TwoStrings, DefaultAppend
<1>3. ASSUME NEW t \in Seq(Entries), NEW d \in Entries
      PROVE  DefaultList(Append(t, d), Unset, "HEAD") = Append(DefaultList(t, Unset, "HEAD"), Default(d, Unset, "HEAD"))
  BY TwoStrings, DefaultAppend
<1>4. DefaultList(DefaultList(Append(s, e), "HEAD", Unset), Unset, "HEAD")
        = Append(DefaultList(DefaultList(s, "HEAD", Unset), Unset, "HEAD"),
                 Default(Default(e, "HEAD", Unset), Unset, "HEAD"))
  BY <1>1, <1>2, <1>3
<1> QED BY <1>4 DEF ReadAgain

\* A manifest with one list changed.
LEMMA OneChanged ==
  ASSUME NEW m \in ManifestFiles, NEW s
  PROVE  /\ [m EXCEPT !.imports = s] = [imports |-> s, projects |-> m.projects, others |-> m.others]
         /\ [m EXCEPT !.projects = s] = [imports |-> m.imports, projects |-> s, others |-> m.others]
         /\ [m EXCEPT !.others = s] = [imports |-> m.imports, projects |-> m.projects, others |-> s]
  BY DEF ManifestFiles

\* Where d has added an entry to g, and c deletes what it is about, g is left.
LEMMA DeleteUndoesAdd ==
  ASSUME NEW c \in Commands, NEW d \in Commands, Undoes(c, d),
         NEW f \in {Missing} \cup WellFormed, NEW a \in Result(d, f), Unfilled(a) # Same(f),
         NEW b \in Result(c, Unfilled(a))
  PROVE  Unfilled(b) = Same(f)
<1> DEFINE g == Before(f)
           h == Filled(Unfilled(a))
           e == Entry(d)
           x == ReadAgain(e)
<1>1. g \in ManifestFiles /\ Unfilled(g) = Same(f) /\ Filled(Unfilled(g)) = g
  BY BeforeType
<1>2. /\ e \in Entries /\ x \in Entries
      /\ x.manifest = d.manifest /\ x.name = d.name /\ x.remote = d.remote
  BY EntryType, ReadAgainType DEF Entry
<1>3. c.name = d.name /\ c.remote = d.remote /\ c.manifest = d.manifest /\ ~d.overwrite /\ ~c.overwrite
  BY ManifestAssumption DEF Undoes
<1>4. Unfilled(a) # Missing /\ a \in ManifestFiles
  <2>1. a \in ManifestFiles /\ OneOverride(a)
    BY ResultKeeps
  <2> QED BY <2>1, UnfilledIsWellFormed, ManifestAssumption DEF WellFormed
<1>5. /\ g.imports \in Seq(Entries) /\ g.projects \in Seq(Entries) /\ g.others \in Seq(Entries)
      /\ g = [imports |-> g.imports, projects |-> g.projects, others |-> g.others]
  BY <1>1 DEF ManifestFiles
<1>6. \A m : Filled(Unfilled(m)) =
        [imports |-> DefaultList(DefaultList(m.imports, "HEAD", Unset), Unset, "HEAD"),
         projects |-> DefaultList(DefaultList(m.projects, "HEAD", Unset), Unset, "HEAD"),
         others |-> DefaultList(DefaultList(m.others, "HEAD", Unset), Unset, "HEAD")]
  BY DefaultLists DEF Filled, Unfilled
<1>7. /\ DefaultList(DefaultList(g.imports, "HEAD", Unset), Unset, "HEAD") = g.imports
      /\ DefaultList(DefaultList(g.projects, "HEAD", Unset), Unset, "HEAD") = g.projects
      /\ DefaultList(DefaultList(g.others, "HEAD", Unset), Unset, "HEAD") = g.others
  BY <1>1, <1>6
<1> HIDE DEF g, h, e, x
<1>8. ASSUME NEW s \in Seq(Entries), NEW K \in SUBSET (DOMAIN Append(s, x)),
             Len(s) + 1 \in K, \A i \in DOMAIN s : i \notin K
      PROVE  Without(Append(s, x), K) = s
  <2>1. DOMAIN Append(s, x) = 1..Len(s)+1 /\ DOMAIN s = 1..Len(s) /\ Len(s) \in Nat
    BY <1>2
  <2>2. K = {Len(s) + 1}
    BY <1>8, <2>1
  <2> QED BY <1>2, <2>2, WithoutLast
<1>9. CASE d.op = "import" /\ c.op = "import -delete"
  <2> DEFINE s == g.imports
  <2>1. a \in ImportTo(d, g)
    BY <1>3, <1>9 DEF Result, IsImport, g, Before
  <2>2. ImportHits(d, s) = {} /\ a = [g EXCEPT !.imports = Append(s, e)]
    BY <1>9, <2>1 DEF ImportTo, e
  <2>3. a = [imports |-> Append(s, e), projects |-> g.projects, others |-> g.others]
    BY <1>5, <2>2
  <2>4. h = [imports |-> Append(s, x), projects |-> g.projects, others |-> g.others]
    <3>1. DefaultList(DefaultList(Append(s, e), "HEAD", Unset), Unset, "HEAD") = Append(s, x)
      BY <1>2, <1>5, <1>7, ListReadAgain DEF x
    <3>2. a.imports = Append(s, e) /\ a.projects = g.projects /\ a.others = g.others
      BY <2>3
    <3> QED BY <1>6, <1>7, <3>1, <3>2 DEF h
  <2>5. b \in ImportTo(c, h)
    BY <1>3, <1>4, <1>9 DEF Result, IsImport, h
  <2>6. b = [h EXCEPT !.imports = Without(Append(s, x), ImportHits(c, Append(s, x)))]
    BY <1>9, <2>4, <2>5 DEF ImportTo
  <2>7. Len(s) + 1 \in ImportHits(c, Append(s, x)) /\ \A i \in DOMAIN s : i \notin ImportHits(c, Append(s, x))
    <3>1. /\ DOMAIN Append(s, x) = 1..Len(s)+1 /\ DOMAIN s = 1..Len(s) /\ Len(s) \in Nat
          /\ Append(s, x)[Len(s)+1] = x /\ \A i \in DOMAIN s : Append(s, x)[i] = s[i]
      BY <1>2, <1>5
    <3> HIDE DEF s
    <3>2. \A i \in DOMAIN s : i \notin ImportHits(c, Append(s, x))
      BY <1>3, <2>2, <3>1 DEF ImportHits, RemoteFits
    <3>3. Len(s)+1 \in DOMAIN Append(s, x)
      BY <3>1
    <3> QED BY <1>2, <1>3, <3>1, <3>2, <3>3 DEF ImportHits, RemoteFits
  <2>8. Without(Append(s, x), ImportHits(c, Append(s, x))) = s
    <3>1. ImportHits(c, Append(s, x)) \in SUBSET (DOMAIN Append(s, x))
      BY DEF ImportHits
    <3> QED BY <1>5, <1>8, <2>7, <3>1
  <2>9. b = g
    BY <1>5, <2>4, <2>6, <2>8
  <2> QED BY <1>1, <2>9 DEF g
<1>10. CASE d.op = "override" /\ c.op = "override -delete"
  <2> DEFINE s == ListOf(d, g)
  <2>1. f # Missing /\ a \in OverrideTo(d, g)
    BY <1>10 DEF Result, IsImport, g, Before
  <2>2. a # g
    BY <1>1 DEF g
  <2>3. a = WithList(d, g, Append(s, e)) /\ <<d.name, d.remote>> \notin OverrideKeys(g)
    BY <1>10, <2>1, <2>2 DEF OverrideTo, e
  <2>4. s \in Seq(Entries)
    BY <1>5 DEF ListOf
  <2>5. ListOf(c, h) = Append(s, x) /\ h = WithList(d, g, Append(s, x))
    <3>1. CASE d.manifest = Unset
      <4>1. a = [imports |-> g.imports, projects |-> Append(g.projects, e), others |-> g.others]
        BY <1>5, <2>3, <3>1 DEF WithList, ListOf
      <4>2. h = [imports |-> g.imports, projects |-> Append(g.projects, x), others |-> g.others]
        <5>1. DefaultList(DefaultList(Append(g.projects, e), "HEAD", Unset), Unset, "HEAD") = Append(g.projects, x)
          BY <1>2, <1>5, <1>7, ListReadAgain DEF x
        <5>2. a.projects = Append(g.projects, e) /\ a.imports = g.imports /\ a.others = g.others
          BY <4>1
        <5> QED BY <1>6, <1>7, <5>1, <5>2 DEF h
      <4>3. h = [g EXCEPT !.projects = Append(g.projects, x)]
        BY <1>1, <4>2, OneChanged DEF g
      <4> QED BY <1>3, <3>1, <4>2, <4>3 DEF WithList, ListOf
    <3>2. CASE d.manifest # Unset
      <4>1. a = [imports |-> g.imports, projects |-> g.projects, others |-> Append(g.others, e)]
        BY <1>5, <2>3, <3>2 DEF WithList, ListOf
      <4>2. h = [imports |-> g.imports, projects |-> g.projects, others |-> Append(g.others, x)]
        <5>1. DefaultList(DefaultList(Append(g.others, e), "HEAD", Unset), Unset, "HEAD") = Append(g.others, x)
          BY <1>2, <1>5, <1>7, ListReadAgain DEF x
        <5>2. a.others = Append(g.others, e) /\ a.imports = g.imports /\ a.projects = g.projects
          BY <4>1
        <5> QED BY <1>6, <1>7, <5>1, <5>2 DEF h
      <4>3. h = [g EXCEPT !.others = Append(g.others, x)]
        BY <1>1, <4>2, OneChanged DEF g
      <4> QED BY <1>3, <3>2, <4>2, <4>3 DEF WithList, ListOf
    <3> QED BY <3>1, <3>2
  <2>6. b \in OverrideTo(c, h)
    BY <1>4, <1>10 DEF Result, IsImport, h
  <2> DEFINE t == Append(s, x)
             K == OverrideHits(c, t)
  <2>7. (\A i, j \in K : i = j) /\ b = WithList(c, h, Without(t, K))
    BY <1>10, <2>5, <2>6 DEF OverrideTo
  <2>8. /\ DOMAIN t = 1..Len(s)+1 /\ DOMAIN s = 1..Len(s) /\ Len(s) \in Nat /\ t[Len(s)+1] = x
    BY <1>2, <2>4
  <2>9. Len(s) + 1 \in K
    <3>1. Len(s)+1 \in DOMAIN t
      BY <2>8
    <3> HIDE DEF t, s
    <3> QED BY <1>2, <1>3, <2>8, <3>1 DEF OverrideHits, RemoteFits
  <2>10. Without(t, K) = s
    <3>1. K \in SUBSET (DOMAIN t)
      BY DEF OverrideHits
    <3>2. \A i \in DOMAIN s : i # Len(s) + 1
      BY <2>8
    <3>3. \A i \in DOMAIN s : i \notin K
      BY <2>7, <2>9, <3>2
    <3> HIDE DEF K
    <3> QED BY <1>8, <2>4, <2>9, <3>1, <3>3
  <2>11. b = g
    <3> HIDE DEF t, K
    <3>1. b = WithList(c, h, s)
      BY <2>7, <2>10
    <3>2. CASE d.manifest = Unset
      BY <1>3, <1>5, <2>5, <3>1, <3>2 DEF WithList, ListOf
    <3>3. CASE d.manifest # Unset
      BY <1>3, <1>5, <2>5, <3>1, <3>3 DEF WithList, ListOf
    <3> QED BY <3>2, <3>3
  <2> QED BY <1>1, <2>11 DEF g
<1> QED BY <1>9, <1>10 DEF Undoes

\* The manifest is what the last command that wrote made of what it found, and a command that
\* is about to write has made what it writes of the manifest.
Made(c, f, m) == \E a \in Result(c, f) : m = Unfilled(a)
ManifestInv ==
  /\ manifest \in {Missing} \cup WellFormed
  /\ command \in Commands /\ mpc \in {"idle", "create", "fill", "rename"}
  /\ mpc # "idle" => Made(command, manifest, wanted)
  /\ mpc = "rename" => tmpFile = wanted
  /\ past # <<>> =>
       /\ past = <<past[1], past[2]>> /\ past[1] \in Commands /\ past[2] \in {Missing} \cup WellFormed
       /\ Made(past[1], past[2], manifest)

LEMMA ManifestInitially == ManifestInit => ManifestInv
<1>1. Empty \in WellFormed
  BY DEF Empty, WellFormed, ManifestFiles, NoDefaults, OneOverride, Differ
<1> QED BY <1>1 DEF ManifestInit, ManifestInv

LEMMA MadeIsWellFormed ==
  ASSUME NEW c \in Commands, NEW f \in {Missing} \cup WellFormed, NEW m, Made(c, f, m)
  PROVE  m \in WellFormed
  BY ResultKeeps, UnfilledIsWellFormed DEF Made

LEMMA ManifestStep == ManifestInv /\ [ManifestNext]_manifestVars => ManifestInv'
<1> SUFFICES ASSUME ManifestInv, [ManifestNext]_manifestVars PROVE ManifestInv'
  OBVIOUS
<1>1. ASSUME NEW c \in Commands, Read(c) PROVE ManifestInv'
  BY <1>1 DEF Read, ManifestInv, Made
<1>2. CASE CreateTmp /\ UNCHANGED past /\ UNCHANGED <<wanted, command, cmds>>
  BY <1>2 DEF CreateTmp, ManifestInv
<1>3. CASE mpc = "fill" /\ tmpFile' = wanted /\ mpc' = "rename" /\ UNCHANGED <<manifest, past>>
           /\ UNCHANGED <<wanted, command, cmds>>
  BY <1>3 DEF ManifestInv
<1>4. CASE /\ mpc = "rename" /\ manifest' = tmpFile /\ tmpFile' = Missing /\ mpc' = "idle"
           /\ past' = <<command, manifest>> /\ UNCHANGED <<wanted, command, cmds>>
  <2>1. Made(command, manifest, manifest') /\ manifest' \in WellFormed
    BY <1>4, MadeIsWellFormed DEF ManifestInv
  <2>2. past'[1] = command /\ past'[2] = manifest /\ past' = <<past'[1], past'[2]>>
    BY <1>4
  <2> QED BY <1>4, <2>1, <2>2 DEF ManifestInv
<1>5. CASE StopCmd
  BY <1>5 DEF StopCmd, ManifestInv
<1>6. CASE UNCHANGED manifestVars
  BY <1>6 DEF manifestVars, ManifestInv
<1> QED BY <1>1, <1>2, <1>3, <1>4, <1>5, <1>6 DEF ManifestNext, WriteStep

\* An element of two sequences, one after the other, is that of the first or that of the second.
LEMMA OneAfterTheOther ==
  ASSUME NEW T, NEW s \in Seq(T), NEW t \in Seq(T)
  PROVE  /\ Len(s \o t) \in Nat /\ DOMAIN (s \o t) = 1..Len(s \o t)
         /\ \A i \in 1..Len(s \o t) :
              \/ i \in DOMAIN s /\ (s \o t)[i] = s[i]
              \/ i - Len(s) \in DOMAIN t /\ (s \o t)[i] = t[i - Len(s)]
<1>1. s \o t \in Seq(T) /\ Len(s \o t) = Len(s) + Len(t) /\ Len(s) \in Nat /\ Len(t) \in Nat
  OBVIOUS
<1>2. DOMAIN s = 1..Len(s) /\ DOMAIN t = 1..Len(t)
  OBVIOUS
<1>3. \A i \in 1..(Len(s) + Len(t)) : (s \o t)[i] = IF i <= Len(s) THEN s[i] ELSE t[i - Len(s)]
  OBVIOUS
<1>4. ASSUME NEW i \in 1..(Len(s) + Len(t)), ~(i <= Len(s)) PROVE i - Len(s) \in 1..Len(t)
  BY <1>1, <1>4
<1>5. ASSUME NEW i \in 1..(Len(s) + Len(t)), i <= Len(s) PROVE i \in 1..Len(s)
  BY <1>1, <1>5
<1>6. Len(s \o t) \in Nat /\ DOMAIN (s \o t) = 1..Len(s \o t)
  BY <1>1
<1>7. ASSUME NEW i \in 1..Len(s \o t)
      PROVE  \/ i \in DOMAIN s /\ (s \o t)[i] = s[i]
             \/ i - Len(s) \in DOMAIN t /\ (s \o t)[i] = t[i - Len(s)]
  <2>1. i \in 1..(Len(s) + Len(t))
    BY <1>1
  <2>2. CASE i <= Len(s)
    BY <2>1, <2>2, <1>2, <1>3, <1>5
  <2>3. CASE ~(i <= Len(s))
    BY <2>1, <2>3, <1>2, <1>3, <1>4
  <2> QED BY <2>2, <2>3
<1> QED BY <1>6, <1>7

\* The keys of the overrides are as many as the overrides.
LEMMA KeysCounted ==
  ASSUME NEW m \in WellFormed
  PROVE  LET e == m.projects \o m.others
         IN Cardinality({<<e[i].name, e[i].remote>> : i \in DOMAIN e}) = Len(e)
<1> DEFINE s == m.projects
           t == m.others
           e == s \o t
           n == Len(e)
           keys == {<<e[i].name, e[i].remote>> : i \in DOMAIN e}
           g == [i \in 1..n |-> KeyOf(e[i])]
<1>1. s \in Seq(Entries) /\ t \in Seq(Entries) /\ OneOverride(m)
  BY DEF WellFormed, ManifestFiles
<1>2. /\ n \in Nat /\ DOMAIN e = 1..n
      /\ \A i \in 1..n : \/ i \in DOMAIN s /\ e[i] = s[i]
                         \/ i - Len(s) \in DOMAIN t /\ e[i] = t[i - Len(s)]
  <2> HIDE DEF s, t
  <2> QED BY <1>1, OneAfterTheOther
<1>3. \A i, j \in 1..n : KeyOf(e[i]) = KeyOf(e[j]) => i = j
  <2> SUFFICES ASSUME NEW i \in 1..n, NEW j \in 1..n, KeyOf(e[i]) = KeyOf(e[j]) PROVE i = j
    OBVIOUS
  <2>1. Differ(s) /\ Differ(t) /\ \A k \in DOMAIN s, l \in DOMAIN t : KeyOf(s[k]) # KeyOf(t[l])
    BY <1>1 DEF OneOverride
  <2>2. Len(s) \in Int /\ i \in Int /\ j \in Int
    BY <1>1
  <2> HIDE DEF s, t, e, n
  <2>3. CASE i \in DOMAIN s /\ e[i] = s[i] /\ j \in DOMAIN s /\ e[j] = s[j]
    BY <2>1, <2>3 DEF Differ
  <2>4. CASE i - Len(s) \in DOMAIN t /\ e[i] = t[i - Len(s)] /\ j - Len(s) \in DOMAIN t /\ e[j] = t[j - Len(s)]
    <3>1. i - Len(s) = j - Len(s)
      BY <2>1, <2>4 DEF Differ
    <3> QED BY <2>2, <3>1
  <2> QED BY <1>2, <2>1, <2>3, <2>4
<1> HIDE DEF e, n
<1>4. keys = {KeyOf(e[i]) : i \in 1..n}
  BY <1>2 DEF KeyOf
<1>5. g \in Bijection(1..n, keys)
  <2>1. g \in [1..n -> keys] /\ \A k \in keys : \E i \in 1..n : g[i] = k
    BY <1>4
  <2>2. \A i, j \in 1..n : g[i] = g[j] => i = j
    BY <1>3
  <2> HIDE DEF g, keys
  <2> QED BY <2>1, <2>2 DEF Bijection, Injection, Surjection, IsInjective
<1>6. IsFiniteSet(1..n) /\ Cardinality(1..n) = n
  <2>1. IsFiniteSet(1..n) /\ Cardinality(1..n) = IF 1 > n THEN 0 ELSE n - 1 + 1
    BY <1>2, FS_Interval
  <2> QED BY <1>2, <2>1
<1>7. Cardinality(keys) = n
  BY <1>5, <1>6, FS_Bijection DEF ExistsBijection
<1> QED BY <1>7 DEF e, n

\* import.go, override.go: whatever commands follow each other, wherever they are killed or fail,
\* .jiri_manifest is whole and no project has two overrides; and a command that deletes what
\* the last one added leaves the manifest that one has found.
THEOREM ManifestIsKept == ManifestSpec => ManifestKept
<1>1. ManifestInv => ManifestWhole
  <2>1. Half \notin WellFormed /\ Half # Missing
    BY ManifestAssumption DEF WellFormed
  <2> QED BY <2>1, KeysCounted DEF ManifestInv, ManifestWhole
<1>2. ManifestInv /\ [ManifestNext]_manifestVars =>
        (past' # past /\ past # <<>> /\ Undoes(past'[1], past[1]) /\ Same(past[2]) # manifest
           => manifest' = Same(past[2]))
  <2> SUFFICES ASSUME ManifestInv, [ManifestNext]_manifestVars, past' # past, past # <<>>,
                      Undoes(past'[1], past[1]), Same(past[2]) # manifest
               PROVE  manifest' = Same(past[2])
    OBVIOUS
  <2>1. mpc = "rename" /\ manifest' = tmpFile /\ past' = <<command, manifest>>
    BY DEF ManifestNext, Read, WriteStep, CreateTmp, StopCmd, manifestVars
  <2>2. past'[1] = command /\ command \in Commands /\ Undoes(command, past[1])
    BY <2>1 DEF ManifestInv
  <2>3. Made(command, manifest, manifest') /\ Made(past[1], past[2], manifest)
    BY <2>1 DEF ManifestInv
  <2>4. past[1] \in Commands /\ past[2] \in {Missing} \cup WellFormed
    BY DEF ManifestInv
  <2> QED BY <2>2, <2>3, <2>4, DeleteUndoesAdd DEF Made
<1> QED BY <1>1, <1>2, ManifestInitially, ManifestStep, PTL DEF ManifestSpec, ManifestKept, DeleteUndoes

-----------------------------------------------------------------------------
(* jiri edit (EditCmd). *)

\* What a set C of changes makes of an element, and of a text t; and when a text is apart.
OneOf(S) == CHOOSE c \in S : TRUE
ChangesOf(C, e) == {c \in C : c.tag = e.tag /\ c.name = e.name /\ c.old = e.rev}
ToldBy(C, m, e) ==
  IF ChangesOf(C, e) = {} \/ (e.tag = "project" /\ m = "lockfile") THEN e.rev
  ELSE OneOf(ChangesOf(C, e)).new
RollsTo(t, r, C, m) == \A i \in DOMAIN t : r[i] = [t[i] EXCEPT !.rev = ToldBy(C, m, t[i])]
ApartIn(t, C) ==
  LET revs == {t[i].rev : i \in DOMAIN t} \ {NoRev}
  IN /\ \A i, j \in DOMAIN t : i # j =>
          /\ t[i].rev # t[j].rev \/ t[i].rev = NoRev
          /\ <<t[i].tag, t[i].name>> # <<t[j].tag, t[j].name>>
     /\ \A c \in C : c.new \notin revs

\* The revision of the element at i.
SetRev(e, new) == [e EXCEPT !.rev = new]
PutRev(r, i, new) == [r EXCEPT ![i].rev = new]

LEMMA PutRevKeeps ==
  ASSUME NEW r \in Seq(Elements), NEW i, NEW new \in Revs
  PROVE  /\ PutRev(r, i, new) \in Seq(Elements) /\ DOMAIN PutRev(r, i, new) = DOMAIN r
         /\ \A j \in DOMAIN r : PutRev(r, i, new)[j] = IF j = i THEN SetRev(r[j], new) ELSE r[j]
<1>1. \A x \in Elements : SetRev(x, new) \in Elements
  BY DEF Elements, SetRev
<1>2. /\ DOMAIN PutRev(r, i, new) = 1..Len(r) /\ Len(r) \in Nat /\ DOMAIN r = 1..Len(r)
      /\ \A j \in 1..Len(r) : PutRev(r, i, new)[j] = IF j = i THEN SetRev(r[j], new) ELSE r[j]
      /\ PutRev(r, i, new) = [j \in 1..Len(r) |-> PutRev(r, i, new)[j]]
  BY DEF PutRev, SetRev
<1>3. \A j \in 1..Len(r) : PutRev(r, i, new)[j] \in Elements
  BY <1>1, <1>2
<1>4. PutRev(r, i, new) \in Seq(Elements)
  BY <1>2, <1>3
<1> QED BY <1>2, <1>4

LEMMA LeastIs ==
  ASSUME NEW I \in SUBSET Nat, NEW i \in I, \A j \in I : i <= j
  PROVE  I # {} /\ Min(I) = i
<1> DEFINE P(x) == \A y \in I : x <= y
<1>1. \A x \in I : P(x) => x = i
  OBVIOUS
<1>2. P(i)
  OBVIOUS
<1>3. Min(I) = CHOOSE x \in I : P(x)
  BY DEF Min
<1> HIDE DEF P
<1> QED BY <1>1, <1>2, <1>3

\* The text around an element that nothing else looks like: the edit finds it.
LEMMA OnlyPlace ==
  ASSUME NEW t \in Seq(Elements), NEW e \in Elements, NEW i \in DOMAIN t, t[i] = e,
         \A j \in DOMAIN t : j # i =>
            /\ t[j].rev # e.rev \/ e.rev = NoRev
            /\ t[j].tag # e.tag \/ t[j].name # e.name
  PROVE  Place(t, e) = i /\ i # 0
<1> DEFINE named == {j \in 1..Len(t) : t[j].tag = e.tag /\ t[j].name = e.name}
           same == {j \in 1..Len(t) : t[j].rev = e.rev}
           next == {j \in i..Len(t) : t[j].rev = e.rev}
<1>1. Len(t) \in Nat /\ DOMAIN t = 1..Len(t) /\ i \in 1..Len(t) /\ i \in Nat /\ i # 0
  OBVIOUS
<1>2. named \in SUBSET Nat /\ i \in named /\ \A j \in named : i <= j
  BY <1>1
<1>3. next \in SUBSET Nat /\ i \in next /\ \A j \in next : i <= j
  BY <1>1
<1>4. ASSUME e.rev # NoRev
      PROVE  same \in SUBSET Nat /\ i \in same /\ \A j \in same : i <= j
  BY <1>1, <1>4
<1>5. named # {} /\ Min(named) = i /\ next # {} /\ Min(next) = i
  BY <1>2, <1>3, LeastIs
<1>6. ASSUME e.rev # NoRev PROVE same # {} /\ Min(same) = i
  BY <1>4, <1>6, LeastIs
<1>7. Place(t, e) =
        CASE e.tag = "package" -> IF (IF named # {} THEN Min(named) ELSE 0) = 0 THEN 0
                                  ELSE LET J == {j \in (IF named # {} THEN Min(named) ELSE 0)..Len(t) : t[j].rev = e.rev}
                                       IN IF J # {} THEN Min(J) ELSE 0
          [] e.tag # "package" /\ e.rev = NoRev -> IF named # {} THEN Min(named) ELSE 0
          [] OTHER -> IF same # {} THEN Min(same) ELSE 0
  BY DEF Place, SelectInSeq, SelectInSubSeq
<1> HIDE DEF named, same
<1>8. Place(t, e) =
        CASE e.tag = "package" -> IF next # {} THEN Min(next) ELSE 0
          [] e.tag # "package" /\ e.rev = NoRev -> i
          [] OTHER -> IF same # {} THEN Min(same) ELSE 0
  BY <1>1, <1>5, <1>7
<1> HIDE DEF next
<1> QED BY <1>1, <1>5, <1>6, <1>8

\* The edit of one element of a text that is apart, when none of the changes so far is of it.
LEMMA RollOne ==
  ASSUME NEW t \in Seq(Elements), NEW r \in Seq(Elements), DOMAIN r = DOMAIN t, NEW C, NEW m,
         NEW i \in DOMAIN t, NEW new \in Revs, NEW c,
         c = [tag |-> t[i].tag, name |-> t[i].name, old |-> t[i].rev, new |-> new],
         \A d \in C : \E j \in DOMAIN t : j # i /\ d.tag = t[j].tag /\ d.name = t[j].name,
         ApartIn(t, C \cup {c}), RollsTo(t, r, C, m)
  PROVE  /\ Place(r, t[i]) = i /\ i # 0
         /\ RollsTo(t, IF t[i].tag = "project" /\ m = "lockfile" THEN r ELSE PutRev(r, i, new),
                    C \cup {c}, m)
<1> DEFINE revs == {t[j].rev : j \in DOMAIN t} \ {NoRev}
<1>1. \A j \in DOMAIN t : t[j] \in Elements /\ t[j] = [tag |-> t[j].tag, name |-> t[j].name, rev |-> t[j].rev]
  <2>1. \A e \in Elements : e = [tag |-> e.tag, name |-> e.name, rev |-> e.rev]
    BY DEF Elements
  <2> QED BY <2>1
<1>2. /\ \A j, k \in DOMAIN t : j # k =>
           /\ t[j].rev # t[k].rev \/ t[j].rev = NoRev
           /\ t[j].tag # t[k].tag \/ t[j].name # t[k].name
      /\ \A d \in C \cup {c} : d.new \notin revs
  BY DEF ApartIn
<1>3. ChangesOf(C, t[i]) = {} /\ ChangesOf(C \cup {c}, t[i]) = {c}
  <2>1. ChangesOf(C, t[i]) = {}
    BY <1>2 DEF ChangesOf
  <2>2. c.tag = t[i].tag /\ c.name = t[i].name /\ c.old = t[i].rev
    OBVIOUS
  <2> QED BY <2>1, <2>2 DEF ChangesOf
<1>4. \A j \in DOMAIN t : j # i => ChangesOf(C \cup {c}, t[j]) = ChangesOf(C, t[j])
  <2>1. c.tag = t[i].tag /\ c.name = t[i].name
    OBVIOUS
  <2> QED BY <1>2, <2>1 DEF ChangesOf
<1>5. /\ ToldBy(C, m, t[i]) = t[i].rev
      /\ ToldBy(C \cup {c}, m, t[i]) = IF t[i].tag = "project" /\ m = "lockfile" THEN t[i].rev ELSE new
  <2>1. OneOf({c}) = c /\ c.new = new
    BY DEF OneOf
  <2> QED BY <1>3, <2>1 DEF ToldBy
<1>6. \A j \in DOMAIN t : j # i => /\ ToldBy(C \cup {c}, m, t[j]) = ToldBy(C, m, t[j])
                                   /\ ToldBy(C, m, t[j]) = t[j].rev \/ ToldBy(C, m, t[j]) \notin revs
  <2> SUFFICES ASSUME NEW j \in DOMAIN t, j # i
               PROVE  /\ ToldBy(C \cup {c}, m, t[j]) = ToldBy(C, m, t[j])
                      /\ ToldBy(C, m, t[j]) = t[j].rev \/ ToldBy(C, m, t[j]) \notin revs
    OBVIOUS
  <2>1. ChangesOf(C \cup {c}, t[j]) = ChangesOf(C, t[j])
    BY <1>4
  <2>2. ToldBy(C \cup {c}, m, t[j]) = ToldBy(C, m, t[j])
    BY <2>1 DEF ToldBy
  <2>3. ChangesOf(C, t[j]) # {} => OneOf(ChangesOf(C, t[j])) \in C
    BY DEF ChangesOf, OneOf
  <2> HIDE DEF revs
  <2> QED BY <1>2, <2>2, <2>3 DEF ToldBy
<1>7. \A j \in DOMAIN t : r[j] = [tag |-> t[j].tag, name |-> t[j].name, rev |-> ToldBy(C, m, t[j])]
  BY <1>1 DEF RollsTo
<1>8. r[i] = t[i]
  BY <1>1, <1>5, <1>7
<1>9. \A j \in DOMAIN r : j # i => /\ r[j].rev # t[i].rev \/ t[i].rev = NoRev
                                   /\ r[j].tag # t[i].tag \/ r[j].name # t[i].name
  <2> SUFFICES ASSUME NEW j \in DOMAIN t, j # i
               PROVE  /\ r[j].rev # t[i].rev \/ t[i].rev = NoRev
                      /\ r[j].tag # t[i].tag \/ r[j].name # t[i].name
    OBVIOUS
  <2>1. r[j].tag = t[j].tag /\ r[j].name = t[j].name /\ r[j].rev = ToldBy(C, m, t[j])
    BY <1>7
  <2>2. t[i].rev = NoRev \/ t[i].rev \in revs
    OBVIOUS
  <2> HIDE DEF revs
  <2> QED BY <1>2, <1>6, <2>1, <2>2
<1>10. Place(r, t[i]) = i /\ i # 0
  BY <1>1, <1>8, <1>9, OnlyPlace
<1>11. CASE t[i].tag = "project" /\ m = "lockfile"
  <2>1. RollsTo(t, r, C \cup {c}, m)
    BY <1>5, <1>6, <1>11 DEF RollsTo
  <2> QED BY <1>10, <1>11, <2>1
<1>12. CASE ~(t[i].tag = "project" /\ m = "lockfile")
  <2> DEFINE s == PutRev(r, i, new)
  <2>1. \A j \in DOMAIN t : s[j] = IF j = i THEN SetRev(r[j], new) ELSE r[j]
    BY PutRevKeeps
  <2> HIDE DEF s
  <2>2. RollsTo(t, s, C \cup {c}, m)
    BY <1>5, <1>6, <1>8, <1>12, <2>1 DEF RollsTo, SetRev
  <2> QED BY <1>10, <1>12, <2>2 DEF s
<1> QED BY <1>11, <1>12

\* The text in memory while its elements are looked at: what has been changed is of elements
\* looked at, and a text that is apart is as the changes say.
MayChange == [tag : {"project", "import", "package"}, name : STRING, old : Revs, new : Revs]
Rolling ==
  /\ oldText \in Seq(Elements) /\ request \subseteq Elements /\ todo \subseteq DOMAIN oldText
  /\ rolled \in Seq(Elements) /\ DOMAIN rolled = DOMAIN oldText
  /\ changes \in Seq(MayChange)
  /\ \A c \in Range(changes) : \E i \in DOMAIN oldText :
       i \notin todo /\ c.tag = oldText[i].tag /\ c.name = oldText[i].name
  /\ ApartIn(oldText, Range(changes)) => RollsTo(oldText, rolled, Range(changes), mode)

LEMMA OneMoreChange ==
  ASSUME NEW T, NEW s \in Seq(T), NEW x \in T
  PROVE  Append(s, x) \in Seq(T) /\ Range(Append(s, x)) = Range(s) \cup {x}
<1>1. /\ Append(s, x) \in Seq(T) /\ DOMAIN Append(s, x) = 1..(Len(s) + 1) /\ DOMAIN s = 1..Len(s)
      /\ Len(s) \in Nat /\ Append(s, x)[Len(s) + 1] = x
      /\ \A i \in 1..Len(s) : Append(s, x)[i] = s[i]
  OBVIOUS
<1>2. \A y \in Range(Append(s, x)) : y \in Range(s) \cup {x}
  BY <1>1 DEF Range
<1>3. \A y \in Range(s) : y \in Range(Append(s, x))
  BY <1>1 DEF Range
<1>4. x \in Range(Append(s, x))
  BY <1>1 DEF Range
<1> QED BY <1>1, <1>2, <1>3, <1>4

LEMMA InitRolling == EditInit => Rolling
<1> SUFFICES ASSUME EditInit PROVE Rolling
  OBVIOUS
<1>1. oldText \in Seq(Elements) /\ request \subseteq Elements /\ rolled = oldText /\ todo = DOMAIN oldText
  BY EditAssumption DEF EditInit
<1>2. changes = <<>> /\ Range(changes) = {}
  BY DEF EditInit, Range
<1>3. RollsTo(oldText, rolled, {}, mode)
  <2>1. \A i \in DOMAIN oldText : oldText[i] = [oldText[i] EXCEPT !.rev = oldText[i].rev]
    <3>1. \A e \in Elements : e = [e EXCEPT !.rev = e.rev]
      BY DEF Elements
    <3> QED BY <1>1, <3>1
  <2>2. \A e : ToldBy({}, mode, e) = e.rev
    BY DEF ToldBy, ChangesOf
  <2> QED BY <1>1, <2>1, <2>2 DEF RollsTo
<1>4. changes \in Seq(MayChange)
  BY <1>2
<1>5. \A c \in Range(changes) : FALSE
  BY <1>2
<1>6. oldText \in Seq(Elements) /\ DOMAIN rolled = DOMAIN oldText /\ todo \subseteq DOMAIN oldText
  BY <1>1
<1>7. RollsTo(oldText, rolled, Range(changes), mode)
  BY <1>2, <1>3
<1> QED BY <1>1, <1>4, <1>5, <1>6, <1>7 DEF Rolling

LEMMA NewRevKnown ==
  ASSUME NEW e, request \subseteq Elements, Asked(e) # {}
  PROVE  NewRev(e) \in Revs
<1>1. (CHOOSE r \in Asked(e) : TRUE) \in Elements
  BY DEF Asked
<1>2. Tip \in Revs /\ \A r \in Elements : r.rev \in Revs
  BY DEF Elements, Revs
<1> QED BY <1>1, <1>2 DEF NewRev

LEMMA RollStep ==
  ASSUME Rolling, NEW i \in todo, Roll(i)
  PROVE  Rolling'
<1> DEFINE e == oldText[i]
           new == NewRev(e)
           at == Place(rolled, e)
           c == [tag |-> e.tag, name |-> e.name, old |-> e.rev, new |-> new]
<1>1. /\ todo' = todo \ {i} /\ UNCHANGED <<oldText, request, mode>>
      /\ i \in DOMAIN oldText /\ e \in Elements /\ todo' \subseteq DOMAIN oldText
  BY DEF Roll, Rolling
<1>2. CASE UNCHANGED <<rolled, changes>>
  <2>1. \A d \in Range(changes) : \E j \in DOMAIN oldText :
          j \notin todo' /\ d.tag = oldText[j].tag /\ d.name = oldText[j].name
    BY <1>1 DEF Rolling
  <2> QED BY <1>1, <1>2, <2>1 DEF Rolling
<1>3. CASE /\ Asked(e) # {} /\ changes' = Append(changes, c)
           /\ rolled' = IF at = 0 \/ (e.tag = "project" /\ mode = "lockfile") THEN rolled
                        ELSE [rolled EXCEPT ![at].rev = new]
  <2>1. new \in Revs
    BY <1>3, NewRevKnown DEF Rolling
  <2>0. rolled' = IF at = 0 \/ (e.tag = "project" /\ mode = "lockfile") THEN rolled ELSE PutRev(rolled, at, new)
    BY <1>3 DEF PutRev
  <2> HIDE DEF new
  <2>2. c \in MayChange /\ c.tag = e.tag /\ c.name = e.name
    BY <1>1, <2>1 DEF Elements, MayChange
  <2> DEFINE C == Range(changes)
  <2>3. changes' \in Seq(MayChange) /\ Range(changes') = C \cup {c}
    <3>1. changes \in Seq(MayChange) /\ c \in MayChange
      BY <2>2 DEF Rolling
    <3> HIDE DEF c
    <3>2. Append(changes, c) \in Seq(MayChange) /\ Range(Append(changes, c)) = Range(changes) \cup {c}
      BY <3>1, OneMoreChange
    <3> QED BY <1>3, <3>2
  <2>4. rolled' \in Seq(Elements) /\ DOMAIN rolled' = DOMAIN oldText'
    <3>1. rolled \in Seq(Elements) /\ DOMAIN rolled = DOMAIN oldText
      BY DEF Rolling
    <3>2. PutRev(rolled, at, new) \in Seq(Elements) /\ DOMAIN PutRev(rolled, at, new) = DOMAIN rolled
      BY <2>1, <3>1, PutRevKeeps
    <3> QED BY <1>1, <2>0, <3>1, <3>2
  <2>5. \A d \in C : \E j \in DOMAIN oldText : j # i /\ j \notin todo' /\ d.tag = oldText[j].tag /\ d.name = oldText[j].name
    BY <1>1 DEF Rolling
  <2>6. \A d \in C \cup {c} : \E j \in DOMAIN oldText :
          j \notin todo' /\ d.tag = oldText[j].tag /\ d.name = oldText[j].name
    BY <1>1, <2>2, <2>5
  <2>7. ASSUME ApartIn(oldText, C \cup {c}) PROVE RollsTo(oldText, rolled', C \cup {c}, mode)
    <3>1. ApartIn(oldText, C)
      BY <2>7 DEF ApartIn
    <3>2. RollsTo(oldText, rolled, C, mode)
      BY <3>1 DEF Rolling
    <3>3. oldText \in Seq(Elements) /\ rolled \in Seq(Elements) /\ DOMAIN rolled = DOMAIN oldText
      BY DEF Rolling
    <3>4. \A d \in C : \E j \in DOMAIN oldText : j # i /\ d.tag = oldText[j].tag /\ d.name = oldText[j].name
      BY <2>5
    <3>6. /\ c = [tag |-> oldText[i].tag, name |-> oldText[i].name, old |-> oldText[i].rev, new |-> new]
          /\ i \in DOMAIN oldText
      BY <1>1
    <3> HIDE DEF C, c
    <3>5. /\ Place(rolled, oldText[i]) = i /\ i # 0
          /\ RollsTo(oldText, IF oldText[i].tag = "project" /\ mode = "lockfile" THEN rolled
                              ELSE PutRev(rolled, i, new), C \cup {c}, mode)
      BY <2>1, <2>7, <3>2, <3>3, <3>4, <3>6, RollOne
    <3> QED BY <2>0, <3>5
  <2> HIDE DEF C, c, e
  <2> QED BY <1>1, <2>3, <2>4, <2>6, <2>7 DEF Rolling
<1> QED BY <1>2, <1>3 DEF Roll

\* Whatever the command writes, it has rolled before.
LEMMA StaysRolled ==
  ASSUME Rolling, UNCHANGED <<oldText, request, mode, todo, rolled, changes>>
  PROVE  Rolling'
  BY DEF Rolling

LEMMA RollingStep == Rolling /\ [EditNext]_editVars => Rolling'
<1> SUFFICES ASSUME Rolling, [EditNext]_editVars PROVE Rolling'
  OBVIOUS
<1>1. ASSUME NEW i \in todo, Roll(i) PROVE Rolling'
  BY <1>1, RollStep
<1>2. CASE Report \/ UpdateLock \/ WriteManifest \/ Rewind \/ UNCHANGED editVars
  <2>1. UNCHANGED <<oldText, request, mode, todo, rolled, changes>>
    BY <1>2 DEF Report, UpdateLock, WriteManifest, Rewind, editVars
  <2> QED BY <2>1, StaysRolled
<1> QED BY <1>1, <1>2 DEF EditNext

\* The lockfiles as they should be, and those that name a project edited.
NewLocks == [k \in DOMAIN oldLocks |-> NewLock(oldLocks[k])]
Hit == {k \in DOMAIN oldLocks : Matches(oldLocks[k])}
OneHit == \A j, k \in Hit : j = k

\* The lockfiles are edited in order, and those with a backup are behind.
EditedInOrder ==
  /\ \A k \in DOMAIN oldLocks : locks[k] = IF LocksToEdit /\ k < level THEN NewLocks[k] ELSE oldLocks[k]
  /\ \A k \in backups.of : k < level

\* Only those that name a project edited are backed up; if that is one at most, the others are as
\* they were, and what it was is what the file of backups holds.
BackedUp ==
  /\ backups.of \subseteq Hit
  /\ OneHit => /\ \A k \in DOMAIN oldLocks \ backups.of : locks[k] = oldLocks[k]
               /\ \A k \in backups.of : backups.holds = {oldLocks[k]}

LocksInv ==
  /\ oldLocks \in LockChains /\ epc \in {"start", "locks", "rewind", "done", "failed"}
  /\ locks = [k \in DOMAIN oldLocks |-> locks[k]]
  /\ level \in Nat \ {0}
  /\ backups = [of |-> backups.of, holds |-> backups.holds]
  /\ epc = "start" => locks = oldLocks /\ level = 1 /\ backups.of = {}
  /\ epc = "locks" => EditedInOrder
  /\ epc \in {"locks", "rewind"} => BackedUp
  /\ epc = "done" =>
       \A k \in DOMAIN oldLocks : locks[k] = IF LocksToEdit THEN NewLocks[k] ELSE oldLocks[k]
  /\ epc = "failed" /\ OneHit => locks = oldLocks

LEMMA ChainLength ==
  ASSUME oldLocks \in LockChains, locks = [k \in DOMAIN oldLocks |-> locks[k]]
  PROVE  /\ Len(locks) = Len(oldLocks) /\ Len(oldLocks) \in Nat
         /\ DOMAIN locks = 1..Len(oldLocks) /\ DOMAIN oldLocks = 1..Len(oldLocks)
<1> DEFINE n == Len(oldLocks)
           T == {locks[k] : k \in 1..n}
<1>1. n \in Nat /\ DOMAIN oldLocks = 1..n
  BY EditAssumption
<1> HIDE DEF n
<1>2. locks \in [1..n -> T]
  BY <1>1
<1> HIDE DEF T
<1>3. locks \in Seq(T) /\ Len(locks) = n
  BY <1>1, <1>2
<1> QED BY <1>1, <1>2, <1>3 DEF n

\* A lockfile that names no project edited is left as it was.
LEMMA OthersUnchanged ==
  ASSUME oldLocks \in LockChains, NEW k \in DOMAIN oldLocks, k \notin Hit
  PROVE  NewLocks[k] = oldLocks[k]
<1> DEFINE lock == oldLocks[k]
<1>1. lock = [n \in DOMAIN lock |-> lock[n]]
  BY EditAssumption
<1>2. ~Matches(lock) /\ NewLocks[k] = NewLock(lock)
  BY DEF Hit, NewLocks
<1>3. \A n \in DOMAIN lock : ~\E c \in EditedProjects : c.name = n
  BY <1>2 DEF Matches
<1> HIDE DEF lock
<1>4. NewLock(lock) = lock
  BY <1>1, <1>3 DEF NewLock
<1> QED BY <1>2, <1>4 DEF lock

LEMMA InitLocksInv == EditInit => LocksInv
<1> SUFFICES ASSUME EditInit PROVE LocksInv
  OBVIOUS
<1>1. locks = [k \in DOMAIN oldLocks |-> locks[k]]
  <2>1. locks \in LockChains /\ oldLocks = locks
    BY DEF EditInit
  <2>2. locks = [k \in 1..Len(locks) |-> [n \in DOMAIN locks[k] |-> locks[k][n]]]
    BY <2>1, EditAssumption
  <2> QED BY <2>1, <2>2
<1> QED BY <1>1 DEF EditInit, LocksInv

\* What the lockfiles should be does not change any more.
LEMMA ReportStays ==
  ASSUME UNCHANGED <<oldLocks, mode, changes>>
  PROVE  UNCHANGED <<NewLocks, Hit, OneHit, LocksToEdit>>
  BY DEF NewLocks, Hit, OneHit, LocksToEdit, NewLock, Matches, EditedProjects

LEMMA UpdateLockStep ==
  ASSUME LocksInv, UpdateLock
  PROVE  LocksInv'
<1> DEFINE n == Len(oldLocks)
           lock == locks[level]
<1>1. UNCHANGED <<oldLocks, mode, changes, NewLocks, Hit, OneHit, LocksToEdit>>
  BY ReportStays DEF UpdateLock
<1>2. /\ n \in Nat /\ DOMAIN locks = 1..n /\ DOMAIN oldLocks = 1..n /\ Len(locks) = n
      /\ level \in 1..n
  BY ChainLength DEF LocksInv, UpdateLock
<1>3. LocksToEdit /\ epc = "locks" /\ EditedInOrder /\ BackedUp /\ lock = oldLocks[level]
  BY <1>2 DEF UpdateLock, LocksInv, EditedInOrder
<1>4. (Matches(lock) <=> level \in Hit) /\ NewLocks[level] = NewLock(lock)
  BY <1>2, <1>3 DEF Hit, NewLocks
<1>5. /\ \A k \in 1..n : k < level + 1 <=> k < level \/ k = level
      /\ level + 1 \in Nat \ {0} /\ level \in Nat
  BY <1>2
<1>6. level \notin backups.of /\ ~(level < level) /\ backups.of \subseteq Hit /\ Hit \subseteq 1..n
  BY <1>2, <1>3 DEF EditedInOrder, BackedUp, Hit
<1> HIDE DEF n, lock
<1>7. CASE ~Matches(lock) /\ level' = level + 1 /\ UNCHANGED <<locks, backups, epc>>
  <2>1. NewLocks[level] = oldLocks[level]
    BY <1>2, <1>4, <1>7, OthersUnchanged DEF LocksInv
  <2>2. EditedInOrder' /\ BackedUp'
    BY <1>1, <1>2, <1>3, <1>5, <1>6, <1>7, <2>1 DEF EditedInOrder, BackedUp
  <2> QED BY <1>1, <1>3, <1>5, <1>7, <2>2 DEF LocksInv
<1>8. CASE epc' = "rewind" /\ UNCHANGED <<locks, backups, level>>
  <2>1. BackedUp'
    BY <1>1, <1>3, <1>8 DEF BackedUp
  <2> QED BY <1>1, <1>8, <2>1 DEF LocksInv
<1>9. CASE /\ Matches(lock) /\ epc' = "rewind"
           /\ backups' = [backups EXCEPT !.holds = {Broken}] /\ UNCHANGED <<locks, level>>
  <2>1. backups'.of = backups.of /\ backups' = [of |-> backups'.of, holds |-> backups'.holds]
    BY <1>9 DEF LocksInv
  <2>2. BackedUp'
    BY <1>1, <1>3, <1>4, <1>6, <1>9, <2>1 DEF BackedUp, OneHit
  <2> QED BY <1>1, <1>9, <2>1, <2>2 DEF LocksInv
<1>10. CASE /\ Matches(lock) /\ BackUp(level)
            /\ \/ locks' = [locks EXCEPT ![level] = NewLock(@)] /\ level' = level + 1 /\ UNCHANGED epc
               \/ locks' = [locks EXCEPT ![level] = Broken] /\ epc' = "rewind" /\ UNCHANGED level
  <2>1. /\ backups'.of = backups.of \cup {level} /\ backups'.holds = {oldLocks[level]}
        /\ backups' = [of |-> backups'.of, holds |-> backups'.holds]
    BY <1>3, <1>10 DEF BackUp, lock
  <2>2. level \in Hit /\ (OneHit => \A k \in backups'.of : k = level)
    BY <1>4, <1>6, <1>10, <2>1 DEF OneHit
  <2>3. CASE locks' = [locks EXCEPT ![level] = NewLock(@)] /\ level' = level + 1 /\ UNCHANGED epc
    <3>1. \A k \in 1..n : locks'[k] = IF k = level THEN NewLocks[level] ELSE locks[k]
      BY <1>2, <1>4, <2>3 DEF lock
    <3>2. locks' = [k \in 1..n |-> locks'[k]]
      BY <1>2, <2>3 DEF LocksInv
    <3>3. BackedUp'
      BY <1>1, <1>2, <1>3, <1>6, <2>1, <2>2, <3>1 DEF BackedUp
    <3>4. EditedInOrder'
      <4>1. \A k \in 1..n : locks'[k] = IF LocksToEdit /\ k < level + 1 THEN NewLocks[k] ELSE oldLocks[k]
        BY <1>2, <1>3, <1>5, <3>1 DEF EditedInOrder
      <4>2. \A k \in backups'.of : k < level + 1
        BY <1>2, <1>3, <1>5, <1>6, <2>1 DEF EditedInOrder
      <4> QED BY <1>1, <1>2, <2>3, <4>1, <4>2 DEF EditedInOrder
    <3> QED BY <1>1, <1>2, <1>3, <1>5, <2>1, <2>3, <3>2, <3>3, <3>4 DEF LocksInv
  <2>4. CASE locks' = [locks EXCEPT ![level] = Broken] /\ epc' = "rewind" /\ UNCHANGED level
    <3>1. \A k \in 1..n : k # level => locks'[k] = locks[k]
      BY <1>2, <2>4
    <3>2. locks' = [k \in 1..n |-> locks'[k]]
      BY <1>2, <2>4 DEF LocksInv
    <3>3. BackedUp'
      BY <1>1, <1>2, <1>3, <1>6, <2>1, <2>2, <3>1 DEF BackedUp
    <3> QED BY <1>1, <1>2, <2>1, <2>4, <3>2, <3>3 DEF LocksInv
  <2> QED BY <1>10, <2>3, <2>4
<1> QED BY <1>7, <1>8, <1>9, <1>10 DEF UpdateLock, lock

LEMMA WriteManifestStep ==
  ASSUME LocksInv, WriteManifest
  PROVE  LocksInv'
<1>1. UNCHANGED <<oldLocks, mode, changes, NewLocks, Hit, OneHit, LocksToEdit>>
  BY ReportStays DEF WriteManifest
<1>2. epc = "locks" /\ UNCHANGED <<locks, backups, level>>
  BY DEF WriteManifest
<1>3. CASE epc' = "done"
  <2>1. \A k \in DOMAIN oldLocks : LocksToEdit => k < level
    BY <1>2, ChainLength DEF LocksInv, WriteManifest
  <2>2. \A k \in DOMAIN oldLocks : locks[k] = IF LocksToEdit THEN NewLocks[k] ELSE oldLocks[k]
    BY <1>2, <2>1 DEF LocksInv, EditedInOrder
  <2> QED BY <1>1, <1>2, <1>3, <2>2 DEF LocksInv
<1>4. CASE epc' = "rewind"
  <2>1. BackedUp'
    BY <1>1, <1>2 DEF LocksInv, BackedUp
  <2> QED BY <1>1, <1>2, <1>4, <2>1 DEF LocksInv
<1> QED BY <1>3, <1>4 DEF WriteManifest

LEMMA RewindStep ==
  ASSUME LocksInv, Rewind
  PROVE  LocksInv'
<1>1. UNCHANGED <<oldLocks, mode, changes, NewLocks, Hit, OneHit, LocksToEdit>>
  BY ReportStays DEF Rewind
<1>2. epc = "rewind" /\ UNCHANGED level /\ BackedUp
  BY DEF Rewind, LocksInv
<1>3. CASE backups.of = {} /\ epc' = "failed" /\ UNCHANGED <<locks, backups>>
  <2>1. OneHit => \A k \in DOMAIN oldLocks : locks[k] = oldLocks[k]
    BY <1>2, <1>3 DEF BackedUp
  <2>2. oldLocks = [k \in DOMAIN oldLocks |-> oldLocks[k]]
    BY EditAssumption DEF LocksInv
  <2>3. OneHit => locks = oldLocks
    BY <2>1, <2>2 DEF LocksInv
  <2> QED BY <1>1, <1>2, <1>3, <2>3 DEF LocksInv
<1>4. ASSUME NEW k \in backups.of,
             locks' = [locks EXCEPT ![k] = IF backups.holds = {} THEN @ ELSE CHOOSE b \in backups.holds : TRUE],
             backups' = [of |-> backups.of \ {k}, holds |-> {}], UNCHANGED epc
      PROVE  LocksInv'
  <2>1. /\ k \in DOMAIN oldLocks /\ DOMAIN locks = DOMAIN oldLocks
        /\ locks' = [j \in DOMAIN oldLocks |-> locks'[j]]
    BY <1>2, <1>4 DEF LocksInv, BackedUp, Hit
  <2>2. backups'.of = backups.of \ {k} /\ backups' = [of |-> backups'.of, holds |-> backups'.holds]
    BY <1>4
  <2>3. ASSUME OneHit
        PROVE  backups'.of = {} /\ \A j \in DOMAIN oldLocks : locks'[j] = oldLocks[j]
    <3>1. backups.of = {k} /\ backups.holds = {oldLocks[k]}
      BY <1>2, <2>3 DEF BackedUp, OneHit
    <3>2. locks'[k] = oldLocks[k]
      BY <1>4, <2>1, <3>1
    <3>3. \A j \in DOMAIN oldLocks : j # k => locks'[j] = oldLocks[j]
      BY <1>2, <1>4, <2>1, <2>3, <3>1 DEF BackedUp
    <3> QED BY <2>2, <3>1, <3>2, <3>3
  <2>4. BackedUp'
    BY <1>1, <1>2, <2>2, <2>3 DEF BackedUp
  <2> QED BY <1>1, <1>2, <1>4, <2>1, <2>2, <2>4 DEF LocksInv
<1> QED BY <1>3, <1>4 DEF Rewind

LEMMA LocksStep == LocksInv /\ [EditNext]_editVars => LocksInv'
<1> SUFFICES ASSUME LocksInv, [EditNext]_editVars PROVE LocksInv'
  OBVIOUS
<1>1. ASSUME NEW i \in todo, Roll(i) PROVE LocksInv'
  <2>1. /\ epc = "start" /\ epc' \in {"start", "failed"}
        /\ UNCHANGED <<locks, oldLocks, backups, level>>
    BY <1>1 DEF Roll
  <2> QED BY <2>1 DEF LocksInv
<1>2. CASE Report
  <2>1. /\ epc = "start" /\ epc' \in {"failed", "locks"}
        /\ UNCHANGED <<locks, oldLocks, backups, level, mode, changes, NewLocks, Hit, OneHit, LocksToEdit>>
    BY <1>2, ReportStays DEF Report
  <2>2. locks = oldLocks /\ level = 1 /\ backups.of = {} /\ \A k \in DOMAIN oldLocks : ~(k < 1)
    BY <2>1, ChainLength DEF LocksInv
  <2>3. EditedInOrder' /\ BackedUp'
    BY <2>1, <2>2 DEF EditedInOrder, BackedUp
  <2> QED BY <2>1, <2>2, <2>3 DEF LocksInv
<1>3. CASE UpdateLock
  BY <1>3, UpdateLockStep
<1>4. CASE WriteManifest
  BY <1>4, WriteManifestStep
<1>5. CASE Rewind
  BY <1>5, RewindStep
<1>6. CASE UNCHANGED editVars
  <2>1. UNCHANGED <<locks, oldLocks, backups, level, mode, changes, epc, NewLocks, Hit, OneHit, LocksToEdit>>
    BY <1>6, ReportStays DEF editVars
  <2> QED BY <2>1 DEF LocksInv, EditedInOrder, BackedUp
<1> QED BY <1>1, <1>2, <1>3, <1>4, <1>5, <1>6 DEF EditNext

EditInv == Rolling /\ LocksInv /\ (epc = "done" => text = rolled)

LEMMA EditStep == EditInv /\ [EditNext]_editVars => EditInv'
<1> SUFFICES ASSUME EditInv, [EditNext]_editVars PROVE EditInv'
  OBVIOUS
<1>1. Rolling' /\ LocksInv'
  BY RollingStep, LocksStep DEF EditInv
<1>2. epc' = "done" => text' = rolled'
  <2>1. ASSUME NEW i \in todo, Roll(i) PROVE epc' # "done"
    BY <2>1 DEF Roll
  <2>2. Report => epc' # "done"
    BY DEF Report
  <2>3. UpdateLock => epc' # "done"
    BY DEF UpdateLock
  <2>4. WriteManifest => (epc' = "done" => text' = rolled')
    BY DEF WriteManifest
  <2>5. Rewind => epc' # "done"
    BY DEF Rewind
  <2>6. UNCHANGED editVars => (epc' = "done" => text' = rolled')
    BY DEF editVars, EditInv
  <2> QED BY <2>1, <2>2, <2>3, <2>4, <2>5, <2>6 DEF EditNext
<1> QED BY <1>1, <1>2 DEF EditInv

LEMMA OneAtMost ==
  ASSUME NEW S, IsFiniteSet(S), Cardinality(S) <= 1
  PROVE  \A j, k \in S : j = k
<1> SUFFICES ASSUME NEW j \in S, NEW k \in S, j # k PROVE FALSE
  OBVIOUS
<1>1. IsFiniteSet({j, k}) /\ Cardinality({j, k}) = 2
  <2>1. IsFiniteSet({j}) /\ Cardinality({j}) = 1
    BY FS_Singleton
  <2>2. /\ IsFiniteSet({j} \cup {k})
        /\ Cardinality({j} \cup {k}) = IF k \in {j} THEN Cardinality({j}) ELSE Cardinality({j}) + 1
    BY <2>1, FS_AddElement
  <2>3. {j} \cup {k} = {j, k} /\ k \notin {j}
    OBVIOUS
  <2> QED BY <2>1, <2>2, <2>3
<1>2. {j, k} \in SUBSET S
  OBVIOUS
<1>3. Cardinality({j, k}) <= Cardinality(S) /\ Cardinality(S) \in Nat
  BY <1>2, FS_Subset, FS_CardinalityType
<1> QED BY <1>1, <1>3

\* edit.go: an edit that succeeds rolls every lockfile and, if its revisions are apart, the text as
\* it reports; one that fails has changed no lockfile if at most one named a project edited.
THEOREM EditsAreKept == EditSpec => []EditsKept
<1>1. EditInit => EditInv
  BY InitRolling, InitLocksInv DEF EditInit, EditInv
<1>2. EditInv => EditsKept
  <2> SUFFICES ASSUME EditInv PROVE EditsKept
    OBVIOUS
  <2> DEFINE C == Range(changes)
  <2>1. Rolling /\ LocksInv /\ DOMAIN locks = DOMAIN oldLocks
    BY DEF EditInv, LocksInv
  <2>2. ASSUME epc = "done", Apart PROVE RolledAsTold
    <3>1. ApartIn(oldText, C)
      BY <2>2 DEF Apart, ApartIn
    <3>2. RollsTo(oldText, rolled, C, mode) /\ DOMAIN rolled = DOMAIN oldText /\ text = rolled
      BY <2>1, <2>2, <3>1 DEF Rolling, EditInv
    <3>3. \A e : ToldBy(C, mode, e) = Told(e)
      BY DEF ToldBy, Told, ChangesOf, OneOf
    <3> HIDE DEF C
    <3> QED BY <3>2, <3>3 DEF RollsTo, RolledAsTold
  <2>3. ASSUME epc = "done"
        PROVE  \A k \in DOMAIN locks : locks[k] = IF LocksToEdit THEN NewLock(oldLocks[k]) ELSE oldLocks[k]
    BY <2>1, <2>3 DEF LocksInv, NewLocks
  <2>4. ASSUME epc = "failed", Cardinality({k \in DOMAIN locks : Matches(oldLocks[k])}) <= 1
        PROVE  locks = oldLocks
    <3>1. {k \in DOMAIN locks : Matches(oldLocks[k])} = Hit
      BY <2>1 DEF Hit
    <3>2. IsFiniteSet(1..Len(oldLocks)) /\ Hit \in SUBSET (1..Len(oldLocks))
      <4>1. Len(oldLocks) \in Nat /\ DOMAIN oldLocks = 1..Len(oldLocks)
        BY <2>1, ChainLength DEF LocksInv
      <4> QED BY <4>1, FS_Interval DEF Hit
    <3>3. IsFiniteSet(Hit)
      BY <3>2, FS_Subset
    <3>4. OneHit
      BY <2>4, <3>1, <3>3, OneAtMost DEF OneHit
    <3> QED BY <2>1, <2>4, <3>4 DEF LocksInv
  <2> QED BY <2>2, <2>3, <2>4 DEF EditsKept
<1> QED BY <1>1, <1>2, EditStep, PTL DEF EditSpec
=============================================================================
