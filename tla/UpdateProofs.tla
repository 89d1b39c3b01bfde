---------------------------- MODULE UpdateProofs ----------------------------
(* Proofs about Update. *)
EXTENDS Update, SequenceTheorems, TLAPS

-----------------------------------------------------------------------------
(* What the operators on paths return. *)

\* A path with something behind it is a path.
LEMMA ExtendedPath ==
  ASSUME NEW p \in Path, NEW rest \in Seq(Nat)
  PROVE  p \o rest \in Path
<1>1. p \in Seq(Nat) /\ Len(p) \in Nat \ {0} /\ p[1] # Sep
  BY EmptySeq DEF Path
<1>2. /\ p \o rest \in Seq(Nat)
      /\ Len(p \o rest) = Len(p) + Len(rest) /\ Len(rest) \in Nat
      /\ (p \o rest)[1] = p[1]
  BY <1>1, ConcatProperties, LenProperties
<1>3. p \o rest # <<>>
  BY <1>1, <1>2, EmptySeq
<1>4. QED
  BY <1>1, <1>2, <1>3 DEF Path

\* Carrying a path along gives a path.
LEMMA CarriedPath ==
  ASSUME NEW p \in Path, NEW src \in Path, NEW dst \in Path
  PROVE  Carried(p, src, dst) \in Path
<1>1. SubSeq(p, Len(src) + 1, Len(p)) \in Seq(Nat)
  BY SubSeqProperties, LenProperties DEF Path
<1>2. QED
  BY <1>1, ExtendedPath DEF Carried

\* The directories around a path are paths.
LEMMA AroundPath ==
  ASSUME NEW p \in Path
  PROVE  Ancestors(p) \subseteq Path /\ Around(p) \subseteq Path
<1>1. ASSUME NEW j \in DOMAIN p, p[j] = Sep
      PROVE  SubSeq(p, 1, j - 1) \in Path
  <2>1. p \in Seq(Nat) /\ j \in 1..Len(p) /\ j # 1 /\ Len(p) \in Nat
    BY <1>1, LenProperties DEF Path
  <2>2. /\ SubSeq(p, 1, j - 1) \in Seq(Nat)
        /\ Len(SubSeq(p, 1, j - 1)) = j - 1
        /\ SubSeq(p, 1, j - 1)[1] = p[1]
    BY <2>1, SubSeqProperties, ElementOfSeq
  <2>3. SubSeq(p, 1, j - 1) # <<>>
    BY <2>1, <2>2, EmptySeq
  <2>4. QED
    BY <2>2, <2>3 DEF Path
<1>2. QED
  BY <1>1 DEF Ancestors, Around

\* Joining a path to a path gives a path.
LEMMA JoinPath ==
  ASSUME NEW dst \in Path, NEW rest \in Seq(Nat)
  PROVE  Join(dst, rest) \in Path
<1>1. dst \o rest \in Path
  BY ExtendedPath
<1>2. <<Sep>> \in Seq(Nat) /\ Append(dst, Sep) = dst \o <<Sep>>
  BY DEF Path, Sep
<1>3. Append(dst, Sep) \in Path
  BY <1>2, ExtendedPath
<1>4. Append(dst, Sep) \o rest \in Path
  BY <1>3, ExtendedPath
<1>5. QED
  BY <1>1, <1>4 DEF Join

\* The entries of the swap directory are paths.
LEMMA SwapNamePath ==
  ASSUME NEW p \in Path
  PROVE  SwapName(p) \in Path
<1> DEFINE name == [i \in DOMAIN p |-> IF p[i] = Sep THEN SwapMark ELSE p[i]]
<1>1. p \in Seq(Nat) /\ Len(p) \in Nat /\ DOMAIN p = 1..Len(p)
  BY LenProperties DEF Path
<1>2. name \in Seq(Nat)
  BY <1>1, ElementOfSeq DEF SwapMark
<1>3. <<SwapMark>> \in Seq(Nat) /\ Len(<<SwapMark>>) = 1 /\ <<SwapMark>>[1] = SwapMark
  BY DEF SwapMark
<1>4. /\ <<SwapMark>> \o name \in Seq(Nat)
      /\ Len(<<SwapMark>> \o name) >= 1
      /\ (<<SwapMark>> \o name)[1] = SwapMark
  BY <1>2, <1>3, ConcatProperties, LenProperties
<1>5. SwapMark # Sep
  BY DEF SwapMark, Sep
<1>6. <<SwapMark>> \o name # <<>>
  BY <1>4, EmptySeq
<1>7. QED
  BY <1>4, <1>5, <1>6 DEF SwapName, Path

\* No path is the empty sequence.
LEMMA PathSomewhere == Nowhere \notin Path
BY DEF Path, Nowhere
-----------------------------------------------------------------------------
(* What the operators on the disk keep. *)

\* Directories that stay are paths, and so are those carried along.
LEMMA RenameDisk ==
  ASSUME DiskOK, NEW from \in Path, NEW to \in Path, NEW ds \in SUBSET Path,
         Rename(from, to, ds)
  PROVE  DiskOK' /\ \A t \in Trees : at[t] # Nowhere => at'[t] # Nowhere
<1>1. \A q \in Path : Carried(q, from, to) \in Path
  BY CarriedPath
<1>2. at' \in [Trees -> Path \cup {Nowhere}]
  BY <1>1, PathSomewhere DEF DiskOK, Rename
<1>3. dirs' \subseteq Path
  BY <1>1 DEF Rename
<1>4. \A t \in Trees : at[t] # Nowhere => at'[t] # Nowhere
  BY <1>1, PathSomewhere DEF DiskOK, Rename
<1>5. QED
  BY <1>2, <1>3, <1>4 DEF DiskOK, Rename

\* RemoveTree takes trees and directories away.
LEMMA RemoveTreeDisk ==
  ASSUME DiskOK, NEW d \in Path, RemoveTree(d)
  PROVE  /\ DiskOK'
         /\ bare' \subseteq bare
         /\ \A t \in Trees : at[t] # Nowhere /\ ~Under(d, at[t]) => at'[t] # Nowhere
<1>1. at' \in [Trees -> Path \cup {Nowhere}]
  BY DEF DiskOK, RemoveTree, Nowhere
<1>2. meta' \in [Trees -> Meta \cup {NoMeta}]
  BY DEF DiskOK, RemoveTree
<1>3. bare' \subseteq bare /\ dirs' \subseteq dirs
  BY DEF RemoveTree
<1>4. \A t \in Trees : at[t] # Nowhere /\ ~Under(d, at[t]) => at'[t] # Nowhere
  BY DEF RemoveTree, OnDisk
<1>5. QED
  BY <1>1, <1>2, <1>3, <1>4 DEF DiskOK

\* A fresh tree is one of those not on the disk.
LEMMA FreshTree ==
  ASSUME NEW p \in Projects, EnoughCopies(p)
  PROVE  Fresh(p) \in Trees /\ at[Fresh(p)] = Nowhere
BY DEF EnoughCopies, Fresh, Trees

\* A fresh tree is placed, and no other is touched.
LEMMA WriteMetadataDisk ==
  ASSUME DiskOK, NEW p \in Projects, manifest[p] \in Path, WriteMetadata(p)
  PROVE  /\ DiskOK'
         /\ \A t \in Trees : at[t] # Nowhere => at'[t] # Nowhere
         /\ \A t \in bare' \ bare : at[t] = Nowhere
<1> DEFINE m == [key |-> p, path |-> manifest[p], remote |-> Remote(p)]
<1>1. m \in Meta
  BY DEF Meta, Remote
<1>2. dirs' \subseteq Path
  BY AroundPath DEF WriteMetadata, DiskOK
<1>3. CASE TreesAt(manifest[p]) # {}
  <2>1. meta' \in [Trees -> Meta \cup {NoMeta}]
    BY <1>1, <1>3 DEF WriteMetadata, DiskOK
  <2>2. UNCHANGED <<at, bare>>
    BY <1>3 DEF WriteMetadata
  <2>3. QED
    BY <1>2, <2>1, <2>2 DEF DiskOK
<1>4. CASE TreesAt(manifest[p]) = {}
  <2> DEFINE f == Fresh(p)
  <2>1. f \in Trees /\ at[f] = Nowhere
    BY <1>4, FreshTree DEF WriteMetadata
  <2>2. /\ at' = [at EXCEPT ![f] = manifest[p]]
        /\ meta' = [meta EXCEPT ![f] = m]
        /\ bare' = bare \cup {f}
    BY <1>4 DEF WriteMetadata
  <2> HIDE DEF f, m
  <2>3. DiskOK'
    BY <1>1, <1>2, <2>1, <2>2 DEF DiskOK
  <2>4. \A t \in Trees : at[t] # Nowhere => at'[t] # Nowhere
    BY <2>1, <2>2 DEF DiskOK
  <2>5. QED
    BY <2>1, <2>2, <2>3, <2>4
<1>5. QED
  BY <1>3, <1>4

-----------------------------------------------------------------------------
(* How an attempt goes on. *)

\* A kind of operation tells where its project is known from.
LEMMA OpsKnown ==
  ASSUME NEW k
  PROVE  /\ OpsOf(k) \subseteq DOMAIN local \cup DOMAIN manifest
         /\ k \in {"change-remote", "move", "update", "null"} =>
              OpsOf(k) \subseteq DOMAIN local \cap DOMAIN manifest
         /\ k = "create" => OpsOf(k) \subseteq DOMAIN manifest
         /\ k = "delete" => OpsOf(k) \subseteq DOMAIN local
BY DEF OpsOf, Kind

\* The numbers of the phases.
LEMMA PhaseNumbers ==
  /\ Number("delete") = 1 /\ Number("change-remote") = 2 /\ Number("move") = 3
  /\ Number("update") = 4 /\ Number("create") = 5 /\ Number("null") = 6
  /\ Len(Phases) = 7
BY DEF Number, Phases

\* What is entered is a phase, with the operations of its kind.
LEMMA Entered ==
  ASSUME NEW n \in 1..7, Enter(n)
  PROVE  phase' \in Range(Phases) /\ left' = OpsOf(phase')
<1> DEFINE busy == {i \in n..7 : i = 7 \/ OpsOf(Phases[i]) # {}}
<1>1. \E i \in busy : \A j \in busy : i <= j
  <2>1. 7 \in busy /\ busy \subseteq 1..7
    OBVIOUS
  <2> HIDE DEF busy
  <2>2. QED
    BY <2>1
<1>2. PICK i \in busy : phase' = Phases[i] /\ left' = OpsOf(Phases[i])
  BY <1>1, PhaseNumbers DEF Enter
<1>3. i \in 1..7
  BY <1>2
<1>4. QED
  BY <1>2, <1>3 DEF Range, Phases
-----------------------------------------------------------------------------
(* The invariant. *)

\* Operations that are still to come concern projects the attempt knows of.
LeftKnown ==
  /\ phase \in {"change-remote", "move", "moving", "moved", "update", "create", "null"}
       => left \subseteq DOMAIN manifest
  /\ phase \in {"delete", "change-remote", "move", "moving", "moved"}
       => left \subseteq DOMAIN local
  /\ phase \in {"moving", "moved"} => \A m \in moving : m[1] \in DOMAIN manifest

\* A step that leaves every tree on the disk, and makes no new directory of a tree
\* that may hold work.
KeepsTrees ==
  /\ \A t \in Trees : at[t] # Nowhere => at'[t] # Nowhere
  /\ \A t \in bare' \ bare : at[t] = Nowhere
  /\ work' = work

\* Unsaved work is on the disk, in checkouts.
WorkInCheckouts == WorkSurvives /\ work \cap bare = {}

LEMMA KeepsWork ==
  ASSUME TypeOK, WorkInCheckouts, KeepsTrees
  PROVE  WorkInCheckouts'
BY DEF TypeOK, RunOK, WorkInCheckouts, WorkSurvives, KeepsTrees

\* After an attempt nothing of it is left.
LEMMA AttemptEnds ==
  ASSUME TypeOK, NEW r \in {"nil", "error"}, EndAttempt(r)
  PROVE  /\ AttemptOK' /\ LeftKnown'
         /\ phase' \in {"load", "snapshot"}
         /\ scan' \in {"fast", "full"}
         /\ ret' \in {"none", "nil", "error", "killed"}
<1>1. Forget /\ phase' \in {"load", "snapshot"}
  BY DEF EndAttempt
<1>2. /\ scan' \in {"fast", "full"}
      /\ ret' \in {"none", "nil", "error", "killed"}
  BY DEF EndAttempt, TypeOK, RunOK
<1>3. DOMAIN <<>> = {}
  OBVIOUS
<1>4. AttemptOK'
  BY <1>1, <1>3 DEF Forget, AttemptOK, IsLocals, Nowhere, NoMove
<1>5. LeftKnown'
  BY <1>1 DEF LeftKnown
<1>6. QED
  BY <1>1, <1>2, <1>4, <1>5

\* The next operation is of the same phase, or of the next one.
LEMMA NextOperation ==
  ASSUME TypeOK, LeftKnown, NEW p,
         NEW ph \in {"delete", "change-remote", "move", "update", "create", "null"},
         phase = ph \/ (ph = "move" /\ phase = "moved"),
         UNCHANGED <<local, manifest>>,
         Done(ph, p)
  PROVE  left' \subseteq Projects /\ phase' \in Range(Phases) /\ LeftKnown'
<1>1. /\ DOMAIN local \subseteq Projects
      /\ DOMAIN manifest \subseteq Projects
      /\ left \subseteq Projects
  BY DEF TypeOK, AttemptOK, RunOK, IsLocals
<1>2. CASE left = {p}
  <2>1. Number(ph) + 1 \in 1..7
    BY PhaseNumbers
  <2>2. phase' \in Range(Phases) /\ left' = OpsOf(phase')
    BY <1>2, <2>1, Entered DEF Done
  <2>3. left' \subseteq Projects
    BY <1>1, <2>2, OpsKnown
  <2>4. phase' \notin {"moving", "moved"}
    BY <2>2 DEF Range, Phases
  <2>5. LeftKnown'
    BY <2>2, <2>4, OpsKnown DEF LeftKnown
  <2>6. QED
    BY <2>2, <2>3, <2>5
<1>3. CASE left # {p}
  <2>1. phase' = ph /\ left' = left \ {p}
    BY <1>3 DEF Done
  <2>2. ph \in Range(Phases)
    BY DEF Range, Phases
  <2>3. LeftKnown'
    BY <2>1 DEF LeftKnown
  <2>4. QED
    BY <1>1, <2>1, <2>2, <2>3
<1>4. QED
  BY <1>2, <1>3
-----------------------------------------------------------------------------
(* One lemma for each action: it keeps the types and LeftKnown, and, but for *)
(* Delete and UserWorks, every tree.                                         *)

\* The paths known of projects.
LEMMA KnownPaths ==
  ASSUME TypeOK
  PROVE  /\ \A p \in DOMAIN local : p \in Projects /\ local[p].path \in Path
         /\ \A p \in DOMAIN manifest : p \in Projects /\ manifest[p] \in Path
BY DEF TypeOK, AttemptOK, RunOK, IsLocals, Meta

\* What Fault does to the counter.
LEMMA FaultCounted ==
  ASSUME TypeOK, Fault
  PROVE  faults' \in 0..MaxFaults
BY UpdateAssumption DEF Fault, TypeOK, RunOK

LEMMA BeginStep ==
  ASSUME TypeOK, LeftKnown, Begin
  PROVE  TypeOK' /\ LeftKnown' /\ KeepsTrees
<1>1. DiskOK' /\ AttemptOK'
  BY DEF TypeOK, Begin, fsVars, moveVars, DiskOK, AttemptOK
<1>2. \A p \in DOMAIN manifest' : p \in Projects /\ manifest'[p] \in Path
  BY UpdateAssumption DEF Begin
<1>3. gc' \in BOOLEAN /\ scan' \in {"fast", "full"}
  BY UpdateAssumption DEF Begin
<1>4. runs' \in 0..MaxRuns
  BY UpdateAssumption DEF TypeOK, RunOK, Begin
<1>5. RunOK'
  BY <1>2, <1>3, <1>4 DEF TypeOK, RunOK, Begin
<1>6. QED
  BY <1>1, <1>5 DEF TypeOK, LeftKnown, Begin, KeepsTrees, fsVars

\* Projects found on the disk, or taken from a snapshot, are well formed.
LEMMA LocalsFound ==
  ASSUME TypeOK
  PROVE  IsLocals(ByKey(Found)) /\ IsLocals(LocalProjects)
<1>1. Found \subseteq Meta
  BY DEF Found, Seen, TypeOK, DiskOK
<1>2. \A m \in Found : m.key \in Projects
  BY <1>1 DEF Meta
<1>3. IsLocals(ByKey(Found))
  BY <1>1, <1>2 DEF IsLocals, ByKey
<1>4. FromSnapshot => (CHOOSE s \in latest : TRUE) \in latest
  BY DEF FromSnapshot
<1>5. QED
  BY <1>3, <1>4 DEF LocalProjects, TypeOK, RunOK

LEMMA LoadStep ==
  ASSUME TypeOK, LeftKnown, Load
  PROVE  TypeOK' /\ LeftKnown' /\ KeepsTrees
<1>1. DiskOK' /\ KeepsTrees
  BY DEF Load, fsVars, TypeOK, DiskOK, KeepsTrees
<1>2. CASE ~Fails
  <2>1. AttemptOK' /\ LeftKnown'
    BY <1>2, LocalsFound DEF Load, TypeOK, AttemptOK, LeftKnown, moveVars
  <2>2. RunOK'
    BY <1>2 DEF Load, TypeOK, RunOK, inputVars, countVars
  <2>3. QED
    BY <1>1, <2>1, <2>2 DEF TypeOK
<1>3. CASE Fails
  <2>1. EndAttempt("error")
    BY <1>3 DEF Fails
  <2>2. faults' \in 0..MaxFaults
    BY FaultCounted DEF Load, TypeOK, RunOK
  <2>3. RunOK'
    BY <2>1, <2>2, AttemptEnds DEF Load, TypeOK, RunOK, inputVars, countVars
  <2>4. QED
    BY <1>1, <2>1, <2>3, AttemptEnds DEF TypeOK
<1>4. QED
  BY <1>2, <1>3

LEMMA TestStep ==
  ASSUME TypeOK, LeftKnown, Test
  PROVE  TypeOK' /\ LeftKnown' /\ KeepsTrees
<1>1. DiskOK' /\ KeepsTrees
  BY DEF Test, fsVars, TypeOK, DiskOK, KeepsTrees
<1>2. CASE Fails
  <2>1. EndAttempt("error")
    BY <1>2 DEF Fails
  <2>2. RunOK'
    BY <2>1, AttemptEnds DEF Test, TypeOK, RunOK, inputVars, countVars
  <2>3. QED
    BY <1>1, <2>1, <2>2, AttemptEnds DEF TypeOK
<1>3. CASE ~Fails
  <2>1. PICK n \in 1..7 : Enter(n)
    BY <1>3 DEF Test
  <2>2. UNCHANGED <<scan, local, kept, moveVars, failed, ret>>
    BY <1>3 DEF Test
  <2>3. phase' \in Range(Phases) /\ left' = OpsOf(phase')
    BY <2>1, Entered
  <2>4. phase' \notin {"moving", "moved"}
    BY <2>3 DEF Range, Phases
  <2>5. manifest' = manifest /\ local' = local
    BY <2>2 DEF Test, inputVars
  <2>6. LeftKnown'
    BY <2>3, <2>4, <2>5, OpsKnown DEF LeftKnown
  <2>7. left' \subseteq Projects
    BY <2>3, OpsKnown, KnownPaths
  <2>8. AttemptOK'
    BY <2>2, <2>7 DEF TypeOK, AttemptOK, moveVars
  <2>9. RunOK'
    BY <2>2, <2>3 DEF Test, TypeOK, RunOK, inputVars, countVars
  <2>10. QED
    BY <1>1, <2>6, <2>8, <2>9 DEF TypeOK
<1>4. QED
  BY <1>2, <1>3
\* An operation that fails ends the attempt.
LEMMA OperationFails ==
  ASSUME TypeOK, DiskOK', Fails, faults' \in 0..MaxFaults,
         UNCHANGED <<work, latest, inputVars, countVars>>
  PROVE  TypeOK' /\ LeftKnown'
<1>1. EndAttempt("error")
  BY DEF Fails
<1>2. RunOK'
  BY <1>1, AttemptEnds DEF TypeOK, RunOK, inputVars, countVars
<1>3. QED
  BY <1>1, <1>2, AttemptEnds DEF TypeOK

\* An operation that succeeds leads to the next one.
LEMMA OperationSucceeds ==
  ASSUME TypeOK, LeftKnown, DiskOK', NEW p,
         NEW ph \in {"delete", "change-remote", "move", "update", "create", "null"},
         phase = ph \/ (ph = "move" /\ phase = "moved"),
         Done(ph, p),
         kept' \subseteq Path,
         psrc' \in Path \cup {Nowhere}, psrc' # Nowhere => pdst' \in Path,
         UNCHANGED <<work, latest, inputVars, countVars, scan, local, moving, failed, ret, faults>>
  PROVE  TypeOK' /\ LeftKnown'
<1>1. left' \subseteq Projects /\ phase' \in Range(Phases) /\ LeftKnown'
  BY NextOperation DEF inputVars
<1>2. AttemptOK'
  BY <1>1 DEF TypeOK, AttemptOK
<1>3. RunOK'
  BY <1>1 DEF TypeOK, RunOK, inputVars, countVars
<1>4. QED
  BY <1>1, <1>2, <1>3 DEF TypeOK

\* A step that leaves the disk alone.
LEMMA DiskUntouched ==
  ASSUME TypeOK, UNCHANGED <<fsVars, work>>
  PROVE  DiskOK' /\ KeepsTrees
BY DEF fsVars, TypeOK, DiskOK, KeepsTrees

\* A counter that does not count stays in its bounds.
LEMMA CountersKept ==
  ASSUME TypeOK
  PROVE  /\ faults \in 0..MaxFaults
         /\ kept \subseteq Path
         /\ psrc \in Path \cup {Nowhere}
         /\ psrc # Nowhere => pdst \in Path
BY DEF TypeOK, RunOK, AttemptOK

\* A deletion keeps the types; what it removes is the subject of DeleteKeepsWork.
LEMMA DeleteStep ==
  ASSUME TypeOK, LeftKnown, NEW p \in Projects, Delete(p)
  PROVE  TypeOK' /\ LeftKnown'
<1> DEFINE d == local[p].path
<1>1. p \in DOMAIN local /\ d \in Path
  BY KnownPaths DEF Delete, IsNext, LeftKnown
<1>2. phase = "delete" /\ UNCHANGED <<work, latest, inputVars, countVars, faults>>
  BY DEF Delete
<1>3. CASE /\ KeepIt(p) /\ Done("delete", p)
           /\ UNCHANGED <<fsVars, scan, local, moveVars, failed, ret>>
  <2>1. kept' \subseteq Path
    BY <1>1, <1>3, CountersKept DEF KeepIt
  <2>2. QED
    BY <1>2, <1>3, <2>1, OperationSucceeds, DiskUntouched, CountersKept DEF moveVars
<1>4. CASE /\ RemoveTree(d) /\ Done("delete", p)
           /\ UNCHANGED <<scan, local, kept, moveVars, failed, ret>>
  <2>1. DiskOK'
    BY <1>1, <1>4, RemoveTreeDisk DEF TypeOK
  <2>2. QED
    BY <1>2, <1>4, <2>1, OperationSucceeds, CountersKept DEF moveVars
<1>5. CASE Fails /\ UNCHANGED fsVars
  BY <1>2, <1>5, OperationFails, DiskUntouched, CountersKept
<1>6. QED
  BY <1>3, <1>4, <1>5 DEF Delete

LEMMA ChangeRemoteStep ==
  ASSUME TypeOK, LeftKnown, NEW p \in Projects, ChangeRemote(p)
  PROVE  TypeOK' /\ LeftKnown' /\ KeepsTrees
<1>1. p \in DOMAIN manifest /\ manifest[p] \in Path
  BY KnownPaths DEF ChangeRemote, IsNext, LeftKnown
<1>2. phase = "change-remote" /\ UNCHANGED <<work, latest, inputVars, countVars, faults>>
  BY DEF ChangeRemote
<1>3. CASE /\ Done("change-remote", p)
           /\ UNCHANGED <<fsVars, scan, local, kept, moveVars, failed, ret>>
  BY <1>2, <1>3, OperationSucceeds, DiskUntouched, CountersKept DEF moveVars
<1>4. CASE Fails /\ UNCHANGED fsVars
  BY <1>2, <1>4, OperationFails, DiskUntouched, CountersKept
<1>5. CASE /\ WriteMetadata(p) /\ Done("change-remote", p)
           /\ UNCHANGED <<scan, local, kept, moveVars, failed, ret>>
  <2>1. DiskOK' /\ KeepsTrees
    BY <1>1, <1>2, <1>5, WriteMetadataDisk DEF TypeOK, KeepsTrees
  <2>2. QED
    BY <1>2, <1>5, <2>1, OperationSucceeds, CountersKept DEF moveVars
<1>6. QED
  BY <1>3, <1>4, <1>5 DEF ChangeRemote

\* syncProjectMaster and writeMetadata, at the end of a move or an update.
LEMMA SyncAndWriteStep ==
  ASSUME TypeOK, LeftKnown, NEW p \in Projects, p \in DOMAIN manifest,
         NEW ph \in {"move", "update"},
         phase = ph \/ (ph = "move" /\ phase = "moved"),
         SyncAndWrite(ph, p)
  PROVE  TypeOK' /\ LeftKnown' /\ KeepsTrees
<1>1. manifest[p] \in Path
  BY KnownPaths
<1>2. UNCHANGED <<work, latest, inputVars, countVars, faults>>
  BY DEF SyncAndWrite
<1>3. CASE WriteMetadata(p) /\ Done(ph, p) /\ UNCHANGED <<scan, local, kept, moveVars, failed, ret>>
  <2>1. DiskOK' /\ KeepsTrees
    BY <1>1, <1>2, <1>3, WriteMetadataDisk DEF TypeOK, KeepsTrees
  <2>2. QED
    BY <1>2, <1>3, <2>1, OperationSucceeds, CountersKept DEF moveVars
<1>4. CASE Fails /\ UNCHANGED fsVars
  BY <1>2, <1>4, OperationFails, DiskUntouched, CountersKept
<1>5. QED
  BY <1>3, <1>4 DEF SyncAndWrite

LEMMA NullStep ==
  ASSUME TypeOK, LeftKnown, NEW p \in Projects, Null(p)
  PROVE  TypeOK' /\ LeftKnown' /\ KeepsTrees
<1>1. manifest[p] \in Path
  BY KnownPaths DEF Null, IsNext, LeftKnown
<1>2. DiskOK' /\ KeepsTrees
  BY <1>1, WriteMetadataDisk DEF Null, TypeOK, KeepsTrees
<1>3. QED
  BY <1>2, OperationSucceeds, CountersKept DEF Null, moveVars
\* The source of a move is a path, whether it went with another or not.
LEMMA SourcePath ==
  ASSUME TypeOK, NEW p \in DOMAIN local
  PROVE  Source(p) \in Path
<1> DEFINE s == local[p].path
<1>1. s \in Path
  BY KnownPaths
<1>2. CASE WithParent(p)
  <2>1. pdst \in Path /\ psrc \in Seq(Nat)
    BY <1>2, CountersKept DEF WithParent, Nowhere, Path
  <2>2. SubSeq(s, Len(psrc) + 1, Len(s)) \in Seq(Nat)
    BY <1>1, <2>1, SubSeqProperties, LenProperties, ElementOfSeq DEF Path
  <2>3. QED
    BY <1>2, <2>1, <2>2, JoinPath DEF Source
<1>3. CASE ~WithParent(p)
  BY <1>1, <1>3 DEF Source
<1>4. QED
  BY <1>2, <1>3

LEMMA SetParentPaths ==
  ASSUME TypeOK, NEW p \in DOMAIN local, p \in DOMAIN manifest, SetParent(p)
  PROVE  psrc' \in Path \cup {Nowhere} /\ (psrc' # Nowhere => pdst' \in Path)
BY KnownPaths, CountersKept DEF SetParent

LEMMA MoveStep ==
  ASSUME TypeOK, LeftKnown, NEW p \in Projects, Move(p)
  PROVE  TypeOK' /\ LeftKnown' /\ KeepsTrees
<1> DEFINE s == Source(p)
<1>1. /\ phase = "move" /\ p \in left /\ p \in DOMAIN local /\ p \in DOMAIN manifest
      /\ UNCHANGED <<work, latest, inputVars, countVars, faults>>
  BY DEF Move, IsNext, LeftKnown
<1>2. s \in Path /\ SwapName(s) \in Path /\ dirs \subseteq Path
  BY <1>1, SourcePath, SwapNamePath DEF TypeOK, DiskOK
<1>3. CASE /\ SetParent(p) /\ Done("move", p)
           /\ UNCHANGED <<fsVars, moving, scan, local, kept, failed, ret>>
  BY <1>1, <1>3, OperationSucceeds, SetParentPaths, DiskUntouched, CountersKept
<1>4. CASE Fails /\ UNCHANGED fsVars
  BY <1>1, <1>4, OperationFails, DiskUntouched, CountersKept
<1>5. CASE /\ SetParent(p) /\ moving' = {<<p, s>>} /\ phase' \in {"moving", "moved"}
           /\ UNCHANGED fsVars \/ Rename(s, SwapName(s), dirs)
           /\ UNCHANGED <<scan, local, left, kept, failed, ret>>
  <2>1. DiskOK' /\ KeepsTrees
    <3>1. CASE UNCHANGED fsVars
      BY <1>1, <3>1, DiskUntouched
    <3>2. CASE Rename(s, SwapName(s), dirs)
      <4>1. bare' = bare
        BY <3>2 DEF Rename
      <4>2. QED
        BY <1>1, <1>2, <3>2, <4>1, RenameDisk DEF TypeOK, KeepsTrees
    <3>3. QED
      BY <1>5, <3>1, <3>2
  <2>2. AttemptOK'
    BY <1>2, <1>5, <1>1, SetParentPaths DEF TypeOK, AttemptOK
  <2>3. RunOK'
    BY <1>1, <1>5 DEF TypeOK, RunOK, inputVars, countVars
  <2>4. LeftKnown'
    BY <1>1, <1>5 DEF LeftKnown, inputVars
  <2>5. QED
    BY <2>1, <2>2, <2>3, <2>4 DEF TypeOK
<1>6. QED
  BY <1>3, <1>4, <1>5 DEF Move

LEMMA MoveInStep ==
  ASSUME TypeOK, LeftKnown, NEW p \in Projects, NEW src, <<p, src>> \in moving, MoveIn(p, src)
  PROVE  TypeOK' /\ LeftKnown' /\ KeepsTrees
<1> DEFINE d == manifest[p]
           ds == dirs \cup Ancestors(d)
<1>1. /\ phase = "moving" /\ UNCHANGED <<work, latest, inputVars, countVars>>
      /\ p \in DOMAIN manifest /\ src \in Path /\ d \in Path
  BY KnownPaths DEF MoveIn, LeftKnown, TypeOK, AttemptOK
<1>2. ds \in SUBSET Path /\ SwapName(src) \in Path
  BY <1>1, AroundPath, SwapNamePath DEF TypeOK, DiskOK
<1> HIDE DEF d, ds
<1>3. \A to \in Path : Rename(SwapName(src), to, ds) => DiskOK' /\ KeepsTrees
  <2>1. SUFFICES ASSUME NEW to \in Path, Rename(SwapName(src), to, ds)
                 PROVE  DiskOK' /\ KeepsTrees
    OBVIOUS
  <2>2. bare' = bare
    BY <2>1 DEF Rename
  <2>3. QED
    BY <1>1, <1>2, <2>1, <2>2, RenameDisk DEF TypeOK, KeepsTrees
<1>4. CASE /\ Rename(SwapName(src), d, ds) /\ phase' = "moved"
           /\ UNCHANGED <<scan, local, left, kept, moveVars, failed, ret, faults>>
  <2>1. AttemptOK'
    BY <1>4 DEF TypeOK, AttemptOK, moveVars
  <2>2. RunOK'
    BY <1>1, <1>4 DEF TypeOK, RunOK, inputVars, countVars
  <2>3. LeftKnown'
    BY <1>1, <1>4 DEF LeftKnown, inputVars, moveVars
  <2>4. QED
    BY <1>1, <1>3, <1>4, <2>1, <2>2, <2>3 DEF TypeOK
<1>5. CASE TakeBack(src, ds) /\ Fails /\ (UNCHANGED faults \/ Fault)
  <2>1. DiskOK' /\ KeepsTrees
    <3>1. CASE Rename(SwapName(src), src, ds)
      BY <1>1, <1>3, <3>1
    <3>2. CASE dirs' = ds /\ UNCHANGED <<at, meta, bare>>
      BY <1>1, <1>2, <3>2 DEF TypeOK, DiskOK, KeepsTrees
    <3>3. QED
      BY <1>5, <3>1, <3>2 DEF TakeBack
  <2>2. faults' \in 0..MaxFaults
    BY <1>5, FaultCounted, CountersKept
  <2>3. QED
    BY <1>1, <1>5, <2>1, <2>2, OperationFails
<1>6. CASE Fault /\ Fails /\ UNCHANGED fsVars
  BY <1>1, <1>6, FaultCounted, DiskUntouched, OperationFails
<1>7. QED
  BY <1>4, <1>5, <1>6 DEF MoveIn, d, ds

LEMMA MoveFinishStep ==
  ASSUME TypeOK, LeftKnown, NEW p \in Projects, NEW src, MoveFinish(p, src)
  PROVE  TypeOK' /\ LeftKnown' /\ KeepsTrees
<1>1. p \in DOMAIN manifest
  BY DEF MoveFinish, LeftKnown
<1>2. QED
  BY <1>1, SyncAndWriteStep DEF MoveFinish

LEMMA UpdateOpStep ==
  ASSUME TypeOK, LeftKnown, NEW p \in Projects, UpdateOp(p)
  PROVE  TypeOK' /\ LeftKnown' /\ KeepsTrees
<1>1. p \in DOMAIN manifest
  BY DEF UpdateOp, IsNext, LeftKnown
<1>2. QED
  BY <1>1, SyncAndWriteStep DEF UpdateOp
\* A new tree in the place of a create.
LEMMA FreshTreeDisk ==
  ASSUME TypeOK, NEW p \in Projects, EnoughCopies(p), NEW d \in Path,
         dirs' = dirs \cup Around(d),
         at' = [at EXCEPT ![Fresh(p)] = d],
         meta' = meta \/ \E m \in Meta : meta' = [meta EXCEPT ![Fresh(p)] = m],
         UNCHANGED <<bare, work>>
  PROVE  DiskOK' /\ KeepsTrees
<1> DEFINE f == Fresh(p)
<1>1. f \in Trees /\ at[f] = Nowhere
  BY FreshTree
<1>2. at' = [at EXCEPT ![f] = d]
  OBVIOUS
<1>3. meta' \in [Trees -> Meta \cup {NoMeta}]
  BY DEF TypeOK, DiskOK
<1>4. dirs' \subseteq Path
  BY AroundPath DEF TypeOK, DiskOK
<1> HIDE DEF f
<1>5. DiskOK'
  BY <1>1, <1>2, <1>3, <1>4 DEF TypeOK, DiskOK
<1>6. KeepsTrees
  BY <1>1, <1>2 DEF TypeOK, DiskOK, KeepsTrees
<1>7. QED
  BY <1>5, <1>6

LEMMA CreatesGoOnStep ==
  ASSUME TypeOK, LeftKnown, DiskOK', phase = "create",
         NEW rest \in SUBSET left, NEW bad \in BOOLEAN,
         CreatesGoOn(rest, bad), faults' \in 0..MaxFaults,
         UNCHANGED <<work, latest, inputVars, countVars>>
  PROVE  TypeOK' /\ LeftKnown'
<1>1. CASE rest # {}
  <2>1. AttemptOK'
    BY <1>1 DEF CreatesGoOn, TypeOK, AttemptOK, moveVars
  <2>2. RunOK'
    BY <1>1 DEF CreatesGoOn, TypeOK, RunOK, inputVars, countVars
  <2>3. LeftKnown'
    BY <1>1 DEF CreatesGoOn, LeftKnown, inputVars
  <2>4. QED
    BY <2>1, <2>2, <2>3 DEF TypeOK
<1>2. CASE /\ Enter(Number("null")) /\ failed' = FALSE
           /\ UNCHANGED <<scan, local, kept, moveVars, ret>>
  <2>1. phase' \in Range(Phases) /\ left' = OpsOf(phase')
    BY <1>2, Entered, PhaseNumbers
  <2>2. phase' \notin {"moving", "moved"}
    BY <2>1 DEF Range, Phases
  <2>3. LeftKnown'
    BY <1>2, <2>1, <2>2, OpsKnown DEF LeftKnown, inputVars
  <2>4. left' \subseteq Projects
    BY <2>1, OpsKnown, KnownPaths
  <2>5. AttemptOK'
    BY <1>2, <2>4 DEF TypeOK, AttemptOK, moveVars
  <2>6. RunOK'
    BY <1>2, <2>1 DEF TypeOK, RunOK, inputVars, countVars
  <2>7. QED
    BY <2>3, <2>5, <2>6 DEF TypeOK
<1>3. CASE Fails
  BY <1>3, OperationFails
<1>4. QED
  BY <1>1, <1>2, <1>3 DEF CreatesGoOn

LEMMA CreateStep ==
  ASSUME TypeOK, LeftKnown, NEW p \in Projects, Create(p)
  PROVE  TypeOK' /\ LeftKnown' /\ KeepsTrees
<1> DEFINE d == manifest[p]
           given == {q \in left : Under(d, manifest[q])}
<1>1. /\ phase = "create" /\ d \in Path
      /\ UNCHANGED <<work, latest, inputVars, countVars>>
      /\ failed \in BOOLEAN
  BY KnownPaths DEF Create, Ready, LeftKnown, TypeOK, AttemptOK
<1>2. left \ {p} \in SUBSET left /\ left \ given \in SUBSET left
  OBVIOUS
<1> HIDE DEF d, given
<1>3. CASE /\ EnoughCopies(p)
           /\ dirs' = dirs \cup Around(d)
           /\ at' = [at EXCEPT ![Fresh(p)] = d]
           /\ meta' = [meta EXCEPT ![Fresh(p)] = [key |-> p, path |-> d, remote |-> Remote(p)]]
           /\ UNCHANGED <<bare, faults>>
           /\ CreatesGoOn(left \ {p}, failed)
  <2>1. [key |-> p, path |-> d, remote |-> Remote(p)] \in Meta
    BY <1>1 DEF Meta, Remote
  <2>2. DiskOK' /\ KeepsTrees
    BY <1>1, <1>3, <2>1, FreshTreeDisk
  <2>3. QED
    BY <1>1, <1>2, <1>3, <2>2, CreatesGoOnStep, CountersKept
<1>4. CASE CreatesGoOn(left \ given, TRUE) /\ UNCHANGED <<fsVars, faults>>
  BY <1>1, <1>2, <1>4, CreatesGoOnStep, DiskUntouched, CountersKept
<1>5. CASE /\ Fault
           /\ dirs' = (dirs \cup Ancestors(d)) \ {d}
           /\ CreatesGoOn(left \ given, TRUE)
           /\ UNCHANGED <<at, meta, bare>>
  <2>1. DiskOK' /\ KeepsTrees
    BY <1>1, <1>5, AroundPath DEF TypeOK, DiskOK, KeepsTrees
  <2>2. QED
    BY <1>1, <1>2, <1>5, <2>1, CreatesGoOnStep, FaultCounted
<1>6. QED
  BY <1>3, <1>4, <1>5 DEF Create, d, given

LEMMA StatusStep ==
  ASSUME TypeOK, LeftKnown, Status
  PROVE  TypeOK' /\ LeftKnown' /\ KeepsTrees
<1>1. DiskOK' /\ KeepsTrees
  BY DiskUntouched DEF Status
<1>2. PICK r \in {"nil", "error"} : EndAttempt(r)
  BY DEF Status
<1>3. RunOK'
  BY <1>2, AttemptEnds DEF Status, TypeOK, RunOK, inputVars, countVars
<1>4. QED
  BY <1>1, <1>2, <1>3, AttemptEnds DEF TypeOK

LEMMA OpFailsStep ==
  ASSUME TypeOK, LeftKnown, OpFails
  PROVE  TypeOK' /\ LeftKnown' /\ KeepsTrees
BY DiskUntouched, FaultCounted, OperationFails DEF OpFails

LEMMA SnapshotStep ==
  ASSUME TypeOK, LeftKnown, Snapshot
  PROVE  TypeOK' /\ LeftKnown' /\ KeepsTrees
<1>1. DiskOK' /\ KeepsTrees
  BY DiskUntouched DEF Snapshot
<1>2. \A s \in latest' : IsLocals(s)
  BY LocalsFound DEF Snapshot, TypeOK, RunOK
<1>3. AttemptOK'
  BY DEF Snapshot, TypeOK, AttemptOK, moveVars
<1>4. RunOK'
  BY <1>2 DEF Snapshot, TypeOK, RunOK, inputVars, countVars
<1>5. QED
  BY <1>1, <1>3, <1>4 DEF TypeOK, Snapshot, LeftKnown

LEMMA CrashStep ==
  ASSUME TypeOK, LeftKnown, Crash
  PROVE  TypeOK' /\ LeftKnown' /\ KeepsTrees
<1>1. Forget /\ phase' = "idle" /\ UNCHANGED <<work, latest, inputVars, scan, runs, faults>>
  BY DEF Crash
<1>2. DiskOK' /\ KeepsTrees
  <2>1. CASE UNCHANGED fsVars
    BY <1>1, <2>1, DiskUntouched
  <2>2. CASE \E p \in left :
               /\ phase = "create" /\ Ready(p)
               /\ Exists(manifest[p]) => IsEmptyDir(manifest[p])
               /\ EnoughCopies(p)
               /\ dirs' = dirs \cup Around(manifest[p])
               /\ at' = [at EXCEPT ![Fresh(p)] = manifest[p]]
               /\ UNCHANGED <<meta, bare>>
    <3>1. PICK p \in left :
               /\ phase = "create" /\ EnoughCopies(p)
               /\ dirs' = dirs \cup Around(manifest[p])
               /\ at' = [at EXCEPT ![Fresh(p)] = manifest[p]]
               /\ UNCHANGED <<meta, bare>>
      BY <2>2
    <3>2. p \in Projects /\ manifest[p] \in Path
      BY <3>1, KnownPaths DEF LeftKnown
    <3>3. QED
      BY <1>1, <3>1, <3>2, FreshTreeDisk
  <2>3. QED
    BY <2>1, <2>2 DEF Crash
<1>3. DOMAIN <<>> = {}
  OBVIOUS
<1>4. AttemptOK'
  BY <1>1, <1>3 DEF Forget, AttemptOK, IsLocals, Nowhere, NoMove
<1>5. RunOK'
  BY <1>1, UpdateAssumption DEF Crash, TypeOK, RunOK, inputVars
<1>6. QED
  BY <1>1, <1>2, <1>4, <1>5 DEF TypeOK, LeftKnown

\* The user works in checkouts on the disk.
LEMMA UserWorksStep ==
  ASSUME TypeOK, LeftKnown, NEW t \in Trees, UserWorks(t)
  PROVE  TypeOK' /\ LeftKnown' /\ (WorkInCheckouts => WorkInCheckouts')
<1>1. DiskOK' /\ AttemptOK' /\ RunOK'
  BY DEF UserWorks, TypeOK, DiskOK, AttemptOK, RunOK, fsVars, moveVars, inputVars, countVars
<1>2. LeftKnown'
  BY DEF UserWorks, LeftKnown, moveVars, inputVars
<1>3. WorkInCheckouts => WorkInCheckouts'
  BY DEF UserWorks, OnDisk, WorkInCheckouts, WorkSurvives, fsVars
<1>4. QED
  BY <1>1, <1>2, <1>3 DEF TypeOK
\* Where no .gitignore hides a nested checkout, a directory is only removed when git
\* knows of no work in it, and then there is none.
LEMMA DeleteKeepsWork ==
  ASSUME TypeOK, LeftKnown, WorkInCheckouts, Covers = {},
         NEW p \in Projects, Delete(p)
  PROVE  WorkInCheckouts'
<1> DEFINE d == local[p].path
<1>1. d \in Path /\ work' = work /\ work \subseteq Trees
  BY KnownPaths DEF Delete, IsNext, LeftKnown, TypeOK, RunOK
<1>2. CASE UNCHANGED fsVars
  BY <1>1, <1>2, DiskUntouched, KeepsWork
<1>3. CASE GitWorks(d) /\ ~HasWork(d) /\ RemoveTree(d)
  <2>1. ASSUME NEW t \in work, Under(d, at[t])
        PROVE  FALSE
    <3>1. t \in OnDisk \ bare
      BY <1>1, <2>1 DEF WorkInCheckouts, WorkSurvives, OnDisk
    <3>2. PICK r \in Repo(d) : TRUE
      BY <1>3 DEF GitWorks
    <3>3. t \in Repo(d)
      BY <1>3, <2>1, <3>1, <3>2 DEF HasWork
    <3>4. QED
      BY <1>3, <3>3 DEF HasWork
  <2>2. \A t \in work : at'[t] # Nowhere
    BY <1>1, <1>3, <2>1, RemoveTreeDisk DEF TypeOK, WorkInCheckouts, WorkSurvives
  <2>3. bare' \subseteq bare
    BY <1>1, <1>3, RemoveTreeDisk DEF TypeOK
  <2>4. QED
    BY <1>1, <2>2, <2>3 DEF WorkInCheckouts, WorkSurvives
<1>4. QED
  BY <1>2, <1>3 DEF Delete

-----------------------------------------------------------------------------
\* The first state has the types, and no work yet.
LEMMA Initially == Init => TypeOK /\ LeftKnown /\ WorkInCheckouts
<1> SUFFICES ASSUME Init PROVE TypeOK /\ LeftKnown /\ WorkInCheckouts
  OBVIOUS
<1>1. at \in [Trees -> Path \cup {Nowhere}]
  BY UpdateAssumption DEF Init, Of
<1>2. meta \in [Trees -> Meta \cup {NoMeta}]
  <2>1. ASSUME NEW t \in Trees, at[t] # Nowhere
        PROVE  [key |-> Of(t), path |-> at[t], remote |-> "old"] \in Meta
    BY <1>1, <2>1 DEF Trees, Of, Meta
  <2>2. QED
    BY <2>1 DEF Init
<1>3. dirs \subseteq Path
  BY UpdateAssumption, AroundPath DEF Init
<1>4. DiskOK
  BY <1>1, <1>2, <1>3 DEF Init, DiskOK
<1>5. DOMAIN <<>> = {}
  OBVIOUS
<1>6. AttemptOK
  BY <1>5 DEF Init, AttemptOK, IsLocals, NoMove, Nowhere
<1>7. Found \subseteq Meta
  BY <1>2 DEF Found, Seen
<1>8. IsLocals(ByKey(Found))
  BY <1>7 DEF IsLocals, ByKey, Meta
<1>9. RunOK
  <2>1. DOMAIN manifest = {}
    BY <1>5 DEF Init
  <2>2. runs \in 0..MaxRuns /\ crashes \in 0..MaxCrashes /\ faults \in 0..MaxFaults
    BY UpdateAssumption DEF Init
  <2>3. \A s \in latest : IsLocals(s)
    BY <1>8 DEF Init
  <2>4. QED
    BY <2>1, <2>2, <2>3 DEF Init, RunOK
<1>10. QED
  BY <1>4, <1>6, <1>9 DEF TypeOK, LeftKnown, Init, WorkInCheckouts, WorkSurvives

\* A step keeps the types, and the trees but for those a deletion removes.
LEMMA EachStep ==
  ASSUME TypeOK, LeftKnown, [Next]_vars
  PROVE  /\ TypeOK' /\ LeftKnown'
         /\ \/ KeepsTrees
            \/ \E t \in Trees : UserWorks(t)
            \/ \E p \in Projects : Delete(p)
<1>1. CASE Begin
  BY <1>1, BeginStep
<1>2. CASE Load
  BY <1>2, LoadStep
<1>3. CASE Test
  BY <1>3, TestStep
<1>4. ASSUME NEW p \in Projects, Operation(p)
      PROVE  TypeOK' /\ LeftKnown' /\ (KeepsTrees \/ Delete(p))
  <2>1. CASE Delete(p)
    BY <2>1, DeleteStep
  <2>2. CASE ChangeRemote(p)
    BY <2>2, ChangeRemoteStep
  <2>3. CASE Move(p)
    BY <2>3, MoveStep
  <2>4. CASE \E m \in moving : MoveIn(p, m[2]) \/ MoveFinish(p, m[2])
    <3>1. PICK m \in moving : MoveIn(p, m[2]) \/ MoveFinish(p, m[2])
      BY <2>4
    <3>2. MoveIn(p, m[2]) => <<p, m[2]>> \in moving
      BY DEF MoveIn
    <3>3. QED
      BY <3>1, <3>2, MoveInStep, MoveFinishStep
  <2>5. CASE UpdateOp(p)
    BY <2>5, UpdateOpStep
  <2>6. CASE Create(p)
    BY <2>6, CreateStep
  <2>7. CASE Null(p)
    BY <2>7, NullStep
  <2>8. QED
    BY <1>4, <2>1, <2>2, <2>3, <2>4, <2>5, <2>6, <2>7 DEF Operation
<1>5. CASE Status
  BY <1>5, StatusStep
<1>6. CASE Snapshot
  BY <1>6, SnapshotStep
<1>7. CASE OpFails
  BY <1>7, OpFailsStep
<1>8. CASE Crash
  BY <1>8, CrashStep
<1>9. CASE \E t \in Trees : UserWorks(t)
  BY <1>9, UserWorksStep
<1>10. CASE UNCHANGED vars
  <2>1. DiskOK' /\ AttemptOK' /\ RunOK' /\ LeftKnown'
    BY <1>10 DEF vars, TypeOK, DiskOK, AttemptOK, RunOK, LeftKnown
  <2>2. KeepsTrees
    BY <1>10 DEF vars, KeepsTrees
  <2>3. QED
    BY <2>1, <2>2 DEF TypeOK
<1>11. QED
  BY <1>1, <1>2, <1>3, <1>4, <1>5, <1>6, <1>7, <1>8, <1>9, <1>10 DEF Next, Step, Halted

\* A step keeps the work, where no .gitignore hides it.
LEMMA EachStepKeepsWork ==
  ASSUME TypeOK, LeftKnown, WorkInCheckouts, Covers = {}, [Next]_vars
  PROVE  WorkInCheckouts'
BY EachStep, KeepsWork, UserWorksStep, DeleteKeepsWork

\* TypeOK holds in every state of every update, whatever the workspace, the manifests
\* and the bounds.
THEOREM TypeCorrect == Spec => []TypeOK
<1>1. Init => TypeOK /\ LeftKnown
  BY Initially
<1>2. (TypeOK /\ LeftKnown) /\ [Next]_vars => (TypeOK /\ LeftKnown)'
  BY EachStep
<1>3. QED
  BY <1>1, <1>2, PTL DEF Spec

\* Where no .gitignore names a nested project, no update ever loses unsaved work: no
\* sequence of runs, of changes of the manifest, of failures of git or the file system
\* and of crashes between any two steps removes a checkout with branches, changes or
\* untracked files (deleteOperation.Run and renameDir).
THEOREM WorkNeverLost == Covers = {} => (Spec => []WorkSurvives)
<1> SUFFICES ASSUME Covers = {} PROVE Spec => []WorkSurvives
  OBVIOUS
<1> DEFINE Inv == TypeOK /\ LeftKnown /\ WorkInCheckouts
<1>1. Init => Inv
  BY Initially
<1>2. Inv /\ [Next]_vars => Inv'
  BY EachStep, EachStepKeepsWork
<1>3. Inv => WorkSurvives
  BY DEF WorkInCheckouts
<1>4. QED
  BY <1>1, <1>2, <1>3, PTL DEF Spec
-----------------------------------------------------------------------------
(* The swap directory.                                                       *)

\* Whether a path is in the swap directory is up to what it begins with.
LEMMA SwapByHead ==
  ASSUME NEW p \in Path
  PROVE  InSwap(p) <=> p[1] = SwapMark
BY DEF InSwap, Path

\* The directories around a path are in the swap directory if it is.
LEMMA AncestorsSwap ==
  ASSUME NEW p \in Path, NEW a \in Around(p)
  PROVE  a \in Path /\ (InSwap(a) <=> InSwap(p))
<1>1. a \in Path
  BY AroundPath
<1>2. CASE a = p
  BY <1>1, <1>2
<1>3. CASE a \in Ancestors(p)
  <2>1. PICK j \in DOMAIN p : p[j] = Sep /\ a = SubSeq(p, 1, j - 1)
    BY <1>3 DEF Ancestors
  <2>2. p \in Seq(Nat) /\ j \in 1..Len(p) /\ j # 1 /\ Len(p) \in Nat
    BY <2>1, LenProperties DEF Path
  <2>3. a[1] = p[1]
    BY <2>1, <2>2, SubSeqProperties
  <2>4. QED
    BY <1>1, <2>3, SwapByHead
<1>4. QED
  BY <1>2, <1>3 DEF Around

\* A path that begins with the characters of d and a separator lies under d.
BeginsUnder(d, p) ==
  /\ Len(d) + 1 <= Len(p)
  /\ p[Len(d) + 1] = Sep
  /\ \A i \in 1..Len(d) : p[i] = d[i]

LEMMA BeginningUnder ==
  ASSUME NEW d \in Seq(Nat), NEW p \in Path, BeginsUnder(d, p)
  PROVE  Under(d, p)
<1> DEFINE n == Len(d) + 1
           ds == Append(d, Sep)
<1>1. p \in Seq(Nat) /\ Len(p) \in Nat /\ Len(d) \in Nat /\ n \in Nat
  BY LenProperties DEF Path
<1>2. /\ ds \in Seq(Nat) /\ Len(ds) = n
      /\ \A i \in 1..n : ds[i] = p[i]
  BY <1>1, AppendProperties DEF Sep, BeginsUnder
<1>3. /\ SubSeq(ds, 1, n) \in Seq(Nat) /\ Len(SubSeq(ds, 1, n)) = n
      /\ \A i \in 1..n : SubSeq(ds, 1, n)[i] = ds[i]
  <2>1. \A i \in 1..n : ds[i] \in Nat
    BY <1>2, ElementOfSeq
  <2>2. QED
    BY <1>1, <2>1, SubSeqProperties
<1>4. /\ SubSeq(p, 1, n) \in Seq(Nat) /\ Len(SubSeq(p, 1, n)) = n
      /\ \A i \in 1..n : SubSeq(p, 1, n)[i] = p[i]
  <2>1. \A i \in 1..n : p[i] \in Nat
    BY <1>1, ElementOfSeq DEF BeginsUnder
  <2>2. QED
    BY <1>1, <2>1, SubSeqProperties
<1>5. SubSeq(ds, 1, n) = SubSeq(p, 1, n)
  BY <1>2, <1>3, <1>4, SeqEqual
<1>6. QED
  BY <1>2, <1>5 DEF Under, IsPrefix, BeginsUnder

\* What lies around a path is a beginning of it, and shorter.
LEMMA AncestorsAround ==
  ASSUME NEW p \in Path, NEW a \in Ancestors(p)
  PROVE  Under(a, p) /\ a # p
<1>1. PICK j \in DOMAIN p : p[j] = Sep /\ a = SubSeq(p, 1, j - 1)
  BY DEF Ancestors
<1>2. p \in Seq(Nat) /\ j \in 1..Len(p) /\ j # 1 /\ Len(p) \in Nat
  BY <1>1, LenProperties DEF Path
<1>3. a \in Seq(Nat) /\ Len(a) = j - 1 /\ \A i \in 1..(j - 1) : a[i] = p[i]
  <2>1. \A i \in 1..(j - 1) : p[i] \in Nat
    BY <1>2, ElementOfSeq
  <2>2. QED
    BY <1>1, <1>2, <2>1, SubSeqProperties
<1>4. BeginsUnder(a, p)
  BY <1>1, <1>2, <1>3 DEF BeginsUnder
<1>5. a # p
  BY <1>2, <1>3
<1>6. QED
  BY <1>3, <1>4, <1>5, BeginningUnder

\* What lies under a directory begins with it.
LEMMA UnderBegins ==
  ASSUME NEW d \in Path, NEW p \in Path, Under(d, p)
  PROVE  /\ InSwap(p) <=> InSwap(d)
         /\ p # d => Len(p) > Len(d) /\ p[Len(d) + 1] = Sep
<1>1. d \in Seq(Nat) /\ p \in Seq(Nat) /\ Len(d) \in Nat /\ Len(p) \in Nat /\ Len(d) # 0
  BY LenProperties, EmptySeq DEF Path
<1>2. CASE p = d
  BY <1>2
<1>3. CASE p # d
  <2> DEFINE n == Len(d) + 1
             ds == Append(d, Sep)
  <2>1. /\ ds \in Seq(Nat) /\ Len(ds) = n /\ ds[n] = Sep /\ ds[1] = d[1]
    BY <1>1, AppendProperties DEF Sep
  <2>2. Len(ds) <= Len(p) /\ SubSeq(ds, 1, Len(ds)) = SubSeq(p, 1, Len(ds))
    BY <1>3 DEF Under, IsPrefix
  <2>3. \A i \in 1..n : SubSeq(ds, 1, n)[i] = ds[i]
    BY <1>1, <2>1, SubSeqProperties
  <2>4. n <= Len(p)
    BY <2>1, <2>2
  <2>5. \A i \in 1..n : SubSeq(p, 1, n)[i] = p[i]
    BY <1>1, <2>4, SubSeqProperties
  <2>6. \A i \in 1..n : p[i] = ds[i]
    BY <2>1, <2>2, <2>3, <2>5
  <2>7. 1 \in 1..n /\ n \in 1..n /\ Len(p) > Len(d)
    BY <1>1, <2>4
  <2>8. p[1] = d[1] /\ p[n] = Sep
    BY <2>1, <2>6, <2>7
  <2>9. QED
    BY <2>7, <2>8, SwapByHead
<1>4. QED
  BY <1>2, <1>3


\* What is carried along goes where it is carried.
LEMMA CarriedSwap ==
  ASSUME NEW p \in Path, NEW src \in Path, NEW dst \in Path
  PROVE  /\ Carried(p, src, dst) \in Path
         /\ InSwap(Carried(p, src, dst)) <=> InSwap(dst)
         /\ Under(src, p) => Under(dst, Carried(p, src, dst))
<1> DEFINE rest == SubSeq(p, Len(src) + 1, Len(p))
           c == Carried(p, src, dst)
<1>1. /\ src \in Seq(Nat) /\ p \in Seq(Nat) /\ dst \in Seq(Nat)
      /\ Len(src) \in Nat /\ Len(p) \in Nat /\ Len(dst) \in Nat /\ Len(dst) # 0
  BY LenProperties, EmptySeq DEF Path
<1>2. rest \in Seq(Nat) /\ Len(rest) \in Nat
  <2>1. \A i \in (Len(src) + 1)..Len(p) : p[i] \in Nat
    BY <1>1, ElementOfSeq
  <2>2. rest \in Seq(Nat)
    BY <1>1, <2>1, SubSeqProperties
  <2>3. QED
    BY <2>2, LenProperties
<1>3. c = dst \o rest
  BY DEF Carried
<1>4. c \in Path
  BY CarriedPath
<1> HIDE DEF rest, c
<1>5. /\ Len(c) = Len(dst) + Len(rest)
      /\ \A i \in 1..(Len(dst) + Len(rest)) : c[i] = IF i <= Len(dst) THEN dst[i] ELSE rest[i - Len(dst)]
  BY <1>1, <1>2, <1>3, ConcatProperties
<1>6. c[1] = dst[1]
  BY <1>1, <1>2, <1>5
<1>7. InSwap(c) <=> InSwap(dst)
  BY <1>4, <1>6, SwapByHead
<1>8. ASSUME Under(src, p) PROVE Under(dst, c)
  <2>1. CASE p = src
    <3>1. rest = <<>>
      BY <1>1, <2>1, SubSeqEmpty DEF rest
    <3>2. QED
      BY <1>1, <1>3, <3>1, ConcatEmptySeq DEF Under
  <2>2. CASE p # src
    <3>1. Len(p) > Len(src) /\ p[Len(src) + 1] = Sep
      BY <1>8, <2>2, UnderBegins
    <3>2. Len(rest) = Len(p) - Len(src) /\ rest[1] = p[Len(src) + 1]
      <4>1. \A i \in (Len(src) + 1)..Len(p) : p[i] \in Nat
        BY <1>1, ElementOfSeq
      <4>2. /\ Len(rest) = IF Len(src) + 1 <= Len(p) THEN Len(p) - (Len(src) + 1) + 1 ELSE 0
            /\ \A i \in 1..(Len(p) - (Len(src) + 1) + 1) : rest[i] = p[Len(src) + 1 + i - 1]
        BY <1>1, <4>1, SubSeqProperties DEF rest
      <4>3. 1 \in 1..(Len(p) - (Len(src) + 1) + 1) /\ Len(src) + 1 + 1 - 1 = Len(src) + 1
        BY <1>1, <3>1
      <4>4. rest[1] = p[Len(src) + 1]
        BY <4>2, <4>3
      <4>5. Len(rest) = Len(p) - Len(src)
        BY <1>1, <3>1, <4>2
      <4>6. QED
        BY <4>4, <4>5
    <3> DEFINE n == Len(dst) + 1
    <3>3. n \in Nat /\ n <= Len(c) /\ c[n] = Sep /\ \A i \in 1..Len(dst) : c[i] = dst[i]
      <4>1. Len(rest) >= 1 /\ rest[1] = Sep
        BY <1>1, <3>1, <3>2
      <4>2. n \in 1..(Len(dst) + Len(rest)) /\ ~(n <= Len(dst)) /\ n - Len(dst) = 1
        BY <1>1, <1>2, <4>1
      <4>3. c[n] = Sep
        BY <1>5, <4>1, <4>2
      <4>4. \A i \in 1..Len(dst) : i \in 1..(Len(dst) + Len(rest)) /\ i <= Len(dst)
        BY <1>1, <1>2
      <4>5. QED
        BY <1>1, <1>5, <4>2, <4>3, <4>4
    <3>4. BeginsUnder(dst, c)
      BY <3>3 DEF BeginsUnder
    <3>5. QED
      BY <1>1, <1>4, <3>4, BeginningUnder
  <2>3. QED
    BY <2>1, <2>2
<1>9. QED
  BY <1>4, <1>7, <1>8 DEF c

\* Joining goes below what is joined to.
LEMMA JoinSwap ==
  ASSUME NEW dst \in Path, NEW rest \in Seq(Nat)
  PROVE  Join(dst, rest) \in Path /\ (InSwap(Join(dst, rest)) <=> InSwap(dst))
<1>1. dst \in Seq(Nat) /\ Len(dst) \in Nat /\ Len(dst) # 0 /\ Len(rest) \in Nat
  BY LenProperties, EmptySeq DEF Path
<1>2. ASSUME NEW d \in Seq(Nat), Len(d) \in Nat, Len(d) # 0, d[1] = dst[1]
      PROVE  (d \o rest)[1] = dst[1]
  BY <1>1, <1>2, ConcatProperties
<1>3. /\ Append(dst, Sep) \in Seq(Nat) /\ Len(Append(dst, Sep)) = Len(dst) + 1
      /\ Append(dst, Sep)[1] = dst[1]
  BY <1>1, AppendProperties DEF Sep
<1>4. (Append(dst, Sep) \o rest)[1] = dst[1]
  <2>1. Len(Append(dst, Sep)) \in Nat /\ Len(Append(dst, Sep)) # 0
    BY <1>1, <1>3
  <2>2. QED
    BY <1>2, <1>3, <2>1
<1>5. (dst \o rest)[1] = dst[1]
  BY <1>1, <1>2
<1>6. Join(dst, rest)[1] = dst[1]
  BY <1>4, <1>5 DEF Join
<1>7. QED
  BY <1>6, JoinPath, SwapByHead

\* The entries of the swap directory are in it.
LEMMA SwapNameSwap ==
  ASSUME NEW p \in Path
  PROVE  SwapName(p) \in Path /\ InSwap(SwapName(p))
<1> DEFINE name == [i \in DOMAIN p |-> IF p[i] = Sep THEN SwapMark ELSE p[i]]
<1>1. p \in Seq(Nat) /\ Len(p) \in Nat /\ DOMAIN p = 1..Len(p)
  BY LenProperties DEF Path
<1>2. name \in Seq(Nat) /\ Len(name) \in Nat
  <2>1. name \in Seq(Nat)
    BY <1>1, ElementOfSeq DEF SwapMark
  <2>2. QED
    BY <2>1, LenProperties
<1> HIDE DEF name
<1>3. <<SwapMark>> \in Seq(Nat) /\ Len(<<SwapMark>>) = 1 /\ <<SwapMark>>[1] = SwapMark
  BY DEF SwapMark
<1>4. (<<SwapMark>> \o name)[1] = SwapMark
  <2>1. \A i \in 1 .. 1 + Len(name) : (<<SwapMark>> \o name)[i] = IF i <= 1 THEN <<SwapMark>>[i] ELSE name[i - 1]
    BY <1>2, <1>3, ConcatProperties
  <2>2. 1 \in 1 .. 1 + Len(name)
    BY <1>2
  <2>3. QED
    BY <1>3, <2>1, <2>2
<1>5. SwapName(p)[1] = SwapMark
  BY <1>4 DEF SwapName, name
<1>6. QED
  BY <1>5, SwapNamePath, SwapByHead

\* No project is, or is to be, in jiri's own swap directory.
NoProjectInSwap ==
  /\ \A p \in DOMAIN Start : ~InSwap(Start[p])
  /\ \A m \in Manifests : \A p \in DOMAIN m : ~InSwap(m[p])

\* Nor is one that a run knows of.
PathsOutside ==
  /\ \A p \in DOMAIN local : ~InSwap(local[p].path)
  /\ \A s \in latest : \A p \in DOMAIN s : ~InSwap(s[p].path)
  /\ \A p \in DOMAIN manifest : ~InSwap(manifest[p])
  /\ psrc # Nowhere => ~InSwap(pdst)
  /\ \A m \in moving : ~InSwap(m[2])

\* Between the two renames of a move nothing is in the swap directory but what the first
\* has put there, and nothing is left where it was; at all other times nothing is in it.
SwapUsed ==
  faults = 0 /\ crashes = 0 =>
    IF phase = "moving"
    THEN \A m \in moving : \A d \in dirs : (InSwap(d) => Under(SwapName(m[2]), d)) /\ ~Under(m[2], d)
    ELSE \A d \in dirs : ~InSwap(d)

LEMMA SwapAtRest ==
  ASSUME SwapUsed, phase # "moving", phase' # "moving", UNCHANGED crashes,
         UNCHANGED faults \/ faults' # 0,
         \A d \in dirs' : d \in dirs \/ ~InSwap(d)
  PROVE  SwapUsed'
BY DEF SwapUsed

\* Begin alone takes a manifest, Snapshot alone writes the latest snapshot; an attempt that
\* ends forgets the rest.
LEMMA PathsKept ==
  ASSUME PathsOutside, UNCHANGED <<latest, manifest>>, Forget \/ UNCHANGED <<local, moveVars>>
  PROVE  PathsOutside'
<1>1. DOMAIN <<>> = {}
  OBVIOUS
<1>2. CASE Forget
  BY <1>1, <1>2 DEF PathsOutside, Forget, NoMove, Nowhere
<1>3. CASE UNCHANGED <<local, moveVars>>
  BY <1>3 DEF PathsOutside, moveVars
<1>4. QED
  BY <1>2, <1>3

\* No step of a move begins where an attempt or an operation ends.
LEMMA NotMoving ==
  /\ \A r : EndAttempt(r) => Forget /\ phase' # "moving"
  /\ Fails => Forget /\ phase' # "moving"
  /\ \A ph \in {"delete", "change-remote", "move", "update", "create", "null"} :
       \A p : Done(ph, p) => phase' # "moving"
<1>1. \A r : EndAttempt(r) => Forget /\ phase' # "moving"
  BY DEF EndAttempt
<1>2. ASSUME NEW ph \in {"delete", "change-remote", "move", "update", "create", "null"}, NEW p, Done(ph, p)
      PROVE  phase' # "moving"
  <2>1. CASE left = {p}
    <3>1. Number(ph) + 1 \in 1..7
      BY PhaseNumbers
    <3>2. phase' \in Range(Phases)
      BY <1>2, <2>1, <3>1, Entered DEF Done
    <3>3. QED
      BY <3>2 DEF Range, Phases
  <2>2. CASE left # {p}
    BY <1>2, <2>2 DEF Done
  <2>3. QED
    BY <2>1, <2>2
<1>3. QED
  BY <1>1, <1>2 DEF Fails

\* What is found on the disk is outside.
LEMMA FoundOutside ==
  ASSUME TypeOK, PathsOutside
  PROVE  /\ \A p \in DOMAIN ByKey(Found) : ~InSwap(ByKey(Found)[p].path)
         /\ \A p \in DOMAIN LocalProjects : ~InSwap(LocalProjects[p].path)
<1>1. \A m \in Found : ~InSwap(m.path)
  BY DEF Found, Seen
<1>2. \A p \in DOMAIN ByKey(Found) : ByKey(Found)[p] \in Found
  BY DEF ByKey
<1>3. \A p \in DOMAIN ByKey(Found) : ~InSwap(ByKey(Found)[p].path)
  BY <1>1, <1>2
<1>4. FromSnapshot => \E s \in latest : s = LocalProjects
  BY DEF FromSnapshot, LocalProjects
<1>5. \A p \in DOMAIN LocalProjects : ~InSwap(LocalProjects[p].path)
  BY <1>3, <1>4 DEF PathsOutside, LocalProjects
<1>6. QED
  BY <1>3, <1>5

\* Metadata is written, and a directory made, where the manifest says.
LEMMA WriteMetadataOutside ==
  ASSUME TypeOK, PathsOutside, NEW p \in DOMAIN manifest
  PROVE  /\ manifest[p] \in Path /\ ~InSwap(manifest[p])
         /\ \A d \in Around(manifest[p]) : ~InSwap(d)
         /\ WriteMetadata(p) => \A d \in dirs' : d \in dirs \/ ~InSwap(d)
<1>1. manifest[p] \in Path /\ ~InSwap(manifest[p])
  BY KnownPaths DEF PathsOutside
<1>2. \A d \in Around(manifest[p]) : ~InSwap(d)
  BY <1>1, AncestorsSwap
<1>3. QED
  BY <1>1, <1>2 DEF WriteMetadata

LEMMA SyncAndWriteSwap ==
  ASSUME TypeOK, PathsOutside, SwapUsed, phase # "moving", NEW p \in DOMAIN manifest,
         NEW ph \in {"update", "move"}, SyncAndWrite(ph, p)
  PROVE  PathsOutside' /\ SwapUsed'
<1>1. UNCHANGED <<latest, manifest, crashes, faults>>
  BY DEF SyncAndWrite, inputVars, countVars
<1>2. CASE WriteMetadata(p) /\ Done(ph, p) /\ UNCHANGED <<local, moveVars>>
  <2>1. phase' # "moving"
    BY <1>2, NotMoving
  <2>2. QED
    BY <1>1, <1>2, <2>1, PathsKept, SwapAtRest, WriteMetadataOutside
<1>3. CASE Fails /\ UNCHANGED fsVars
  BY <1>1, <1>3, NotMoving, PathsKept, SwapAtRest DEF fsVars
<1>4. QED
  BY <1>2, <1>3 DEF SyncAndWrite

\* A delete takes directories away.
LEMMA DeleteSwap ==
  ASSUME TypeOK, PathsOutside, SwapUsed, NEW p, Delete(p)
  PROVE  PathsOutside' /\ SwapUsed'
<1>1. UNCHANGED <<latest, manifest, crashes, faults>> /\ phase # "moving"
  BY DEF Delete, inputVars, countVars
<1>2. dirs' \subseteq dirs
  BY DEF Delete, RemoveTree, fsVars
<1>3. phase' # "moving" /\ (Forget \/ UNCHANGED <<local, moveVars>>)
  BY NotMoving DEF Delete
<1>4. QED
  BY <1>1, <1>2, <1>3, PathsKept, SwapAtRest

LEMMA ChangeRemoteSwap ==
  ASSUME TypeOK, LeftKnown, PathsOutside, SwapUsed, NEW p, ChangeRemote(p)
  PROVE  PathsOutside' /\ SwapUsed'
<1>1. UNCHANGED <<latest, manifest, crashes, faults>> /\ phase # "moving" /\ p \in DOMAIN manifest
  BY DEF ChangeRemote, IsNext, LeftKnown, inputVars, countVars
<1>2. \A d \in dirs' : d \in dirs \/ ~InSwap(d)
  BY <1>1, WriteMetadataOutside DEF ChangeRemote, fsVars
<1>3. phase' # "moving" /\ (Forget \/ UNCHANGED <<local, moveVars>>)
  BY NotMoving DEF ChangeRemote
<1>4. QED
  BY <1>1, <1>2, <1>3, PathsKept, SwapAtRest

LEMMA NullSwap ==
  ASSUME TypeOK, LeftKnown, PathsOutside, SwapUsed, NEW p, Null(p)
  PROVE  PathsOutside' /\ SwapUsed'
<1>1. UNCHANGED <<latest, manifest, crashes, faults>> /\ phase # "moving" /\ p \in DOMAIN manifest
  BY DEF Null, IsNext, LeftKnown, inputVars, countVars
<1>2. QED
  BY <1>1, NotMoving, WriteMetadataOutside, PathsKept, SwapAtRest DEF Null

LEMMA CreateSwap ==
  ASSUME TypeOK, LeftKnown, PathsOutside, SwapUsed, NEW p, Create(p)
  PROVE  PathsOutside' /\ SwapUsed'
<1> DEFINE d == manifest[p]
<1>1. /\ UNCHANGED <<latest, manifest, crashes>> /\ phase # "moving" /\ p \in DOMAIN manifest
      /\ UNCHANGED faults \/ Fault
  BY DEF Create, Ready, LeftKnown, inputVars, countVars
<1>2. UNCHANGED faults \/ faults' # 0
  BY <1>1 DEF Fault, TypeOK, RunOK
<1>3. \A e \in dirs' : e \in dirs \cup Around(d)
  BY DEF Create, Around, fsVars
<1>4. \A e \in dirs' : e \in dirs \/ ~InSwap(e)
  BY <1>1, <1>3, WriteMetadataOutside
<1>5. ASSUME NEW rest, NEW bad, CreatesGoOn(rest, bad)
      PROVE  phase' # "moving" /\ (Forget \/ UNCHANGED <<local, moveVars>>)
  <2>1. CASE UNCHANGED <<phase, local, moveVars>>
    BY <1>1, <2>1
  <2>2. CASE Enter(Number("null")) /\ UNCHANGED <<local, moveVars>>
    <3>1. Number("null") \in 1..7
      BY PhaseNumbers
    <3>2. phase' \in Range(Phases)
      BY <2>2, <3>1, Entered
    <3>3. QED
      BY <2>2, <3>2 DEF Range, Phases
  <2>3. CASE Fails
    BY <2>3, NotMoving
  <2>4. QED
    BY <1>5, <2>1, <2>2, <2>3 DEF CreatesGoOn
<1>6. phase' # "moving" /\ (Forget \/ UNCHANGED <<local, moveVars>>)
  BY <1>5 DEF Create
<1>7. QED
  BY <1>1, <1>2, <1>4, <1>6, PathsKept, SwapAtRest

LEMMA BeginSwap ==
  ASSUME NoProjectInSwap, PathsOutside, SwapUsed, Begin
  PROVE  PathsOutside' /\ SwapUsed'
<1>1. PathsOutside'
  BY DEF PathsOutside, Begin, NoProjectInSwap, moveVars
<1>2. SwapUsed'
  BY SwapAtRest DEF Begin, fsVars
<1>3. QED
  BY <1>1, <1>2

LEMMA LoadSwap ==
  ASSUME TypeOK, PathsOutside, SwapUsed, Load
  PROVE  PathsOutside' /\ SwapUsed'
<1>1. UNCHANGED <<dirs, latest, manifest, crashes>> /\ phase # "moving"
  BY DEF Load, fsVars, inputVars, countVars
<1>2. UNCHANGED faults \/ faults' # 0
  BY DEF Load, Fault, TypeOK, RunOK
<1>3. CASE local' = LocalProjects /\ phase' = "test" /\ UNCHANGED moveVars
  <2>1. PathsOutside'
    BY <1>1, <1>3, FoundOutside DEF PathsOutside, moveVars
  <2>2. QED
    BY <1>1, <1>2, <1>3, <2>1, SwapAtRest
<1>4. CASE Fails
  BY <1>1, <1>2, <1>4, NotMoving, PathsKept, SwapAtRest
<1>5. QED
  BY <1>3, <1>4 DEF Load

\* Test, Status and OpFails.
LEMMA DiskLeftSwap ==
  ASSUME TypeOK, PathsOutside, SwapUsed, Test \/ Status \/ OpFails
  PROVE  PathsOutside' /\ SwapUsed'
<1>1. UNCHANGED <<dirs, latest, manifest, crashes>> /\ phase # "moving"
  BY DEF Test, Status, OpFails, fsVars, inputVars, countVars
<1>2. UNCHANGED faults \/ faults' # 0
  BY DEF Test, Status, OpFails, Fault, TypeOK, RunOK
<1>3. phase' # "moving" /\ (Forget \/ UNCHANGED <<local, moveVars>>)
  <2>1. CASE Test
    <3>1. ASSUME NEW n \in {1, 2}, Enter(n) PROVE phase' # "moving"
      <4>1. phase' \in Range(Phases)
        BY <3>1, Entered
      <4>2. QED
        BY <4>1 DEF Range, Phases
    <3>2. QED
      BY <2>1, <3>1, NotMoving DEF Test
  <2>2. CASE Status \/ OpFails
    BY <2>2, NotMoving DEF Status, OpFails
  <2>3. QED
    BY <2>1, <2>2
<1>4. QED
  BY <1>1, <1>2, <1>3, PathsKept, SwapAtRest

LEMMA SnapshotSwap ==
  ASSUME TypeOK, PathsOutside, SwapUsed, Snapshot
  PROVE  PathsOutside' /\ SwapUsed'
<1>1. UNCHANGED <<dirs, local, moveVars, manifest, crashes, faults>> /\ phase # "moving" /\ phase' # "moving"
  BY DEF Snapshot, fsVars, inputVars, countVars
<1>2. latest' = latest \/ latest' = {ByKey(Found)}
  BY DEF Snapshot
<1>3. PathsOutside'
  BY <1>1, <1>2, FoundOutside DEF PathsOutside, moveVars
<1>4. QED
  BY <1>1, <1>3, SwapAtRest

\* The source of a move is where the project is: outside.
LEMMA SourceOutside ==
  ASSUME TypeOK, PathsOutside, NEW p \in DOMAIN local
  PROVE  Source(p) \in Path /\ ~InSwap(Source(p))
<1> DEFINE s == local[p].path
<1>1. s \in Path /\ ~InSwap(s)
  BY KnownPaths DEF PathsOutside
<1>2. CASE WithParent(p)
  <2>1. pdst \in Path /\ psrc \in Seq(Nat) /\ ~InSwap(pdst)
    BY <1>2, CountersKept DEF WithParent, Nowhere, Path, PathsOutside
  <2>2. SubSeq(s, Len(psrc) + 1, Len(s)) \in Seq(Nat)
    BY <1>1, <2>1, SubSeqProperties, LenProperties, ElementOfSeq DEF Path
  <2>3. QED
    BY <1>2, <2>1, <2>2, JoinSwap, SourcePath DEF Source
<1>3. CASE ~WithParent(p)
  BY <1>1, <1>3 DEF Source
<1>4. QED
  BY <1>2, <1>3

\* The first rename takes all that is under the source into the swap directory.
LEMMA IntoSwap ==
  ASSUME NEW s \in Path, ~InSwap(s), dirs \subseteq Path, \A d \in dirs : ~InSwap(d),
         Rename(s, SwapName(s), dirs)
  PROVE  \A d \in dirs' : (InSwap(d) => Under(SwapName(s), d)) /\ ~Under(s, d)
<1>1. SUFFICES ASSUME NEW d \in dirs
               PROVE  LET c == IF Under(s, d) THEN Carried(d, s, SwapName(s)) ELSE d
                      IN  (InSwap(c) => Under(SwapName(s), c)) /\ ~Under(s, c)
  BY DEF Rename
<1>2. d \in Path /\ ~InSwap(d)
  BY <1>1
<1>3. CASE Under(s, d)
  <2> DEFINE c == Carried(d, s, SwapName(s))
  <2>1. c \in Path /\ InSwap(c) /\ Under(SwapName(s), c)
    BY <1>2, <1>3, CarriedSwap, SwapNameSwap
  <2>2. ~Under(s, c)
    BY <2>1, UnderBegins
  <2>3. QED
    BY <1>3, <2>1, <2>2
<1>4. CASE ~Under(s, d)
  BY <1>2, <1>4
<1>5. QED
  BY <1>3, <1>4

LEMMA MoveSwap ==
  ASSUME TypeOK, LeftKnown, PathsOutside, SwapUsed, NEW p, Move(p)
  PROVE  PathsOutside' /\ SwapUsed'
<1> DEFINE s == Source(p)
<1>1. /\ phase = "move" /\ p \in DOMAIN local /\ p \in DOMAIN manifest
      /\ UNCHANGED <<latest, manifest, crashes, faults>>
  BY DEF Move, IsNext, LeftKnown, inputVars, countVars
<1>2. s \in Path /\ ~InSwap(s) /\ ~InSwap(manifest[p])
  BY <1>1, SourceOutside DEF PathsOutside
<1> HIDE DEF s
<1>3. SetParent(p) /\ UNCHANGED local /\ (moving' = moving \/ moving' = {<<p, s>>}) => PathsOutside'
  BY <1>1, <1>2 DEF SetParent, PathsOutside
<1>4. CASE SetParent(p) /\ Done("move", p) /\ UNCHANGED <<fsVars, moving, local>>
  <2>1. phase' # "moving"
    BY <1>4, NotMoving
  <2>2. QED
    BY <1>1, <1>3, <1>4, <2>1, SwapAtRest DEF fsVars
<1>5. CASE SetParent(p) /\ moving' = {<<p, s>>} /\ phase' = "moved" /\ UNCHANGED <<fsVars, local>>
  BY <1>1, <1>3, <1>5, SwapAtRest DEF fsVars
<1>6. CASE SetParent(p) /\ moving' = {<<p, s>>} /\ phase' = "moving" /\ UNCHANGED local
           /\ Rename(s, SwapName(s), dirs)
  <2>1. dirs \subseteq Path
    BY DEF TypeOK, DiskOK
  <2>2. SwapUsed'
    BY <1>1, <1>2, <1>6, <2>1, IntoSwap DEF SwapUsed
  <2>3. QED
    BY <1>3, <1>6, <2>2
<1>7. CASE Fails /\ UNCHANGED fsVars
  BY <1>1, <1>7, NotMoving, PathsKept, SwapAtRest DEF fsVars
<1>8. QED
  BY <1>4, <1>5, <1>6, <1>7 DEF Move, s

\* The second takes all of it out again, to the place of the project or back.
LEMMA OutOfSwap ==
  ASSUME NEW src \in Path, NEW to \in Path, ~InSwap(to), NEW ds \in SUBSET Path,
         \A d \in ds : InSwap(d) => Under(SwapName(src), d),
         Rename(SwapName(src), to, ds)
  PROVE  \A d \in dirs' : ~InSwap(d)
<1>1. SUFFICES ASSUME NEW d \in ds
               PROVE  ~InSwap(IF Under(SwapName(src), d) THEN Carried(d, SwapName(src), to) ELSE d)
  BY DEF Rename
<1>2. SwapName(src) \in Path /\ d \in Path
  BY SwapNameSwap
<1>3. QED
  BY <1>2, CarriedSwap

LEMMA MoveInSwap ==
  ASSUME TypeOK, LeftKnown, PathsOutside, SwapUsed, NEW p, NEW src, MoveIn(p, src)
  PROVE  PathsOutside' /\ SwapUsed'
<1> DEFINE d == manifest[p]
           ds == dirs \cup Ancestors(d)
<1>1. /\ phase = "moving" /\ <<p, src>> \in moving /\ p \in DOMAIN manifest
      /\ UNCHANGED <<latest, manifest, crashes>>
  BY DEF MoveIn, LeftKnown, inputVars, countVars
<1>2. d \in Path /\ ~InSwap(d) /\ src \in Path /\ ~InSwap(src)
  BY <1>1, KnownPaths DEF PathsOutside, TypeOK, AttemptOK
<1>3. ds \in SUBSET Path /\ \A e \in Ancestors(d) : ~InSwap(e)
  BY <1>2, AncestorsSwap, AroundPath DEF TypeOK, DiskOK, Around
<1>4. phase' # "moving" /\ PathsOutside'
  <2>1. CASE Fails
    BY <1>1, <2>1, NotMoving, PathsKept
  <2>2. CASE phase' = "moved" /\ UNCHANGED <<local, moveVars>>
    BY <1>1, <2>2, PathsKept
  <2>3. QED
    BY <2>1, <2>2 DEF MoveIn
<1>5. ASSUME faults' = 0, crashes' = 0
      PROVE  \A e \in dirs' : ~InSwap(e)
  <2>1. ~Fault /\ faults = 0 /\ crashes = 0
    BY <1>1, <1>5 DEF Fault, TypeOK, RunOK, MoveIn
  <2>2. \A e \in dirs : (InSwap(e) => Under(SwapName(src), e)) /\ ~Under(src, e)
    BY <1>1, <2>1 DEF SwapUsed
  <2>3. \A e \in ds : InSwap(e) => Under(SwapName(src), e)
    BY <1>3, <2>2
  <2>4. CASE Rename(SwapName(src), d, ds)
    BY <1>2, <1>3, <2>3, <2>4, OutOfSwap
  <2>5. CASE d \in ds /\ TakeBack(src, ds)
    <3>1. src \notin ds
      <4>1. src \notin dirs
        BY <2>2 DEF Under
      <4>2. src \in Ancestors(d) => d \notin dirs
        BY <1>2, <2>2, AncestorsAround
      <4>3. d \notin Ancestors(d)
        BY <1>2, AncestorsAround
      <4>4. QED
        BY <2>5, <4>1, <4>2, <4>3
    <3>2. Rename(SwapName(src), src, ds)
      BY <2>5, <3>1 DEF TakeBack
    <3>3. QED
      BY <1>2, <1>3, <2>3, <3>2, OutOfSwap
  <2>6. QED
    BY <2>1, <2>4, <2>5 DEF MoveIn
<1>6. SwapUsed'
  BY <1>4, <1>5 DEF SwapUsed
<1>7. QED
  BY <1>4, <1>6

LEMMA EachStepSwap ==
  ASSUME NoProjectInSwap, TypeOK, LeftKnown, PathsOutside, SwapUsed, [Next]_vars
  PROVE  PathsOutside' /\ SwapUsed'
<1>1. CASE Begin
  BY <1>1, BeginSwap
<1>2. CASE Load
  BY <1>2, LoadSwap
<1>3. CASE Test \/ Status \/ OpFails
  BY <1>3, DiskLeftSwap
<1>4. ASSUME NEW p \in Projects, Operation(p)
      PROVE  PathsOutside' /\ SwapUsed'
  <2>1. CASE Delete(p)
    BY <2>1, DeleteSwap
  <2>2. CASE ChangeRemote(p)
    BY <2>2, ChangeRemoteSwap
  <2>3. CASE Move(p)
    BY <2>3, MoveSwap
  <2>4. CASE \E m \in moving : MoveIn(p, m[2])
    BY <2>4, MoveInSwap
  <2>5. CASE UpdateOp(p) \/ \E m \in moving : MoveFinish(p, m[2])
    <3>1. p \in DOMAIN manifest /\ phase # "moving"
      BY <2>5 DEF UpdateOp, MoveFinish, IsNext, LeftKnown
    <3>2. SyncAndWrite("update", p) \/ SyncAndWrite("move", p)
      BY <2>5 DEF UpdateOp, MoveFinish
    <3>3. QED
      BY <3>1, <3>2, SyncAndWriteSwap
  <2>6. CASE Create(p)
    BY <2>6, CreateSwap
  <2>7. CASE Null(p)
    BY <2>7, NullSwap
  <2>8. QED
    BY <1>4, <2>1, <2>2, <2>3, <2>4, <2>5, <2>6, <2>7 DEF Operation
<1>5. CASE Snapshot
  BY <1>5, SnapshotSwap
<1>6. CASE Crash
  <2>1. UNCHANGED <<latest, manifest>> /\ Forget /\ crashes' # 0
    BY <1>6 DEF Crash, inputVars, TypeOK, RunOK
  <2>2. QED
    BY <2>1, PathsKept DEF SwapUsed
<1>7. CASE \E t \in Trees : UserWorks(t)
  BY <1>7, PathsKept, SwapAtRest DEF UserWorks, fsVars, inputVars, countVars
<1>8. CASE UNCHANGED vars
  BY <1>8 DEF vars, PathsOutside, SwapUsed
<1>9. QED
  BY <1>1, <1>2, <1>3, <1>4, <1>5, <1>6, <1>7, <1>8 DEF Next, Step, Halted

\* Unless a project is put there, the swap directory is empty whenever a run has ended, as
\* long as none was killed and nothing outside jiri has failed: whatever moves collide, with
\* each other or with what they find in their way, renameDir takes back what it has begun.
THEOREM SwapLeftEmpty == NoProjectInSwap => (Spec => []SwapEmpty)
<1> SUFFICES ASSUME NoProjectInSwap PROVE Spec => []SwapEmpty
  OBVIOUS
<1> DEFINE Inv == TypeOK /\ LeftKnown /\ PathsOutside /\ SwapUsed
<1>1. Init => Inv
  <2>1. SUFFICES ASSUME Init PROVE PathsOutside /\ SwapUsed
    BY Initially
  <2>2. TypeOK
    BY <2>1, Initially
  <2>3. \A p \in DOMAIN ByKey(Found) : ~InSwap(ByKey(Found)[p].path)
    <3>1. \A m \in Found : ~InSwap(m.path)
      BY DEF Found, Seen
    <3>2. QED
      BY <3>1 DEF ByKey
  <2>4. DOMAIN <<>> = {}
    OBVIOUS
  <2>5. PathsOutside
    BY <2>1, <2>3, <2>4 DEF Init, PathsOutside, NoMove, Nowhere
  <2>6. \A p \in DOMAIN Start : \A d \in Around(Start[p]) : ~InSwap(d)
    BY UpdateAssumption, AncestorsSwap DEF NoProjectInSwap
  <2>7. SwapUsed
    BY <2>1, <2>6 DEF Init, SwapUsed
  <2>8. QED
    BY <2>5, <2>7
<1>2. Inv /\ [Next]_vars => Inv'
  BY EachStep, EachStepSwap
<1>3. Inv => SwapEmpty
  BY DEF SwapUsed, SwapEmpty
<1>4. QED
  BY <1>1, <1>2, <1>3, PTL DEF Spec

-----------------------------------------------------------------------------
(* What lies under what.                                                     *)

\* A directory has under it itself and what begins with it and a separator.
LEMMA UnderIs ==
  ASSUME NEW d \in Path, NEW p \in Path
  PROVE  Under(d, p) <=> p = d \/ BeginsUnder(d, p)
<1>1. d \in Seq(Nat) /\ p \in Seq(Nat) /\ Len(d) \in Nat /\ Len(p) \in Nat
  BY LenProperties DEF Path
<1>2. BeginsUnder(d, p) => Under(d, p)
  BY <1>1, BeginningUnder
<1>3. ASSUME Under(d, p), p # d PROVE BeginsUnder(d, p)
  <2> DEFINE n == Len(d) + 1
             ds == Append(d, Sep)
  <2>1. /\ ds \in Seq(Nat) /\ Len(ds) = n /\ ds[n] = Sep
        /\ \A i \in 1..Len(d) : ds[i] = d[i]
    BY <1>1, AppendProperties DEF Sep
  <2>2. n <= Len(p) /\ SubSeq(ds, 1, n) = SubSeq(p, 1, n)
    BY <1>3, <2>1 DEF Under, IsPrefix
  <2>3. \A i \in 1..n : SubSeq(ds, 1, n)[i] = ds[i]
    BY <1>1, <2>1, SubSeqProperties
  <2>4. \A i \in 1..n : SubSeq(p, 1, n)[i] = p[i]
    BY <1>1, <2>2, SubSeqProperties
  <2>5. \A i \in 1..n : p[i] = ds[i]
    BY <2>2, <2>3, <2>4
  <2>6. n \in 1..n /\ \A i \in 1..Len(d) : i \in 1..n
    BY <1>1
  <2>7. QED
    BY <2>1, <2>2, <2>5, <2>6 DEF BeginsUnder
<1>4. QED
  BY <1>2, <1>3 DEF Under

LEMMA UnderUnder ==
  ASSUME NEW a \in Path, NEW b \in Path, NEW c \in Path, Under(a, b), Under(b, c)
  PROVE  Under(a, c) /\ (a = c => a = b)
<1>1. /\ Len(a) \in Nat /\ Len(b) \in Nat /\ Len(c) \in Nat
  BY LenProperties DEF Path
<1>2. (b = a \/ BeginsUnder(a, b)) /\ (c = b \/ BeginsUnder(b, c))
  BY UnderIs
<1>3. ASSUME BeginsUnder(a, b), BeginsUnder(b, c)
      PROVE  BeginsUnder(a, c) /\ a # c
  <2>1. Len(a) + 1 <= Len(b) /\ Len(b) + 1 <= Len(c)
    BY <1>3 DEF BeginsUnder
  <2>2. \A i \in 1..(Len(a) + 1) : i \in 1..Len(b)
    BY <1>1, <2>1
  <2>3. \A i \in 1..(Len(a) + 1) : c[i] = b[i]
    BY <1>3, <2>2 DEF BeginsUnder
  <2>4. \A i \in 1..Len(a) : i \in 1..(Len(a) + 1)
    BY <1>1
  <2>5. Len(a) + 1 \in 1..(Len(a) + 1)
    BY <1>1
  <2>6. QED
    BY <1>1, <1>3, <2>1, <2>3, <2>4, <2>5 DEF BeginsUnder
<1>4. BeginsUnder(a, b) => a # b
  BY <1>1 DEF BeginsUnder
<1>5. QED
  BY <1>2, <1>3, <1>4, UnderIs

\* What is carried to a place from the same place comes to that place.
LEMMA CarriedItself ==
  ASSUME NEW x \in Path, NEW y \in Path
  PROVE  Carried(x, x, y) = y
<1>1. x \in Seq(Nat) /\ y \in Seq(Nat) /\ Len(x) \in Nat
  BY LenProperties DEF Path
<1>2. SubSeq(x, Len(x) + 1, Len(x)) = <<>>
  BY <1>1, SubSeqEmpty
<1>3. QED
  BY <1>1, <1>2, ConcatEmptySeq DEF Carried

\* What is joined comes below, or is the place itself if nothing is joined.
LEMMA JoinBelow ==
  ASSUME NEW dst \in Path, NEW rest \in Seq(Nat)
  PROVE  /\ Join(dst, rest) \in Path
         /\ rest = <<>> => Join(dst, rest) = dst
         /\ rest # <<>> => Under(dst, Join(dst, rest)) /\ Join(dst, rest) # dst
<1>1. dst \in Seq(Nat) /\ Len(dst) \in Nat /\ Len(rest) \in Nat
  BY LenProperties DEF Path
<1>2. rest = <<>> => Join(dst, rest) = dst
  BY <1>1, ConcatEmptySeq DEF Join
<1>3. CASE rest # <<>> /\ Head(rest) = Sep
  <2> DEFINE c == dst \o rest
  <2>1. Len(rest) >= 1 /\ rest[1] = Sep
    BY <1>1, <1>3, EmptySeq, HeadTailProperties
  <2>2. /\ Len(c) = Len(dst) + Len(rest)
        /\ \A i \in 1..(Len(dst) + Len(rest)) : c[i] = IF i <= Len(dst) THEN dst[i] ELSE rest[i - Len(dst)]
    BY <1>1, ConcatProperties
  <2> HIDE DEF c
  <2>3. Len(dst) + 1 \in 1..(Len(dst) + Len(rest)) /\ ~(Len(dst) + 1 <= Len(dst)) /\ Len(dst) + 1 - Len(dst) = 1
    BY <1>1, <2>1
  <2>4. \A i \in 1..Len(dst) : i \in 1..(Len(dst) + Len(rest)) /\ i <= Len(dst)
    BY <1>1
  <2>5. BeginsUnder(dst, c)
    BY <1>1, <2>1, <2>2, <2>3, <2>4 DEF BeginsUnder
  <2>6. c \in Path /\ Join(dst, rest) = c
    BY <1>3, JoinPath DEF Join, c
  <2>7. c # dst
    BY <1>1, <2>1, <2>2
  <2>8. QED
    BY <1>3, <2>5, <2>6, <2>7, UnderIs
<1>4. CASE rest # <<>> /\ Head(rest) # Sep
  <2> DEFINE ds == Append(dst, Sep)
             c == ds \o rest
  <2>1. /\ ds \in Seq(Nat) /\ Len(ds) = Len(dst) + 1 /\ ds[Len(dst) + 1] = Sep
        /\ \A i \in 1..Len(dst) : ds[i] = dst[i]
    BY <1>1, AppendProperties DEF Sep
  <2> HIDE DEF ds
  <2>2. /\ Len(c) = Len(ds) + Len(rest)
        /\ \A i \in 1..(Len(ds) + Len(rest)) : c[i] = IF i <= Len(ds) THEN ds[i] ELSE rest[i - Len(ds)]
    BY <1>1, <2>1, ConcatProperties
  <2> HIDE DEF c
  <2>3. \A i \in 1..(Len(dst) + 1) : i \in 1..(Len(ds) + Len(rest)) /\ i <= Len(ds)
    BY <1>1, <2>1
  <2>4. \A i \in 1..(Len(dst) + 1) : c[i] = ds[i]
    BY <2>2, <2>3
  <2>5. \A i \in 1..Len(dst) : i \in 1..(Len(dst) + 1)
    BY <1>1
  <2>6. Len(dst) + 1 \in 1..(Len(dst) + 1)
    BY <1>1
  <2>7. BeginsUnder(dst, c)
    BY <1>1, <2>1, <2>2, <2>4, <2>5, <2>6 DEF BeginsUnder
  <2>8. c \in Path /\ Join(dst, rest) = c
    BY <1>4, JoinPath DEF Join, c, ds
  <2>9. c # dst
    BY <1>1, <2>1, <2>2
  <2>10. QED
    BY <1>4, <2>7, <2>8, <2>9, UnderIs
<1>5. QED
  BY <1>2, <1>3, <1>4, JoinPath

\* A beginning with nothing behind it is all.
LEMMA NothingBehind ==
  ASSUME NEW s \in Path, NEW b \in Seq(Nat), IsPrefix(b, s), SubSeq(s, Len(b) + 1, Len(s)) = <<>>
  PROVE  s = b
<1>1. s \in Seq(Nat) /\ Len(s) \in Nat /\ Len(b) \in Nat
  BY LenProperties DEF Path
<1>2. Len(b) <= Len(s) /\ SubSeq(b, 1, Len(b)) = SubSeq(s, 1, Len(b))
  BY DEF IsPrefix
<1>3. Len(s) <= Len(b)
  <2>1. \A i \in (Len(b) + 1)..Len(s) : s[i] \in Nat
    BY <1>1, ElementOfSeq
  <2>2. Len(SubSeq(s, Len(b) + 1, Len(s))) = IF Len(b) + 1 <= Len(s) THEN Len(s) - (Len(b) + 1) + 1 ELSE 0
    BY <1>1, <2>1, SubSeqProperties
  <2>3. QED
    BY <1>1, <2>2, EmptySeq
<1>4. Len(s) = Len(b)
  BY <1>1, <1>2, <1>3
<1>5. \A i \in 1..Len(b) : SubSeq(b, 1, Len(b))[i] = b[i] /\ SubSeq(s, 1, Len(b))[i] = s[i]
  BY <1>1, <1>2, SubSeqProperties
<1>6. \A i \in 1..Len(b) : s[i] = b[i]
  BY <1>2, <1>5
<1>7. QED
  BY <1>1, <1>4, <1>6, SeqEqual

-----------------------------------------------------------------------------
(* Ignored projects.                                                         *)

\* The places p is given, at the start or by a manifest.
PlacesOf(p) ==
  {Start[q] : q \in DOMAIN Start \cap {p}} \cup {m[p] : m \in {n \in Manifests : p \in DOMAIN n}}

LEMMA PlacesArePaths == \A p : PlacesOf(p) \subseteq Path
BY UpdateAssumption DEF PlacesOf

\* What metadata and snapshots may say of p.
KnownOf(p, m) == m.path \in PlacesOf(p) /\ (p \notin Moved => m.remote = "old")

\* A run knows of no place but those.
KnownPlaces ==
  /\ \A t \in Trees : meta[t] # NoMeta => KnownOf(meta[t].key, meta[t])
  /\ \A s \in latest : \A p \in DOMAIN s : KnownOf(p, s[p])
  /\ \A p \in DOMAIN local : KnownOf(p, local[p])
  /\ \A p \in DOMAIN manifest : manifest[p] \in PlacesOf(p)
  /\ psrc # Nowhere => \E p \in Projects : psrc \in PlacesOf(p) /\ pdst \in PlacesOf(p)

\* An ignored project has places of its own: no other lies there or around it.
IgnoredApart ==
  \A i \in Ignore : \A x \in PlacesOf(i) :
    /\ ~InSwap(x)
    /\ \A p \in Projects : \A y \in PlacesOf(p) : Under(y, x) => p = i /\ y = x

\* A tree of an ignored project is in one of its places.
IgnoredPlaced == \A t \in Trees : Of(t) \in Ignore /\ at[t] # Nowhere => at[t] \in PlacesOf(Of(t))

\* A step writes metadata of what the manifest says only, and puts a tree of an ignored
\* project nowhere but, if it is new, where the manifest says.
WrittenFor(p) == [key |-> p, path |-> manifest[p], remote |-> Remote(p)]
MetaWritten ==
  \A t \in Trees : meta'[t] \in {meta[t], NoMeta} \/ \E p \in DOMAIN manifest : meta'[t] = WrittenFor(p)
IgnoredUntouched ==
  \A t \in Trees : Of(t) \in Ignore =>
    \/ at'[t] = at[t]
    \/ at[t] = Nowhere /\ Of(t) \in DOMAIN manifest /\ at'[t] = manifest[Of(t)]

LEMMA FoundKnown ==
  ASSUME TypeOK, KnownPlaces
  PROVE  /\ \A p \in DOMAIN ByKey(Found) : KnownOf(p, ByKey(Found)[p])
         /\ \A p \in DOMAIN LocalProjects : KnownOf(p, LocalProjects[p])
<1>1. \A m \in Found : KnownOf(m.key, m)
  BY DEF Found, Seen, KnownPlaces
<1>2. \A p \in DOMAIN ByKey(Found) : ByKey(Found)[p] \in Found /\ ByKey(Found)[p].key = p
  BY DEF ByKey
<1>3. \A p \in DOMAIN ByKey(Found) : KnownOf(p, ByKey(Found)[p])
  BY <1>1, <1>2
<1>4. FromSnapshot => \E s \in latest : s = LocalProjects
  BY DEF FromSnapshot, LocalProjects
<1>5. QED
  BY <1>3, <1>4 DEF KnownPlaces, LocalProjects

LEMMA KnownKept ==
  ASSUME TypeOK, KnownPlaces, MetaWritten,
         latest' = latest \/ latest' = {ByKey(Found)},
         local' = local \/ local' = <<>> \/ local' = LocalProjects,
         manifest' = manifest \/ manifest' \in Manifests,
         \/ UNCHANGED <<psrc, pdst>> \/ psrc' = <<>>
         \/ \E p \in DOMAIN local \cap DOMAIN manifest : psrc' = local[p].path /\ pdst' = manifest[p]
  PROVE  KnownPlaces'
<1>1. \A t \in Trees : meta'[t] # NoMeta => KnownOf(meta'[t].key, meta'[t])
  <2>1. \A p \in DOMAIN manifest : KnownOf(p, WrittenFor(p)) /\ WrittenFor(p).key = p
    BY DEF KnownOf, WrittenFor, Remote, KnownPlaces
  <2>2. QED
    BY <2>1 DEF MetaWritten, KnownPlaces
<1>2. \A s \in latest' : \A p \in DOMAIN s : KnownOf(p, s[p])
  BY FoundKnown DEF KnownPlaces
<1>3. \A p \in DOMAIN local' : KnownOf(p, local'[p])
  <2>1. DOMAIN <<>> = {}
    OBVIOUS
  <2>2. QED
    BY <2>1, FoundKnown DEF KnownPlaces
<1>4. \A p \in DOMAIN manifest' : manifest'[p] \in PlacesOf(p)
  BY DEF KnownPlaces, PlacesOf
<1>5. psrc' # Nowhere => \E p \in Projects : psrc' \in PlacesOf(p) /\ pdst' \in PlacesOf(p)
  BY KnownPaths DEF KnownPlaces, KnownOf, Nowhere
<1>6. QED
  BY <1>1, <1>2, <1>3, <1>4, <1>5 DEF KnownPlaces, KnownOf

LEMMA WriteMetadataApart ==
  ASSUME TypeOK, NEW p \in DOMAIN manifest, WriteMetadata(p)
  PROVE  MetaWritten /\ IgnoredUntouched
<1> DEFINE f == Fresh(p)
<1>1. p \in Projects
  BY KnownPaths
<1>2. CASE TreesAt(manifest[p]) # {}
  BY <1>2 DEF WriteMetadata, MetaWritten, IgnoredUntouched, WrittenFor
<1>3. CASE TreesAt(manifest[p]) = {}
  <2>1. f \in Trees /\ at[f] = Nowhere /\ Of(f) = p
    BY <1>1, <1>3, FreshTree DEF WriteMetadata, Fresh, Of
  <2>2. at' = [at EXCEPT ![f] = manifest[p]] /\ meta' = [meta EXCEPT ![f] = WrittenFor(p)]
    BY <1>3 DEF WriteMetadata, WrittenFor
  <2> HIDE DEF f
  <2>3. QED
    BY <2>1, <2>2 DEF MetaWritten, IgnoredUntouched, TypeOK, DiskOK
<1>4. QED
  BY <1>2, <1>3

LEMMA DiskLeftApart == UNCHANGED fsVars => MetaWritten /\ IgnoredUntouched
BY DEF fsVars, MetaWritten, IgnoredUntouched

\* The directory p is deleted from is around no ignored project.
LEMMA PlaceApart ==
  ASSUME TypeOK, KnownPlaces, IgnoredApart, IgnoredPlaced, NEW p \in DOMAIN local, p \notin Ignore,
         NEW t \in Trees, Of(t) \in Ignore, at[t] # Nowhere
  PROVE  ~Under(local[p].path, at[t])
BY KnownPaths DEF KnownPlaces, KnownOf, IgnoredApart, IgnoredPlaced

\* Nor is the one it is moved from.
LEMMA SourceApart ==
  ASSUME TypeOK, KnownPlaces, IgnoredApart, IgnoredPlaced, NEW p \in DOMAIN local, p \notin Ignore,
         NEW t \in Trees, Of(t) \in Ignore, at[t] # Nowhere
  PROVE  ~Under(Source(p), at[t])
<1> DEFINE s == local[p].path
           x == at[t]
<1>1. s \in Path /\ x \in Path /\ x \in PlacesOf(Of(t)) /\ p \in Projects
  BY KnownPaths DEF TypeOK, DiskOK, IgnoredPlaced
<1>2. CASE WithParent(p)
  <2> DEFINE rest == SubSeq(s, Len(psrc) + 1, Len(s))
  <2>1. PICK q \in Projects : psrc \in PlacesOf(q) /\ pdst \in PlacesOf(q)
    BY <1>2 DEF WithParent, KnownPlaces, Nowhere
  <2>2. psrc \in Path /\ pdst \in Path /\ psrc \in Seq(Nat)
    BY <2>1, PlacesArePaths DEF Path
  <2>3. rest \in Seq(Nat)
    <3>1. s \in Seq(Nat) /\ Len(s) \in Nat /\ Len(psrc) \in Nat
      BY <1>1, <2>2, LenProperties DEF Path
    <3> HIDE DEF s
    <3>2. \A i \in (Len(psrc) + 1)..Len(s) : s[i] \in Nat
      BY <3>1, ElementOfSeq
    <3>3. QED
      BY <3>1, <3>2, SubSeqProperties
  <2>4. Source(p) = Join(pdst, rest)
    BY <1>2 DEF Source
  <2>5. SUFFICES ASSUME Under(Source(p), x) PROVE FALSE
    OBVIOUS
  <2>6. CASE rest = <<>>
    <3>1. s = psrc
      BY <1>1, <1>2, <2>2, <2>6, NothingBehind DEF WithParent
    <3>2. Under(pdst, x)
      BY <2>2, <2>3, <2>4, <2>5, <2>6, JoinBelow
    <3>3. q = Of(t)
      BY <1>1, <2>1, <3>2 DEF IgnoredApart
    <3>4. s \in PlacesOf(p) /\ Under(s, s)
      BY DEF KnownPlaces, KnownOf, Under
    <3>5. p = Of(t)
      BY <1>1, <2>1, <3>1, <3>3, <3>4 DEF IgnoredApart
    <3>6. QED
      BY <3>5
  <2>7. CASE rest # <<>>
    <3> HIDE DEF rest
    <3>1. Source(p) \in Path /\ Under(pdst, Source(p)) /\ Source(p) # pdst
      BY <2>2, <2>3, <2>4, <2>7, JoinBelow
    <3> USE DEF rest
    <3>2. Under(pdst, x) /\ pdst # x
      BY <1>1, <2>2, <2>5, <3>1, UnderUnder
    <3>3. QED
      BY <1>1, <2>1, <3>2 DEF IgnoredApart
  <2>8. QED
    BY <2>6, <2>7
<1>3. CASE ~WithParent(p)
  BY <1>3, PlaceApart DEF Source
<1>4. QED
  BY <1>2, <1>3

LEMMA RenameApart ==
  ASSUME NEW from, NEW to, NEW ds, Rename(from, to, ds),
         \A t \in Trees : Of(t) \in Ignore /\ at[t] # Nowhere => ~Under(from, at[t])
  PROVE  MetaWritten /\ IgnoredUntouched
BY DEF Rename, MetaWritten, IgnoredUntouched

LEMMA DeleteApart ==
  ASSUME TypeOK, LeftKnown, KnownPlaces, IgnoredApart, IgnoredPlaced, NEW p, Delete(p)
  PROVE  MetaWritten /\ IgnoredUntouched
<1>1. p \in DOMAIN local
  BY DEF Delete, IsNext, LeftKnown
<1>2. CASE UNCHANGED fsVars
  BY <1>2, DiskLeftApart
<1>3. CASE p \notin Ignore /\ RemoveTree(local[p].path)
  BY <1>1, <1>3, PlaceApart DEF RemoveTree, OnDisk, MetaWritten, IgnoredUntouched
<1>4. QED
  BY <1>2, <1>3 DEF Delete, Deletable

LEMMA MoveApart ==
  ASSUME TypeOK, LeftKnown, KnownPlaces, IgnoredApart, IgnoredPlaced, NEW p, Move(p)
  PROVE  MetaWritten /\ IgnoredUntouched
<1>1. p \in DOMAIN local
  BY DEF Move, IsNext, LeftKnown
<1>2. CASE UNCHANGED fsVars
  BY <1>2, DiskLeftApart
<1>3. CASE p \notin Ignore /\ Rename(Source(p), SwapName(Source(p)), dirs)
  BY <1>1, <1>3, SourceApart, RenameApart
<1>4. QED
  BY <1>2, <1>3 DEF Move

LEMMA MoveInApart ==
  ASSUME TypeOK, LeftKnown, KnownPlaces, IgnoredApart, IgnoredPlaced, NEW p, NEW src, MoveIn(p, src)
  PROVE  MetaWritten /\ IgnoredUntouched
<1>1. src \in Path
  BY DEF MoveIn, TypeOK, AttemptOK
<1>2. \A t \in Trees : Of(t) \in Ignore /\ at[t] # Nowhere => ~Under(SwapName(src), at[t])
  <2>1. SUFFICES ASSUME NEW t \in Trees, Of(t) \in Ignore, at[t] # Nowhere
                 PROVE  ~Under(SwapName(src), at[t])
    OBVIOUS
  <2>2. at[t] \in Path /\ ~InSwap(at[t])
    BY <2>1 DEF TypeOK, DiskOK, IgnoredPlaced, IgnoredApart
  <2>3. QED
    BY <1>1, <2>2, SwapNameSwap, UnderBegins
<1>3. CASE UNCHANGED <<at, meta>>
  BY <1>3 DEF MetaWritten, IgnoredUntouched
<1>4. CASE \E to, ds : Rename(SwapName(src), to, ds)
  BY <1>2, <1>4, RenameApart
<1>5. QED
  BY <1>3, <1>4 DEF MoveIn, TakeBack, fsVars

LEMMA CreateApart ==
  ASSUME TypeOK, LeftKnown, NEW p, Create(p)
  PROVE  MetaWritten /\ IgnoredUntouched
<1> DEFINE f == Fresh(p)
<1>1. p \in DOMAIN manifest /\ p \in Projects
  BY KnownPaths DEF Create, Ready, LeftKnown
<1>2. CASE UNCHANGED <<at, meta>>
  BY <1>2 DEF MetaWritten, IgnoredUntouched
<1>3. CASE /\ EnoughCopies(p) /\ at' = [at EXCEPT ![Fresh(p)] = manifest[p]]
           /\ meta' = [meta EXCEPT ![Fresh(p)] = WrittenFor(p)]
  <2>1. f \in Trees /\ at[f] = Nowhere /\ Of(f) = p
    BY <1>1, <1>3, FreshTree DEF Fresh, Of
  <2>2. at' = [at EXCEPT ![f] = manifest[p]] /\ meta' = [meta EXCEPT ![f] = WrittenFor(p)]
    BY <1>3
  <2> HIDE DEF f
  <2>3. QED
    BY <1>1, <2>1, <2>2 DEF MetaWritten, IgnoredUntouched, TypeOK, DiskOK
<1>4. QED
  BY <1>2, <1>3 DEF Create, WrittenFor, fsVars

LEMMA CrashApart ==
  ASSUME TypeOK, LeftKnown, Crash
  PROVE  MetaWritten /\ IgnoredUntouched
<1>1. CASE UNCHANGED fsVars
  BY <1>1, DiskLeftApart
<1>2. CASE \E p \in left : /\ phase = "create" /\ EnoughCopies(p)
                           /\ at' = [at EXCEPT ![Fresh(p)] = manifest[p]] /\ meta' = meta
  <2>1. PICK p \in left : /\ phase = "create" /\ EnoughCopies(p)
                          /\ at' = [at EXCEPT ![Fresh(p)] = manifest[p]] /\ meta' = meta
    BY <1>2
  <2> DEFINE f == Fresh(p)
  <2>2. p \in DOMAIN manifest /\ p \in Projects
    BY <2>1, KnownPaths DEF LeftKnown
  <2>3. f \in Trees /\ at[f] = Nowhere /\ Of(f) = p
    BY <2>1, <2>2, FreshTree DEF Fresh, Of
  <2>4. at' = [at EXCEPT ![f] = manifest[p]]
    BY <2>1
  <2> HIDE DEF f
  <2>5. QED
    BY <2>1, <2>2, <2>3, <2>4 DEF MetaWritten, IgnoredUntouched, TypeOK, DiskOK
<1>3. QED
  BY <1>1, <1>2 DEF Crash

\* What a step does besides to what a run knows.
KnowledgeKept ==
  /\ latest' = latest \/ latest' = {ByKey(Found)}
  /\ local' = local \/ local' = <<>> \/ local' = LocalProjects
  /\ manifest' = manifest \/ manifest' \in Manifests
  /\ \/ UNCHANGED <<psrc, pdst>> \/ psrc' = <<>>
     \/ \E p \in DOMAIN local \cap DOMAIN manifest : psrc' = local[p].path /\ pdst' = manifest[p]

LEMMA KnowledgeStep ==
  ASSUME TypeOK, LeftKnown, [Next]_vars
  PROVE  KnowledgeKept
<1> USE DEF KnowledgeKept
<1>1. \A r : EndAttempt(r) => local' = <<>> /\ psrc' = <<>>
  BY DEF EndAttempt, Forget
<1>2. Fails => local' = <<>> /\ psrc' = <<>>
  BY <1>1 DEF Fails
<1>3. CASE Begin
  BY <1>3 DEF Begin, moveVars
<1>4. CASE Load \/ Test \/ Status \/ OpFails
  BY <1>1, <1>2, <1>4 DEF Load, Test, Status, OpFails, inputVars, moveVars
<1>5. ASSUME NEW p \in Projects, Operation(p)
      PROVE  KnowledgeKept
  <2>1. CASE Delete(p) \/ ChangeRemote(p)
    BY <1>2, <2>1 DEF Delete, ChangeRemote, inputVars, moveVars
  <2>2. CASE Move(p)
    <3>1. p \in DOMAIN local \cap DOMAIN manifest
      BY <2>2 DEF Move, IsNext, LeftKnown
    <3>2. QED
      BY <1>2, <2>2, <3>1 DEF Move, SetParent, inputVars
  <2>3. CASE \E src : MoveIn(p, src) \/ MoveFinish(p, src)
    BY <1>2, <2>3 DEF MoveIn, MoveFinish, SyncAndWrite, inputVars, moveVars
  <2>4. CASE UpdateOp(p) \/ Null(p)
    BY <1>2, <2>4 DEF UpdateOp, SyncAndWrite, Null, inputVars, moveVars
  <2>5. CASE Create(p)
    <3>1. \A rest, bad : CreatesGoOn(rest, bad) => local' \in {local, <<>>} /\ (UNCHANGED <<psrc, pdst>> \/ psrc' = <<>>)
      BY <1>2 DEF CreatesGoOn, moveVars
    <3>2. QED
      BY <2>5, <3>1 DEF Create, inputVars
  <2>6. QED
    BY <1>5, <2>1, <2>2, <2>3, <2>4, <2>5 DEF Operation
<1>6. CASE Snapshot
  BY <1>6 DEF Snapshot, inputVars, moveVars
<1>7. CASE Crash
  BY <1>7 DEF Crash, Forget, inputVars
<1>8. CASE \E t \in Trees : UserWorks(t)
  BY <1>8 DEF UserWorks, inputVars, moveVars
<1>9. CASE UNCHANGED vars
  BY <1>9 DEF vars
<1>10. QED
  BY <1>3, <1>4, <1>5, <1>6, <1>7, <1>8, <1>9 DEF Next, Step, Halted

LEMMA EachStepApart ==
  ASSUME TypeOK, LeftKnown, KnownPlaces, IgnoredApart, IgnoredPlaced, [Next]_vars
  PROVE  MetaWritten /\ IgnoredUntouched
<1>1. CASE Begin \/ Load \/ Test \/ Status \/ OpFails \/ Snapshot \/ \E t \in Trees : UserWorks(t)
  BY <1>1, DiskLeftApart DEF Begin, Load, Test, Status, OpFails, Snapshot, UserWorks
<1>2. ASSUME NEW p \in Projects, Operation(p)
      PROVE  MetaWritten /\ IgnoredUntouched
  <2>1. CASE Delete(p) \/ Move(p) \/ Create(p) \/ \E m \in moving : MoveIn(p, m[2])
    BY <2>1, DeleteApart, MoveApart, CreateApart, MoveInApart
  <2>2. CASE ChangeRemote(p) \/ UpdateOp(p) \/ Null(p) \/ \E m \in moving : MoveFinish(p, m[2])
    <3>1. p \in DOMAIN manifest
      BY <2>2 DEF ChangeRemote, UpdateOp, Null, MoveFinish, IsNext, LeftKnown
    <3>2. WriteMetadata(p) \/ UNCHANGED fsVars
      BY <2>2 DEF ChangeRemote, UpdateOp, Null, MoveFinish, SyncAndWrite
    <3>3. QED
      BY <3>1, <3>2, WriteMetadataApart, DiskLeftApart
  <2>3. QED
    BY <1>2, <2>1, <2>2 DEF Operation
<1>3. CASE Crash
  BY <1>3, CrashApart
<1>4. CASE UNCHANGED vars
  BY <1>4 DEF vars, MetaWritten, IgnoredUntouched
<1>5. QED
  BY <1>1, <1>2, <1>3, <1>4 DEF Next, Step, Halted

LEMMA InitKnown == Init => KnownPlaces /\ IgnoredPlaced
<1> SUFFICES ASSUME Init PROVE KnownPlaces /\ IgnoredPlaced
  OBVIOUS
<1>1. TypeOK
  BY Initially
<1>2. \A t \in Trees : at[t] # Nowhere => at[t] \in PlacesOf(Of(t))
  BY DEF Init, PlacesOf
<1>3. \A t \in Trees : meta[t] # NoMeta => KnownOf(meta[t].key, meta[t])
  BY <1>2 DEF Init, KnownOf
<1>4. \A p \in DOMAIN ByKey(Found) : KnownOf(p, ByKey(Found)[p])
  <2>1. \A m \in Found : KnownOf(m.key, m)
    BY <1>3 DEF Found, Seen
  <2>2. \A p \in DOMAIN ByKey(Found) : ByKey(Found)[p] \in Found /\ ByKey(Found)[p].key = p
    BY DEF ByKey
  <2>3. QED
    BY <2>1, <2>2
<1>5. DOMAIN <<>> = {}
  OBVIOUS
<1>6. KnownPlaces
  BY <1>3, <1>4, <1>5 DEF Init, KnownPlaces, Nowhere
<1>7. QED
  BY <1>2, <1>6 DEF IgnoredPlaced

\* Where no other project has a place at or around one of an ignored project's, no step of
\* any run moves, deletes or replaces it: neither the operations on it nor those on others,
\* wherever a move takes what begins with its source for moved along (behaviour.md: "jiri
\* will completely ignore this project").
THEOREM IgnoredLeftAlone == IgnoredApart => (Spec => IgnoredStay)
<1> SUFFICES ASSUME IgnoredApart PROVE Spec => IgnoredStay
  OBVIOUS
<1> DEFINE Inv == TypeOK /\ LeftKnown /\ KnownPlaces /\ IgnoredPlaced
           Stay == \A t \in Trees : Of(t) \in Ignore /\ at[t] # Nowhere => at'[t] = at[t]
<1>1. Init => Inv
  BY Initially, InitKnown
<1>2. Inv /\ [Next]_vars => Inv' /\ [Stay]_vars
  <2> SUFFICES ASSUME Inv, [Next]_vars PROVE Inv' /\ Stay
    OBVIOUS
  <2>1. TypeOK' /\ LeftKnown'
    BY EachStep
  <2>2. MetaWritten /\ IgnoredUntouched
    BY EachStepApart
  <2>3. KnownPlaces'
    BY <2>2, KnowledgeStep, KnownKept DEF KnowledgeKept
  <2>4. Stay
    BY <2>2 DEF IgnoredUntouched
  <2>5. IgnoredPlaced'
    BY <2>2 DEF IgnoredUntouched, IgnoredPlaced, KnownPlaces
  <2>6. QED
    BY <2>1, <2>3, <2>4, <2>5
<1>3. QED
  BY <1>1, <1>2, PTL DEF Spec, IgnoredStay

-----------------------------------------------------------------------------
(* Consistency: the order on the disk.                                       *)

\* A project that is given two places is alone there: no place of another lies in, around
\* or at one of them.
MoversApart ==
  \A p \in Projects : \A x, y \in PlacesOf(p) : x # y =>
    \A q \in Projects : \A z \in PlacesOf(q) : Under(x, z) \/ Under(z, x) => q = p /\ z = x

\* Workspaces and manifests for which updates are consistent: nothing moves around anything
\* else, what is checked out at first does not collide, and projects that get a new remote
\* stay where they are.
Orderly ==
  /\ Covers = {}
  /\ MoversApart
  /\ \A p, q \in DOMAIN Start : Start[p] = Start[q] => p = q
  /\ \A p \in Moved : \A x, y \in PlacesOf(p) : x = y
  /\ \A p \in Projects : \A x \in PlacesOf(p) : ~InSwap(x)

\* The places where a scan finds p.
Home(t) == t \in OnDisk /\ ~InSwap(at[t]) /\ meta[t].path = at[t]
Homes(p) == {at[t] : t \in {u \in Trees : Home(u) /\ Of(u) = p}}

\* Trees and directories are in places of projects, or in the swap directory.
TreePlaced(t) ==
  /\ at[t] \in dirs
  /\ meta[t] # NoMeta /\ meta[t].key = Of(t)
  /\ \E x \in PlacesOf(Of(t)) : at[t] \in {x, SwapName(x)}
DirPlaced(e) == \E p \in Projects : \E x \in PlacesOf(p) : e \in Around(x) \cup {SwapName(x)}
DiskInOrder ==
  /\ bare = {}
  /\ \A t \in OnDisk : TreePlaced(t)
  /\ \A t, u \in OnDisk : at[t] = at[u] => t = u
  /\ \A e \in dirs : DirPlaced(e)

\* No character of the name of an entry of the swap directory is a separator.
LEMMA SwapNameWhole ==
  ASSUME NEW x \in Path, NEW d \in Path, Under(d, SwapName(x))
  PROVE  SwapName(x) = d
<1> DEFINE name == [i \in DOMAIN x |-> IF x[i] = Sep THEN SwapMark ELSE x[i]]
           n == SwapName(x)
<1>1. x \in Seq(Nat) /\ Len(x) \in Nat /\ DOMAIN x = 1..Len(x)
  BY LenProperties DEF Path
<1>2. name \in Seq(Nat) /\ Len(name) = Len(x) /\ \A i \in 1..Len(x) : name[i] # Sep
  BY <1>1, ElementOfSeq, LenProperties DEF SwapMark, Sep
<1> HIDE DEF name
<1>3. <<SwapMark>> \in Seq(Nat) /\ Len(<<SwapMark>>) = 1 /\ <<SwapMark>>[1] = SwapMark
  BY DEF SwapMark
<1>4. /\ Len(<<SwapMark>> \o name) = 1 + Len(name)
      /\ \A i \in 1..(1 + Len(name)) :
           (<<SwapMark>> \o name)[i] = IF i <= 1 THEN <<SwapMark>>[i] ELSE name[i - 1]
  BY <1>2, <1>3, ConcatProperties
<1>5. \A i \in 1..(1 + Len(name)) : (<<SwapMark>> \o name)[i] # Sep
  <2> TAKE i \in 1..(1 + Len(name))
  <2>1. CASE i <= 1
    <3>1. i = 1
      BY <1>1, <1>2, <2>1
    <3>2. SwapMark # Sep
      BY DEF SwapMark, Sep
    <3>3. QED
      BY <1>3, <1>4, <2>1, <3>1, <3>2
  <2>2. CASE ~(i <= 1)
    <3>1. i - 1 \in 1..Len(x)
      BY <1>1, <1>2, <2>2
    <3>2. QED
      BY <1>2, <1>4, <2>2, <3>1
  <2>3. QED
    BY <2>1, <2>2
<1>6. n = <<SwapMark>> \o name
  BY DEF SwapName, name
<1> HIDE DEF n
<1>7. n \in Path /\ Len(d) \in Nat /\ Len(n) \in Nat
  BY SwapNamePath, LenProperties DEF n, Path
<1>8. ASSUME n # d PROVE FALSE
  <2>1. Len(n) > Len(d) /\ n[Len(d) + 1] = Sep
    BY <1>7, <1>8, UnderBegins DEF n
  <2>2. Len(d) + 1 \in 1..Len(n)
    BY <1>7, <2>1
  <2>3. QED
    BY <1>4, <1>5, <1>6, <2>1, <2>2
<1>9. QED
  BY <1>8 DEF n

\* A place is a path outside the swap directory, and so are the directories around it.
LEMMA PlaceOutside ==
  ASSUME Orderly, NEW p \in Projects, NEW x \in PlacesOf(p)
  PROVE  /\ x \in Path /\ ~InSwap(x)
         /\ SwapName(x) \in Path /\ InSwap(SwapName(x))
         /\ \A e \in Around(x) : e \in Path /\ ~InSwap(e) /\ Under(e, x) /\ DirPlaced(e)
<1>1. x \in Path /\ ~InSwap(x)
  BY PlacesArePaths DEF Orderly
<1>2. \A e \in Around(x) : e \in Path /\ ~InSwap(e)
  BY <1>1, AncestorsSwap
<1>3. \A e \in Around(x) : Under(e, x)
  BY <1>1, AncestorsAround DEF Around, Under
<1>4. QED
  BY <1>1, <1>2, <1>3, SwapNameSwap DEF DirPlaced

\* Nothing lies under an entry of the swap directory but that itself.
LEMMA SwapEntry ==
  ASSUME Orderly, NEW y \in Path, NEW e, DirPlaced(e), Under(SwapName(y), e)
  PROVE  e = SwapName(y)
<1>0. PICK p \in Projects : \E x \in PlacesOf(p) : e \in Around(x) \cup {SwapName(x)}
  BY DEF DirPlaced
<1>1. PICK x \in PlacesOf(p) : e \in Around(x) \cup {SwapName(x)}
  BY <1>0
<1>2. SwapName(y) \in Path /\ InSwap(SwapName(y))
  BY SwapNameSwap
<1>3. CASE e \in Around(x)
  <2>1. e \in Path /\ ~InSwap(e)
    BY <1>1, <1>3, PlaceOutside
  <2>2. QED
    BY <1>2, <2>1, UnderBegins
<1>4. CASE e = SwapName(x)
  <2>1. x \in Path
    BY <1>1, PlaceOutside
  <2>2. QED
    BY <1>2, <1>4, <2>1, SwapNameWhole
<1>5. QED
  BY <1>1, <1>3, <1>4

\* Nor under the place of a project that moves.
LEMMA MoverAlone ==
  ASSUME Orderly, NEW p \in Projects, NEW x \in PlacesOf(p), NEW y \in PlacesOf(p), x # y,
         NEW e, DirPlaced(e), Under(x, e)
  PROVE  e = x
<1>0. PICK q \in Projects : \E z \in PlacesOf(q) : e \in Around(z) \cup {SwapName(z)}
  BY DEF DirPlaced
<1>1. PICK z \in PlacesOf(q) : e \in Around(z) \cup {SwapName(z)}
  BY <1>0
<1>2. x \in Path /\ ~InSwap(x)
  BY PlaceOutside
<1>3. z \in Path /\ SwapName(z) \in Path /\ InSwap(SwapName(z))
  BY <1>1, PlaceOutside
<1>4. CASE e = SwapName(z)
  BY <1>2, <1>3, <1>4, UnderBegins
<1>5. CASE e \in Around(z)
  <2>1. e \in Path /\ Under(e, z)
    BY <1>1, <1>5, PlaceOutside
  <2>2. Under(x, z) /\ (x = z => x = e)
    BY <1>2, <1>3, <2>1, UnderUnder
  <2>3. z = x
    BY <1>1, <2>2 DEF Orderly, MoversApart
  <2>4. QED
    BY <2>2, <2>3
<1>6. QED
  BY <1>1, <1>4, <1>5

\* A tree in order is in a directory that is.
LEMMA TreeInOrder ==
  ASSUME Orderly, DiskInOrder, NEW t \in OnDisk
  PROVE  /\ t \in Trees /\ Of(t) \in Projects /\ at[t] \in dirs /\ DirPlaced(at[t])
         /\ ~InSwap(at[t]) => at[t] \in PlacesOf(Of(t))
<1>1. t \in Trees /\ Of(t) \in Projects /\ TreePlaced(t)
  BY DEF OnDisk, Trees, Of, DiskInOrder
<1>2. at[t] \in dirs /\ DirPlaced(at[t])
  BY <1>1 DEF TreePlaced, DiskInOrder
<1>3. PICK x \in PlacesOf(Of(t)) : at[t] \in {x, SwapName(x)}
  BY <1>1 DEF TreePlaced
<1>4. InSwap(SwapName(x))
  BY <1>1, PlaceOutside
<1>5. QED
  BY <1>1, <1>2, <1>3, <1>4

\* One tree alone is changed: it comes to a, with metadata m.
OnlyChange(t, a, m) ==
  /\ at'[t] = a /\ meta'[t] = m
  /\ \A u \in Trees \ {t} : at'[u] = at[u] /\ meta'[u] = meta[u]

\* Where the tree comes is then the only home of its project that changes.
LEMMA OneTree ==
  ASSUME DiskInOrder, NEW t \in Trees, NEW a, NEW m, OnlyChange(t, a, m), bare' = {},
         a # Nowhere => /\ a \in dirs' /\ TreesAt(a) \subseteq {t}
                        /\ m # NoMeta /\ m.key = Of(t)
                        /\ \E x \in PlacesOf(Of(t)) : a \in {x, SwapName(x)},
         \A u \in OnDisk \ {t} : at[u] \in dirs',
         \A e \in dirs' : DirPlaced(e)
  PROVE  /\ DiskInOrder'
         /\ \A q \in Projects \ {Of(t)} : Homes(q)' = Homes(q)
         /\ Homes(Of(t))' = (Homes(Of(t)) \ {at[t]})
                            \cup (IF a # Nowhere /\ ~InSwap(a) /\ m.path = a THEN {a} ELSE {})
<1>1. \A u \in OnDisk' :
        \/ u = t /\ a # Nowhere
        \/ u \in OnDisk \ {t} /\ at'[u] = at[u] /\ meta'[u] = meta[u]
  BY DEF OnDisk, OnlyChange
<1>2. ASSUME NEW u \in OnDisk' PROVE TreePlaced(u)'
  <2>1. CASE u = t /\ a # Nowhere
    BY <2>1 DEF TreePlaced, OnlyChange
  <2>2. CASE u \in OnDisk \ {t} /\ at'[u] = at[u] /\ meta'[u] = meta[u]
    BY <2>2 DEF TreePlaced, DiskInOrder
  <2>3. QED
    BY <1>1, <1>2, <2>1, <2>2
<1>3. ASSUME NEW u \in OnDisk', NEW v \in OnDisk', at'[u] = at'[v] PROVE u = v
  BY <1>1, <1>3 DEF DiskInOrder, OnlyChange, TreesAt
<1>4. DiskInOrder'
  BY <1>2, <1>3 DEF DiskInOrder, DirPlaced
<1>5. ASSUME NEW q \in Projects \ {Of(t)} PROVE Homes(q)' = Homes(q)
  BY DEF Homes, Home, OnDisk, OnlyChange
<1>6. \A u \in Trees \ {t} : Home(u)' <=> Home(u)
  BY DEF Home, OnDisk, OnlyChange
<1>7. \A u \in Trees \ {t} : Home(u) => at[u] # at[t]
  BY DEF Home, OnDisk, DiskInOrder
<1>8. Home(t)' <=> a # Nowhere /\ ~InSwap(a) /\ m.path = a
  BY DEF Home, OnDisk, OnlyChange
<1>9. Homes(Of(t))' = (Homes(Of(t)) \ {at[t]})
                            \cup (IF a # Nowhere /\ ~InSwap(a) /\ m.path = a THEN {a} ELSE {})
  BY <1>6, <1>7, <1>8 DEF Homes, OnlyChange
<1>10. QED
  BY <1>4, <1>5, <1>9

\* The homes of p come to be hs, and those of others stay as they are.
OthersStay(p) == \A q \in Projects \ {p} : Homes(q)' = Homes(q)
HomesBecome(p, hs) == Homes(p)' = hs /\ OthersStay(p)

\* git finds a tree from its own directory.
LEMMA RepoHere ==
  ASSUME TypeOK, DiskInOrder, NEW t \in OnDisk
  PROVE  Repo(at[t]) = {t} /\ GitWorks(at[t])
<1> DEFINE d == at[t]
           checkouts == {u \in OnDisk \ bare : at[u] \in Around(d)}
<1>1. d \in Path /\ t \in checkouts
  BY DEF OnDisk, TypeOK, DiskOK, DiskInOrder, Around, Nowhere
<1>2. \A u \in checkouts : Len(at[u]) \in Nat /\ (u # t => Len(at[u]) < Len(d))
  <2> TAKE u \in checkouts
  <2>1. at[u] \in Path /\ Len(at[u]) \in Nat /\ Len(d) \in Nat
    BY <1>1, AroundPath, LenProperties DEF Path
  <2>2. ASSUME u # t PROVE Len(at[u]) < Len(d)
    <3>1. at[u] # d
      BY <1>1, <2>2 DEF DiskInOrder
    <3>2. Under(at[u], d)
      BY <1>1, <3>1, AncestorsAround DEF Around
    <3>3. QED
      BY <1>1, <2>1, <3>1, <3>2, UnderBegins
  <2>3. QED
    BY <2>1, <2>2
<1>3. Len(d) \in Nat
  BY <1>1, LenProperties DEF Path
<1>4. Repo(d) = {u \in checkouts : \A v \in checkouts : Len(at[v]) <= Len(at[u])}
  BY DEF Repo
<1> HIDE DEF checkouts
<1>5. \A v \in checkouts : Len(at[v]) <= Len(d)
  BY <1>2, <1>3
<1>6. t \in Repo(d)
  BY <1>1, <1>4, <1>5
<1>7. \A u \in Repo(d) : u = t
  BY <1>1, <1>2, <1>3, <1>4
<1>8. Exists(d)
  BY DEF Exists, DiskInOrder, TreePlaced
<1>9. QED
  BY <1>6, <1>7, <1>8 DEF GitWorks

\* A project that is deleted has nothing in it but itself, and is gone.
LEMMA RemoveHome ==
  ASSUME TypeOK, Orderly, DiskInOrder, NEW p \in Projects, NEW d, Homes(p) = {d},
         ~HasWork(d), RemoveTree(d)
  PROVE  DiskInOrder' /\ HomesBecome(p, {})
<1>1. PICK t \in Trees : Home(t) /\ Of(t) = p /\ at[t] = d
  BY DEF Homes
<1>2. t \in OnDisk /\ bare = {}
  BY <1>1 DEF Home, DiskInOrder
<1>3. Repo(d) = {t}
  BY <1>1, <1>2, RepoHere
<1>4. \A u \in OnDisk : Under(d, at[u]) <=> u = t
  BY <1>1, <1>2, <1>3 DEF HasWork, Orderly, Under
<1>5. OnlyChange(t, Nowhere, NoMeta)
  BY <1>1, <1>2, <1>4 DEF RemoveTree, OnlyChange, OnDisk
<1>6. bare' = {} /\ dirs' \subseteq dirs
  BY <1>2 DEF RemoveTree
<1>7. \A u \in OnDisk \ {t} : at[u] \in dirs'
  <2> TAKE u \in OnDisk \ {t}
  <2>1. at[u] \in dirs /\ ~Under(d, at[u]) /\ Under(at[u], at[u])
    BY <1>4 DEF DiskInOrder, TreePlaced, Under
  <2>2. QED
    BY <2>1 DEF RemoveTree
<1>8. \A e \in dirs' : DirPlaced(e)
  BY <1>6 DEF DiskInOrder
<1>9. /\ DiskInOrder' /\ OthersStay(p)
      /\ Homes(p)' = (Homes(p) \ {d}) \cup {}
  BY <1>1, <1>5, <1>6, <1>7, <1>8, OneTree DEF OthersStay
<1>10. QED
  BY <1>9 DEF HomesBecome

\* What is written for p in its place makes this its home.
LEMMA WriteHome ==
  ASSUME TypeOK, Orderly, DiskInOrder, NEW p \in DOMAIN manifest, manifest[p] \in PlacesOf(p),
         NEW t \in Trees, Of(t) = p, at[t] = manifest[p], Homes(p) \subseteq {manifest[p]},
         WriteMetadata(p)
  PROVE  DiskInOrder' /\ HomesBecome(p, {manifest[p]})
<1> DEFINE d == manifest[p]
           m == WrittenFor(p)
<1>1. d \in Path /\ p \in Projects /\ ~InSwap(d) /\ \A e \in Around(d) : DirPlaced(e)
  BY KnownPaths, PlaceOutside
<1>2. t \in OnDisk /\ d # Nowhere /\ TreesAt(d) = {t}
  BY <1>1, PathSomewhere DEF OnDisk, TreesAt, DiskInOrder
<1>3. /\ dirs' = dirs \cup Around(d) /\ bare' = {} /\ at' = at
      /\ meta' = [u \in Trees |-> IF u \in {t} THEN m ELSE meta[u]]
  BY <1>2 DEF WriteMetadata, WrittenFor, DiskInOrder
<1>4. OnlyChange(t, d, m)
  BY <1>3 DEF OnlyChange
<1>5. m.key = p /\ m # NoMeta /\ m.path = d
  BY DEF WrittenFor, NoMeta
<1> HIDE DEF m
<1>6. d \in dirs' /\ (\A u \in OnDisk \ {t} : at[u] \in dirs') /\ \A e \in dirs' : DirPlaced(e)
  BY <1>1, <1>3 DEF DiskInOrder, TreePlaced, Around
<1>7. /\ DiskInOrder' /\ OthersStay(p)
      /\ Homes(p)' = (Homes(p) \ {d}) \cup (IF d # Nowhere /\ ~InSwap(d) /\ m.path = d THEN {d} ELSE {})
  BY <1>2, <1>3, <1>4, <1>5, <1>6, OneTree DEF OthersStay
<1>8. QED
  BY <1>1, <1>2, <1>5, <1>7 DEF HomesBecome

\* So does a new tree where there is none.
LEMMA NewHome ==
  ASSUME TypeOK, Orderly, DiskInOrder, NEW p \in DOMAIN manifest, manifest[p] \in PlacesOf(p),
         Homes(p) = {}, Exists(manifest[p]) => IsEmptyDir(manifest[p]), EnoughCopies(p),
         dirs' = dirs \cup Around(manifest[p]), bare' = bare,
         at' = [at EXCEPT ![Fresh(p)] = manifest[p]],
         meta' = [meta EXCEPT ![Fresh(p)] = WrittenFor(p)]
  PROVE  DiskInOrder' /\ HomesBecome(p, {manifest[p]})
<1> DEFINE d == manifest[p]
           m == WrittenFor(p)
           t == Fresh(p)
<1>1. d \in Path /\ p \in Projects /\ ~InSwap(d) /\ \A e \in Around(d) : DirPlaced(e)
  BY KnownPaths, PlaceOutside
<1>2. t \in Trees /\ at[t] = Nowhere /\ Of(t) = p
  BY <1>1, FreshTree DEF Fresh, Of
<1>3. at' = [at EXCEPT ![t] = d] /\ meta' = [meta EXCEPT ![t] = m]
  OBVIOUS
<1> HIDE DEF t
<1>4. OnlyChange(t, d, m)
  BY <1>2, <1>3 DEF OnlyChange, TypeOK, DiskOK
<1>5. m.key = p /\ m # NoMeta /\ m.path = d
  BY DEF WrittenFor, NoMeta
<1>6. d # Nowhere /\ TreesAt(d) = {} /\ bare' = {}
  BY <1>1, PathSomewhere DEF TreesAt, DiskInOrder, TreePlaced, Exists, IsEmptyDir
<1> HIDE DEF m
<1>7. d \in dirs' /\ (\A u \in OnDisk \ {t} : at[u] \in dirs') /\ \A e \in dirs' : DirPlaced(e)
  BY <1>1 DEF DiskInOrder, TreePlaced, Around
<1>8. /\ DiskInOrder' /\ OthersStay(p)
      /\ Homes(p)' = (Homes(p) \ {at[t]}) \cup (IF d # Nowhere /\ ~InSwap(d) /\ m.path = d THEN {d} ELSE {})
  BY <1>2, <1>4, <1>5, <1>6, <1>7, OneTree DEF OthersStay
<1>9. QED
  BY <1>1, <1>2, <1>5, <1>6, <1>8 DEF HomesBecome

\* A project that moves comes into the swap directory, and nothing else does.
LEMMA HomeToSwap ==
  ASSUME TypeOK, Orderly, DiskInOrder, NEW p \in Projects,
         NEW s \in PlacesOf(p), NEW y \in PlacesOf(p), s # y, Homes(p) = {s},
         ~Exists(SwapName(s)), Rename(s, SwapName(s), dirs)
  PROVE  /\ DiskInOrder' /\ HomesBecome(p, {})
         /\ \E t \in Trees : Of(t) = p /\ at'[t] = SwapName(s)
<1> DEFINE n == SwapName(s)
<1>1. s \in Path /\ n \in Path /\ InSwap(n) /\ Carried(s, s, n) = n
  BY PlaceOutside, CarriedItself
<1>2. PICK t \in Trees : Home(t) /\ Of(t) = p /\ at[t] = s
  BY DEF Homes
<1>3. t \in OnDisk /\ meta[t].key = p /\ meta[t] # NoMeta
  BY <1>2 DEF Home, DiskInOrder, TreePlaced
<1>4. \A e \in dirs : Under(s, e) <=> e = s
  BY MoverAlone DEF DiskInOrder, Under
<1>5. \A u \in OnDisk : Under(s, at[u]) <=> u = t
  BY <1>2, <1>3, <1>4 DEF DiskInOrder, TreePlaced
<1>6. OnlyChange(t, n, meta[t])
  BY <1>1, <1>2, <1>3, <1>5 DEF Rename, OnlyChange, OnDisk
<1>7. n # Nowhere /\ TreesAt(n) = {} /\ bare' = {} /\ n \in {s, SwapName(s)}
  BY <1>1, PathSomewhere DEF TreesAt, DiskInOrder, TreePlaced, Exists, Rename
<1>8. dirs' = {IF e = s THEN n ELSE e : e \in dirs}
  BY <1>1, <1>4 DEF Rename
<1>9. DirPlaced(n)
  BY DEF DirPlaced
<1>10. n \in dirs' /\ (\A u \in OnDisk \ {t} : at[u] \in dirs') /\ \A e \in dirs' : DirPlaced(e)
  BY <1>2, <1>3, <1>5, <1>8, <1>9 DEF DiskInOrder, TreePlaced, Under
<1> HIDE DEF n
<1>11. /\ DiskInOrder' /\ OthersStay(p)
       /\ Homes(p)' = (Homes(p) \ {s}) \cup (IF n # Nowhere /\ ~InSwap(n) /\ meta[t].path = n THEN {n} ELSE {})
  BY <1>2, <1>3, <1>6, <1>7, <1>10, OneTree DEF OthersStay, n
<1>12. Homes(p)' = {}
  BY <1>1, <1>11
<1>13. at'[t] = n
  BY <1>6 DEF OnlyChange
<1>14. QED
  BY <1>2, <1>11, <1>12, <1>13 DEF HomesBecome, n

\* And out of it again.
LEMMA HomeFromSwap ==
  ASSUME TypeOK, Orderly, DiskInOrder, NEW p \in Projects, NEW src \in Path,
         NEW t \in Trees, Of(t) = p, at[t] = SwapName(src), Homes(p) = {},
         NEW d \in PlacesOf(p), NEW ds, dirs \subseteq ds, \A e \in ds : DirPlaced(e), d \notin ds,
         Rename(SwapName(src), d, ds)
  PROVE  /\ DiskInOrder' /\ OthersStay(p) /\ Homes(p)' \subseteq {d}
         /\ at'[t] = d
<1> DEFINE n == SwapName(src)
<1>1. d \in Path /\ n \in Path /\ ~InSwap(d) /\ Carried(n, n, d) = d
  BY PlaceOutside, CarriedItself, SwapNamePath
<1>2. t \in OnDisk /\ d # Nowhere
  BY <1>1, PathSomewhere DEF OnDisk
<1>3. meta[t].key = p /\ meta[t] # NoMeta /\ n \in dirs
  BY <1>2 DEF DiskInOrder, TreePlaced
<1>4. \A e \in ds : Under(n, e) <=> e = n
  BY SwapEntry DEF Under
<1>5. \A u \in OnDisk : at[u] \in ds /\ (Under(n, at[u]) <=> u = t)
  BY <1>2, <1>4 DEF DiskInOrder, TreePlaced
<1>6. OnlyChange(t, d, meta[t])
  BY <1>1, <1>2, <1>5 DEF Rename, OnlyChange, OnDisk
<1>7. TreesAt(d) = {} /\ bare' = {} /\ d \in {d, SwapName(d)}
  BY DEF TreesAt, DiskInOrder, TreePlaced, Rename
<1>8. dirs' = {IF e = n THEN d ELSE e : e \in ds}
  BY <1>1, <1>4 DEF Rename
<1>9. DirPlaced(d)
  BY DEF DirPlaced, Around
<1>10. d \in dirs' /\ (\A u \in OnDisk \ {t} : at[u] \in dirs') /\ \A e \in dirs' : DirPlaced(e)
  BY <1>3, <1>4, <1>5, <1>8, <1>9
<1> HIDE DEF n
<1>11. /\ DiskInOrder' /\ OthersStay(p)
       /\ Homes(p)' = (Homes(p) \ {n}) \cup (IF d # Nowhere /\ ~InSwap(d) /\ meta[t].path = d THEN {d} ELSE {})
  BY <1>2, <1>3, <1>6, <1>7, <1>10, OneTree DEF OthersStay, n
<1>12. QED
  BY <1>6, <1>11 DEF OnlyChange

\* Where trees stay as they are, so do homes.
LEMMA HomesStay ==
  ASSUME DiskInOrder, UNCHANGED <<at, meta, bare>>, \A e \in dirs' : DirPlaced(e),
         \A u \in OnDisk : at[u] \in dirs'
  PROVE  DiskInOrder' /\ \A q \in Projects : Homes(q)' = Homes(q)
BY DEF DiskInOrder, TreePlaced, OnDisk, Homes, Home, DirPlaced

-----------------------------------------------------------------------------
(* Consistency: the order of the operations.                                 *)

\* No project has two homes.
OneHome == \A p \in Projects : \A x, y \in Homes(p) : x = y

\* l says of all projects where they are.
HomeIn(l, p) == IF p \in DOMAIN l THEN {l[p].path} ELSE {}
IsMap(l) == \A p \in Projects : Homes(p) = HomeIn(l, p)

\* The operations that are still to come in this attempt, and the move under way.
Underway == phase \in Range(Phases) \cup {"moving", "moved"}
Current == IF phase \in {"moving", "moved"} THEN "move" ELSE phase
Known == DOMAIN local \cup DOMAIN manifest
Coming == left \cup {p \in Known : Number(Kind(p)) > Number(Current)}
OnTheWay == IF phase \in {"moving", "moved"} THEN {m[1] : m \in moving} ELSE {}

\* The tree of the project on the way is where the first or the second rename has put it.
MoveInOrder ==
  \E p \in left, t \in Trees :
    /\ moving = {<<p, local[p].path>>} /\ Of(t) = p
    /\ phase = "moving" => at[t] = SwapName(local[p].path) /\ Homes(p) = {}
    /\ phase = "moved" => at[t] = manifest[p] /\ Homes(p) \subseteq {manifest[p]}

\* parentSrcPath is that of a move that is done or under way.
ParentDone ==
  psrc # Nowhere =>
    \E q \in OpsOf("move") \ (Coming \ OnTheWay) : psrc = local[q].path /\ pdst = manifest[q]

\* Projects whose operation is still to come are where the attempt has found them, and the
\* others are where the manifest wants them.
OpsInOrder ==
  /\ left \subseteq OpsOf(Current)
  /\ failed => phase = "create"
  /\ \A p \in Coming \ OnTheWay : Homes(p) = HomeIn(local, p)
  /\ \A p \in DOMAIN manifest \ (Ignore \cup Coming) : failed \/ Homes(p) = {manifest[p]}
  /\ ParentDone

\* All is as the manifest says.
Given == \A p \in DOMAIN manifest \ Ignore : Homes(p) = {manifest[p]}

OrderInv ==
  /\ DiskInOrder /\ OneHome
  /\ Underway => OpsInOrder
  /\ ~Underway => psrc = Nowhere /\ ~failed
  /\ phase \in {"moving", "moved"} => MoveInOrder
  /\ phase = "test" => IsMap(local)
  /\ phase = "idle" \/ (phase = "load" /\ scan = "fast") => \A s \in latest : IsMap(s)
  /\ phase \in {"snapshot", "idle"} /\ ret = "nil" => Given

\* A scan finds every project at home, and git finds it there.
LEMMA HomesFound ==
  ASSUME TypeOK, Orderly, KnownPlaces, DiskInOrder, OneHome
  PROVE  IsMap(ByKey(Found)) /\ ~NameConflict /\ \A m \in Found : GitWorks(m.path)
<1>1. \A t \in Trees : Home(t) => Seen(t)
  <2> SUFFICES ASSUME NEW t \in Trees, Home(t), NEW d \in Ancestors(at[t]), NEW u \in TreesAt(d),
                      meta[u] # NoMeta
               PROVE  meta[u].path = d
    BY DEF Seen, Home, DiskInOrder, TreePlaced
  <2>1. t \in OnDisk /\ u \in OnDisk /\ at[u] = d /\ at[t] \in Path
    BY DEF Home, TreesAt, OnDisk, TypeOK, DiskOK, Nowhere
  <2>2. Under(d, at[t]) /\ d # at[t] /\ ~InSwap(d)
    BY <2>1, AncestorsAround, AncestorsSwap DEF Around, Home
  <2>3. d \in PlacesOf(Of(u)) /\ at[t] \in PlacesOf(Of(t)) /\ Of(u) \in Projects /\ Of(t) \in Projects
    BY <2>1, <2>2, TreeInOrder DEF Home
  <2>4. meta[u].path \in PlacesOf(Of(u))
    BY <2>1 DEF KnownPlaces, KnownOf, DiskInOrder, TreePlaced, OnDisk
  <2>5. QED
    BY <2>2, <2>3, <2>4 DEF Orderly, MoversApart
<1>2. \A t \in Trees : Seen(t) => Home(t)
  BY DEF Seen, Home
<1>3. \A m \in Found : \E t \in OnDisk : Home(t) /\ m = meta[t] /\ m.key = Of(t) /\ m.path = at[t]
  BY <1>2 DEF Found, Home, DiskInOrder, TreePlaced, OnDisk
<1>4. \A t \in Trees : Home(t) => meta[t] \in Found /\ meta[t].key = Of(t) /\ meta[t].path = at[t]
  BY <1>1 DEF Found, Home, DiskInOrder, TreePlaced
<1>5. \A m \in Found : m.key \in Projects /\ m.path \in Homes(m.key)
  BY <1>3 DEF Homes, OnDisk, Trees, Of
<1>6. \A m, n \in Found : m.key = n.key => m = n
  <2> SUFFICES ASSUME NEW m \in Found, NEW n \in Found, m.key = n.key PROVE m = n
    OBVIOUS
  <2>1. m.path = n.path
    BY <1>5 DEF OneHome
  <2>2. PICK t \in OnDisk : m = meta[t] /\ m.path = at[t]
    BY <1>3
  <2>3. PICK u \in OnDisk : n = meta[u] /\ n.path = at[u]
    BY <1>3
  <2>4. t = u
    BY <2>1, <2>2, <2>3 DEF DiskInOrder
  <2>5. QED
    BY <2>2, <2>3, <2>4
<1>7. \A m \in Found : GitWorks(m.path)
  BY <1>3, RepoHere
<1>8. \A p \in DOMAIN ByKey(Found) : ByKey(Found)[p] \in Found /\ ByKey(Found)[p].key = p
  BY DEF ByKey
<1>9. ASSUME NEW p \in Projects PROVE Homes(p) = HomeIn(ByKey(Found), p)
  <2>1. CASE p \in DOMAIN ByKey(Found)
    <3>1. ByKey(Found)[p].path \in Homes(p)
      BY <1>5, <1>8, <2>1
    <3>2. Homes(p) = {ByKey(Found)[p].path}
      BY <3>1 DEF OneHome
    <3>3. QED
      BY <2>1, <3>2 DEF HomeIn
  <2>2. CASE p \notin DOMAIN ByKey(Found)
    <3>1. \A m \in Found : m.key # p
      BY <2>2 DEF ByKey
    <3>2. Homes(p) = {}
      BY <1>4, <3>1 DEF Homes
    <3>3. QED
      BY <2>2, <3>2 DEF HomeIn
  <2>3. QED
    BY <2>1, <2>2
<1>10. QED
  BY <1>6, <1>7, <1>9 DEF IsMap, NameConflict

\* The numbers of the kinds of operations.
LEMMA KindNumbers ==
  /\ \A i \in 1..7 : Number(Phases[i]) = i
  /\ Number("status") = 7
  /\ \A p : Number(Kind(p)) \in 1..6 /\ Kind(p) = Phases[Number(Kind(p))]
<1>1. Number("status") = 7
  BY DEF Number, Phases
<1>2. \A i \in 1..7 : Number(Phases[i]) = i
  <2> TAKE i \in 1..7
  <2>1. i = 1 \/ i = 2 \/ i = 3 \/ i = 4 \/ i = 5 \/ i = 6 \/ i = 7
    OBVIOUS
  <2>2. QED
    BY <1>1, <2>1, PhaseNumbers DEF Phases
<1>3. ASSUME NEW p PROVE Number(Kind(p)) \in 1..6 /\ Kind(p) = Phases[Number(Kind(p))]
  <2>1. Kind(p) \in {"delete", "change-remote", "move", "update", "create", "null"}
    BY DEF Kind
  <2>2. QED
    BY <2>1, PhaseNumbers DEF Phases
<1>4. QED
  BY <1>1, <1>2, <1>3

LEMMA KindsKept ==
  ASSUME UNCHANGED <<local, manifest>>
  PROVE  (\A p : Kind(p)' = Kind(p)) /\ Known' = Known /\ \A k : OpsOf(k)' = OpsOf(k)
BY DEF Kind, Known, OpsOf

\* When phase number n is entered, all operations from it on are to come.
LEMMA EnterComing ==
  ASSUME NEW n \in 1..7, Enter(n), UNCHANGED <<local, manifest>>
  PROVE  /\ Underway' /\ phase' \notin {"moving", "moved"} /\ OnTheWay' = {}
         /\ (left \subseteq OpsOf(Current))'
         /\ Coming' = {p \in Known : Number(Kind(p)) >= n}
<1> DEFINE busy == {i \in n..7 : i = 7 \/ OpsOf(Phases[i]) # {}}
<1>1. \E i \in busy : \A j \in busy : i <= j
  <2>1. 7 \in busy /\ busy \subseteq 1..7
    OBVIOUS
  <2> HIDE DEF busy
  <2>2. QED
    BY <2>1
<1>2. PICK i \in busy : (\A j \in busy : i <= j) /\ phase' = Phases[i] /\ left' = OpsOf(Phases[i])
  <2> DEFINE i == CHOOSE k \in busy : \A j \in busy : k <= j
  <2>1. i \in busy /\ \A j \in busy : i <= j
    BY <1>1
  <2>2. phase' = Phases[i] /\ left' = OpsOf(Phases[i])
    BY PhaseNumbers DEF Enter
  <2>3. QED
    BY <2>1, <2>2
<1>3. i \in 1..7 /\ n <= i
  BY <1>2
<1>4. phase' \in Range(Phases) /\ phase' \notin {"moving", "moved"}
  BY <1>2, <1>3 DEF Range, Phases
<1>5. Current' = phase' /\ Number(Current)' = i
  <2>1. Current' = phase'
    BY <1>4 DEF Current
  <2>2. Number(phase') = i
    BY <1>2, <1>3, KindNumbers
  <2>3. Number(Current)' = Number(Current')
    BY DEF Number, Phases
  <2>4. QED
    BY <2>1, <2>2, <2>3
<1>6. ASSUME NEW p \in Known PROVE p \in OpsOf(Phases[i]) \/ Number(Kind(p)) > i <=> Number(Kind(p)) >= n
  <2>1. Number(Kind(p)) \in 1..6 /\ Kind(p) = Phases[Number(Kind(p))]
    BY KindNumbers
  <2>2. p \in OpsOf(Phases[Number(Kind(p))])
    BY <2>1 DEF OpsOf, Known
  <2>3. p \in OpsOf(Phases[i]) => Number(Kind(p)) = i
    BY <1>3, KindNumbers DEF OpsOf
  <2>4. Number(Kind(p)) >= n => i <= Number(Kind(p))
    <3>1. Number(Kind(p)) >= n => Number(Kind(p)) \in busy
      BY <2>1, <2>2
    <3>2. QED
      BY <1>2, <3>1
  <2>5. QED
    BY <1>3, <2>1, <2>2, <2>3, <2>4
<1>7. Coming' = OpsOf(Phases[i]) \cup {p \in Known : Number(Kind(p)) > i}
  <2>1. \A p : Number(Kind(p))' = Number(Kind(p))
    BY KindsKept DEF Number, Phases
  <2>2. QED
    BY <1>2, <1>5, <2>1, KindsKept DEF Coming
<1>8. OpsOf(Phases[i]) \subseteq Known
  BY DEF OpsOf, Known
<1>9. Coming' = {p \in Known : Number(Kind(p)) >= n}
  BY <1>6, <1>7, <1>8
<1>10. (left \subseteq OpsOf(Current))'
  <2>1. OpsOf(Current)' = OpsOf(phase')
    BY <1>5, KindsKept DEF OpsOf, Kind
  <2>2. QED
    BY <1>2, <2>1
<1>11. QED
  BY <1>4, <1>9, <1>10 DEF Underway, OnTheWay

\* An operation that is done is to come no more.
LEMMA DoneComing ==
  ASSUME NEW ph \in {"delete", "change-remote", "move", "update", "create", "null"},
         Current = ph, left \subseteq OpsOf(ph), NEW p \in left, Done(ph, p),
         UNCHANGED <<local, manifest>>
  PROVE  /\ Underway' /\ phase' \notin {"moving", "moved"} /\ OnTheWay' = {}
         /\ (left \subseteq OpsOf(Current))'
         /\ Coming' = Coming \ {p}
<1>1. Number(ph) \in 1..6 /\ Number(Current) = Number(ph)
  BY PhaseNumbers
<1>2. \A q \in left : Number(Kind(q)) = Number(ph) /\ q \in Known
  BY DEF OpsOf, Known
<1>3. CASE left = {p}
  <2> DEFINE n == Number(ph) + 1
  <2>1. Enter(n) /\ n \in 1..7
    BY <1>1, <1>3 DEF Done
  <2> HIDE DEF n
  <2>2. Coming' = {q \in Known : Number(Kind(q)) >= n}
    BY <2>1, EnterComing
  <2>3. \A q \in Known : Number(Kind(q)) >= n <=> Number(Kind(q)) > Number(ph)
    BY <1>1, KindNumbers DEF n
  <2>4. Coming \ {p} = {q \in Known : Number(Kind(q)) > Number(ph)}
    BY <1>1, <1>2, <1>3 DEF Coming
  <2>5. QED
    BY <2>1, <2>2, <2>3, <2>4, EnterComing
<1>4. CASE left # {p}
  <2>1. phase' = ph /\ left' = left \ {p}
    BY <1>4 DEF Done
  <2>2. Underway' /\ phase' \notin {"moving", "moved"} /\ OnTheWay' = {} /\ Current' = ph
    BY <2>1 DEF Underway, OnTheWay, Current, Range, Phases
  <2>3. OpsOf(Current)' = OpsOf(ph)
    BY <2>2, KindsKept DEF OpsOf
  <2>4. Coming' = (left \ {p}) \cup {q \in Known : Number(Kind(q)) > Number(ph)}
    <3>1. \A q : (Number(Kind(q)) > Number(Current))' <=> Number(Kind(q)) > Number(ph)
      BY <2>2, KindsKept DEF Number, Phases
    <3>2. QED
      BY <2>1, <3>1, KindsKept DEF Coming
  <2>5. Coming' = Coming \ {p}
    BY <1>1, <1>2, <2>4 DEF Coming
  <2>6. QED
    BY <2>1, <2>2, <2>3, <2>5
<1>5. QED
  BY <1>3, <1>4

\* A project has one home again.
LEMMA OneHomeKept ==
  ASSUME OneHome, NEW p, OthersStay(p), \A x, y \in Homes(p)' : x = y
  PROVE  OneHome'
BY DEF OneHome, OthersStay

\* An attempt that ends leaves only the disk.
LEMMA FailsInOrder ==
  ASSUME DiskInOrder', OneHome', Fails
  PROVE  OrderInv'
<1>1. EndAttempt("error")
  BY DEF Fails
<1>2. psrc' = Nowhere /\ failed' = FALSE
  BY <1>1 DEF EndAttempt, Forget, Nowhere
<1>3. (phase' = "load" /\ scan' = "full") \/ (phase' = "snapshot" /\ ret' = "error")
  BY <1>1 DEF EndAttempt
<1>4. ~Underway' /\ phase' \notin {"moving", "moved", "test", "idle"}
  BY <1>3 DEF Underway, Range, Phases
<1>5. QED
  BY <1>2, <1>3, <1>4 DEF OrderInv

\* p's operation is done, and the others go on.
LEMMA GoesOn ==
  ASSUME OrderInv,
         NEW ph \in {"delete", "change-remote", "move", "update", "create", "null"},
         Underway, Current = ph, ~failed, NEW p \in left, Done(ph, p),
         UNCHANGED <<local, manifest, failed>>,
         OnTheWay \subseteq {p},
         DiskInOrder', OneHome', OthersStay(p),
         p \in DOMAIN manifest \ Ignore => Homes(p)' = {manifest[p]},
         \/ UNCHANGED <<psrc, pdst>>
         \/ ph = "move" /\ psrc' = local[p].path /\ pdst' = manifest[p],
         DOMAIN local \subseteq Projects, DOMAIN manifest \subseteq Projects
  PROVE  OrderInv'
<1>1. OpsInOrder /\ left \subseteq OpsOf(ph)
  BY DEF OrderInv, OpsInOrder
<1>2. /\ Underway' /\ phase' \notin {"moving", "moved"} /\ OnTheWay' = {}
      /\ (left \subseteq OpsOf(Current))'
      /\ Coming' = Coming \ {p}
  BY <1>1, DoneComing
<1>3. Coming \subseteq Projects
  BY <1>1 DEF Coming, Known, OpsOf
<1>4. \A q \in (Coming \ OnTheWay)' : Homes(q)' = HomeIn(local, q)'
  <2> TAKE q \in (Coming \ OnTheWay)'
  <2>1. q \in Coming \ OnTheWay /\ q # p /\ q \in Projects
    BY <1>2, <1>3
  <2>2. Homes(q)' = Homes(q) /\ Homes(q) = HomeIn(local, q)
    BY <1>1, <2>1 DEF OthersStay, OpsInOrder
  <2>3. QED
    BY <2>2 DEF HomeIn
<1>5. \A q \in (DOMAIN manifest \ (Ignore \cup Coming))' : Homes(q)' = {manifest'[q]}
  <2> TAKE q \in (DOMAIN manifest \ (Ignore \cup Coming))'
  <2>1. q \in DOMAIN manifest /\ q \notin Ignore /\ (q = p \/ q \notin Coming) /\ q \in Projects
    BY <1>2
  <2>2. q # p => Homes(q)' = Homes(q) /\ Homes(q) = {manifest[q]}
    BY <1>1, <2>1 DEF OthersStay, OpsInOrder
  <2>3. QED
    BY <2>1, <2>2
<1>6. ParentDone'
  <2>1. CASE UNCHANGED <<psrc, pdst>>
    <3> SUFFICES ASSUME psrc # Nowhere
                 PROVE  \E q \in (OpsOf("move") \ (Coming \ OnTheWay))' : psrc = local[q].path /\ pdst = manifest[q]
      BY <2>1 DEF ParentDone, Nowhere
    <3>1. PICK q \in OpsOf("move") \ (Coming \ OnTheWay) : psrc = local[q].path /\ pdst = manifest[q]
      BY <1>1 DEF OpsInOrder, ParentDone
    <3>2. q \in OpsOf("move")' /\ q \notin Coming'
      BY <1>2, <3>1, KindsKept
    <3>3. QED
      BY <3>1, <3>2
  <2>2. CASE ph = "move" /\ psrc' = local[p].path /\ pdst' = manifest[p]
    <3>1. p \in OpsOf("move")' /\ p \notin Coming'
      BY <1>1, <1>2, <2>2, KindsKept
    <3>2. QED
      BY <2>2, <3>1 DEF ParentDone
  <2>3. QED
    BY <2>1, <2>2
<1>7. OpsInOrder'
  BY <1>2, <1>4, <1>5, <1>6 DEF OpsInOrder
<1>8. phase' \notin {"test", "idle", "load", "snapshot"}
  BY <1>2 DEF Underway, Range, Phases
<1>9. QED
  BY <1>2, <1>7, <1>8 DEF OrderInv

\* What is written to metadata is what the manifest says.
LEMMA MetaStep ==
  ASSUME TypeOK, LeftKnown, [Next]_vars
  PROVE  MetaWritten
<1>1. UNCHANGED meta => MetaWritten
  BY DEF MetaWritten
<1>2. CASE Begin \/ Load \/ Test \/ Status \/ OpFails \/ Snapshot \/ Crash \/ \E t \in Trees : UserWorks(t)
  BY <1>1, <1>2 DEF Begin, Load, Test, Status, OpFails, Snapshot, Crash, UserWorks, fsVars
<1>3. ASSUME NEW p \in Projects, Operation(p)
      PROVE  MetaWritten
  <2>1. CASE Delete(p)
    BY <2>1 DEF Delete, RemoveTree, MetaWritten, fsVars
  <2>2. CASE Move(p) \/ \E m \in moving : MoveIn(p, m[2])
    BY <1>1, <2>2 DEF Move, MoveIn, TakeBack, Rename, fsVars
  <2>3. CASE Create(p)
    BY <2>3, CreateApart
  <2>4. CASE ChangeRemote(p) \/ UpdateOp(p) \/ Null(p) \/ \E m \in moving : MoveFinish(p, m[2])
    <3>1. p \in DOMAIN manifest
      BY <2>4 DEF ChangeRemote, UpdateOp, Null, MoveFinish, IsNext, LeftKnown
    <3>2. WriteMetadata(p) \/ UNCHANGED fsVars
      BY <2>4 DEF ChangeRemote, UpdateOp, Null, MoveFinish, SyncAndWrite
    <3>3. QED
      BY <3>1, <3>2, WriteMetadataApart, DiskLeftApart
  <2>5. QED
    BY <1>3, <2>1, <2>2, <2>3, <2>4 DEF Operation
<1>4. CASE UNCHANGED vars
  BY <1>1, <1>4 DEF vars
<1>5. QED
  BY <1>2, <1>3, <1>4 DEF Next, Step, Halted

\* All that an update keeps, as long as it is not killed.
InOrder == TypeOK /\ LeftKnown /\ KnownPlaces /\ OrderInv

LEMMA DiskKept ==
  ASSUME DiskInOrder, OneHome, UNCHANGED fsVars
  PROVE  DiskInOrder' /\ OneHome' /\ \A q : Homes(q)' = Homes(q)
<1>1. \A q : Homes(q)' = Homes(q)
  BY DEF fsVars, Homes, Home, OnDisk
<1>2. DiskInOrder'
  BY DEF fsVars, DiskInOrder, TreePlaced, OnDisk, DirPlaced
<1>3. QED
  BY <1>1, <1>2 DEF OneHome

LEMMA BeginInOrder ==
  ASSUME Orderly, InOrder, Begin
  PROVE  OrderInv'
<1>1. DiskInOrder' /\ OneHome' /\ \A q : Homes(q)' = Homes(q)
  BY DiskKept DEF Begin, InOrder, OrderInv
<1>2. phase = "idle" /\ phase' = "load" /\ ret' = "none"
  BY DEF Begin
<1>3. ~Underway /\ ~Underway'
  BY <1>2 DEF Underway, Range, Phases
<1>4. psrc' = Nowhere /\ ~failed'
  BY <1>3 DEF Begin, moveVars, InOrder, OrderInv
<1>5. \A s \in latest' : IsMap(s)'
  BY <1>1, <1>2 DEF Begin, InOrder, OrderInv, IsMap, HomeIn
<1>6. QED
  BY <1>1, <1>2, <1>3, <1>4, <1>5 DEF OrderInv

LEMMA LoadInOrder ==
  ASSUME Orderly, InOrder, Load
  PROVE  OrderInv'
<1>1. DiskInOrder' /\ OneHome' /\ \A q : Homes(q)' = Homes(q)
  BY DiskKept DEF Load, InOrder, OrderInv
<1>2. CASE Fails
  BY <1>1, <1>2, FailsInOrder
<1>3. CASE ~Fails
  <2>1. phase = "load" /\ phase' = "test" /\ local' = LocalProjects /\ UNCHANGED <<moveVars, failed>>
    BY <1>3 DEF Load
  <2>2. ~Underway /\ ~Underway'
    BY <2>1 DEF Underway, Range, Phases
  <2>3. psrc' = Nowhere /\ ~failed'
    BY <2>1, <2>2 DEF moveVars, InOrder, OrderInv
  <2>4. IsMap(LocalProjects)
    <3>1. CASE FromSnapshot
      <4>1. LocalProjects \in latest /\ scan = "fast"
        BY <3>1 DEF FromSnapshot, LocalProjects
      <4>2. QED
        BY <2>1, <4>1 DEF InOrder, OrderInv
    <3>2. CASE ~FromSnapshot
      BY <3>2, HomesFound DEF LocalProjects, InOrder, OrderInv
    <3>3. QED
      BY <3>1, <3>2
  <2>5. IsMap(local)'
    BY <1>1, <2>1, <2>4 DEF IsMap, HomeIn
  <2>6. QED
    BY <1>1, <2>1, <2>2, <2>3, <2>5 DEF OrderInv
<1>4. QED
  BY <1>2, <1>3

LEMMA TestInOrder ==
  ASSUME Orderly, InOrder, Test
  PROVE  OrderInv'
<1>1. DiskInOrder' /\ OneHome' /\ \A q : Homes(q)' = Homes(q)
  BY DiskKept DEF Test, InOrder, OrderInv
<1>2. CASE Fails
  BY <1>1, <1>2, FailsInOrder
<1>3. CASE ~Fails
  <2>1. PICK n \in {1, 2} : Enter(n)
    BY <1>3 DEF Test
  <2>2. phase = "test" /\ UNCHANGED <<local, manifest, moveVars, failed>>
    BY <1>3 DEF Test, inputVars
  <2>3. ~Underway
    BY <2>2 DEF Underway, Range, Phases
  <2>4. psrc' = Nowhere /\ ~failed' /\ IsMap(local)
    BY <2>2, <2>3 DEF moveVars, InOrder, OrderInv
  <2>5. /\ Underway' /\ phase' \notin {"moving", "moved"} /\ OnTheWay' = {}
        /\ (left \subseteq OpsOf(Current))'
        /\ Coming' = {p \in Known : Number(Kind(p)) >= n}
    <3>1. n \in 1..7
      OBVIOUS
    <3>2. QED
      BY <2>1, <2>2, <3>1, EnterComing
  <2>6. \A p \in Coming' : Homes(p)' = HomeIn(local, p)'
    <3>1. Known \subseteq Projects
      BY KnownPaths DEF Known, InOrder
    <3>2. QED
      BY <1>1, <2>2, <2>4, <2>5, <3>1 DEF IsMap, HomeIn
  <2>7. \A p \in DOMAIN manifest : p \in Coming'
    <3> TAKE p \in DOMAIN manifest
    <3>1. Kind(p) # "delete" /\ p \in Known
      BY DEF Kind, Known
    <3>2. Number(Kind(p)) \in 1..6 /\ Kind(p) = Phases[Number(Kind(p))]
      BY KindNumbers
    <3>3. Number(Kind(p)) # 1
      BY <3>1, <3>2 DEF Phases
    <3>4. QED
      BY <2>5, <3>1, <3>2, <3>3
  <2>8. OpsInOrder'
    BY <2>2, <2>4, <2>5, <2>6, <2>7 DEF OpsInOrder, ParentDone
  <2>9. phase' \notin {"test", "idle", "load", "snapshot"}
    BY <2>5 DEF Underway, Range, Phases
  <2>10. QED
    BY <1>1, <2>5, <2>8, <2>9 DEF OrderInv
<1>4. QED
  BY <1>2, <1>3

\* Where the attempt has found p it is until its operation comes.
LEMMA Waiting ==
  ASSUME InOrder, Underway, NEW p \in left, p \notin OnTheWay
  PROVE  /\ p \in Coming /\ p \in OpsOf(Current) /\ p \in Projects
         /\ p \in DOMAIN local => Homes(p) = {local[p].path} /\ local[p].path \in PlacesOf(p)
         /\ p \notin DOMAIN local => Homes(p) = {}
         /\ p \in DOMAIN manifest => manifest[p] \in PlacesOf(p)
<1>1. p \in Coming /\ p \in OpsOf(Current) /\ p \in Projects
  BY KnownPaths DEF InOrder, OrderInv, OpsInOrder, Coming, OpsOf
<1>2. Homes(p) = HomeIn(local, p)
  BY <1>1 DEF InOrder, OrderInv, OpsInOrder
<1>3. QED
  BY <1>1, <1>2 DEF HomeIn, InOrder, KnownPlaces, KnownOf

LEMMA DeleteInOrder ==
  ASSUME Orderly, InOrder, NEW p, Delete(p)
  PROVE  OrderInv'
<1> DEFINE d == local[p].path
<1>1. /\ phase = "delete" /\ Underway /\ Current = "delete" /\ OnTheWay = {} /\ p \in left
      /\ UNCHANGED manifest
  BY DEF Delete, IsNext, Underway, Current, OnTheWay, Range, Phases, inputVars
<1>2. p \in DOMAIN local /\ p \notin DOMAIN manifest /\ Homes(p) = {d} /\ p \in Projects
  BY <1>1, Waiting DEF OpsOf, Kind
<1>3. DiskInOrder /\ OneHome /\ ~failed
  BY <1>1 DEF InOrder, OrderInv, OpsInOrder
<1>4. CASE UNCHANGED fsVars /\ Fails
  BY <1>3, <1>4, DiskKept, FailsInOrder
<1>5. ASSUME Done("delete", p), UNCHANGED <<local, moveVars, failed>>,
             UNCHANGED fsVars \/ (RemoveTree(d) /\ ~HasWork(d))
      PROVE  OrderInv'
  <2>1. DiskInOrder' /\ OthersStay(p) /\ OneHome'
    <3>1. CASE UNCHANGED fsVars
      BY <1>3, <3>1, DiskKept DEF OthersStay
    <3>2. CASE RemoveTree(d) /\ ~HasWork(d)
      <4>1. DiskInOrder' /\ HomesBecome(p, {})
        BY <1>2, <1>3, <3>2, RemoveHome DEF InOrder
      <4>2. QED
        BY <1>3, <4>1, OneHomeKept DEF HomesBecome
    <3>3. QED
      BY <1>5, <3>1, <3>2
  <2>2. QED
    BY <1>1, <1>2, <1>3, <1>5, <2>1, GoesOn, KnownPaths DEF InOrder, moveVars
<1>6. QED
  BY <1>4, <1>5 DEF Delete

\* A project with an operation that works in its place in the manifest is there.
LEMMA InPlace ==
  ASSUME Orderly, InOrder, NEW p \in left, phase \in {"change-remote", "update", "null"}
  PROVE  /\ Underway /\ Current = phase /\ OnTheWay = {} /\ ~failed
         /\ p \in DOMAIN manifest /\ p \in Projects
         /\ manifest[p] \in PlacesOf(p) /\ Homes(p) = {manifest[p]}
<1>1. Underway /\ Current = phase /\ OnTheWay = {}
  BY DEF Underway, Current, OnTheWay, Range, Phases
<1>2. ~failed
  BY <1>1 DEF InOrder, OrderInv, OpsInOrder
<1>3. Kind(p) = phase /\ p \in DOMAIN local \cup DOMAIN manifest /\ p \in Projects
  BY <1>1, Waiting DEF OpsOf
<1>4. p \in DOMAIN local /\ p \in DOMAIN manifest
  BY <1>3 DEF Kind
<1>5. /\ Homes(p) = {local[p].path} /\ local[p].path \in PlacesOf(p) /\ manifest[p] \in PlacesOf(p)
      /\ p \notin Moved => local[p].remote = "old"
  BY <1>1, <1>4, Waiting DEF InOrder, KnownPlaces, KnownOf
<1>6. local[p].path = manifest[p]
  <2>1. CASE phase = "change-remote"
    <3>1. local[p].remote # Remote(p)
      BY <1>3, <1>4, <2>1 DEF Kind
    <3>2. p \in Moved
      BY <1>5, <3>1 DEF Remote
    <3>3. QED
      BY <1>5, <3>2 DEF Orderly
  <2>2. CASE phase # "change-remote"
    BY <1>3, <1>4, <2>2 DEF Kind
  <2>3. QED
    BY <2>1, <2>2
<1>7. QED
  BY <1>1, <1>2, <1>3, <1>4, <1>5, <1>6

\* An operation that writes the metadata of p in its place.
LEMMA WrittenInOrder ==
  ASSUME Orderly, InOrder,
         NEW ph \in {"change-remote", "move", "update", "null"}, Underway, Current = ph,
         NEW p \in left, p \in DOMAIN manifest, OnTheWay \subseteq {p},
         NEW t \in Trees, Of(t) = p, at[t] = manifest[p], Homes(p) \subseteq {manifest[p]},
         WriteMetadata(p) \/ (UNCHANGED fsVars /\ Homes(p) = {manifest[p]}),
         Done(ph, p), UNCHANGED <<local, manifest, failed, moveVars>>
  PROVE  OrderInv'
<1>1. DiskInOrder /\ OneHome /\ ~failed /\ manifest[p] \in PlacesOf(p)
  <2>1. phase # "create"
    BY DEF Current
  <2>2. QED
    BY <2>1 DEF InOrder, OrderInv, OpsInOrder, KnownPlaces
<1>2. DiskInOrder' /\ OneHome' /\ HomesBecome(p, {manifest[p]})
  <2>1. CASE WriteMetadata(p)
    <3>1. DiskInOrder' /\ HomesBecome(p, {manifest[p]})
      BY <1>1, <2>1, WriteHome DEF InOrder
    <3>2. QED
      BY <1>1, <3>1, OneHomeKept DEF HomesBecome
  <2>2. CASE UNCHANGED fsVars /\ Homes(p) = {manifest[p]}
    BY <1>1, <2>2, DiskKept DEF HomesBecome, OthersStay
  <2>3. QED
    BY <2>1, <2>2
<1>3. QED
  BY <1>1, <1>2, GoesOn, KnownPaths DEF HomesBecome, InOrder, moveVars

LEMMA HomeTree ==
  ASSUME NEW p, NEW x \in Homes(p)
  PROVE  \E t \in Trees : t \in OnDisk /\ Of(t) = p /\ at[t] = x
BY DEF Homes, Home

LEMMA ChangeRemoteInOrder ==
  ASSUME Orderly, InOrder, NEW p, ChangeRemote(p)
  PROVE  OrderInv'
<1>1. phase = "change-remote" /\ p \in left /\ UNCHANGED manifest
  BY DEF ChangeRemote, IsNext, inputVars
<1>2. DiskInOrder /\ OneHome
  BY DEF InOrder, OrderInv
<1>3. CASE UNCHANGED fsVars /\ Fails
  BY <1>2, <1>3, DiskKept, FailsInOrder
<1>4. ASSUME Done("change-remote", p), UNCHANGED <<local, moveVars, failed>>,
             UNCHANGED fsVars \/ WriteMetadata(p)
      PROVE  OrderInv'
  <2>1. PICK t \in Trees : Of(t) = p /\ at[t] = manifest[p]
    BY <1>1, InPlace, HomeTree
  <2>2. QED
    BY <1>1, <1>4, <2>1, InPlace, WrittenInOrder
<1>5. QED
  BY <1>3, <1>4 DEF ChangeRemote

LEMMA SyncInOrder ==
  ASSUME Orderly, InOrder, NEW ph \in {"move", "update"}, Underway, Current = ph,
         NEW p \in left, p \in DOMAIN manifest, OnTheWay \subseteq {p},
         NEW t \in Trees, Of(t) = p, at[t] = manifest[p], Homes(p) \subseteq {manifest[p]},
         SyncAndWrite(ph, p)
  PROVE  OrderInv'
<1>1. DiskInOrder /\ OneHome
  BY DEF InOrder, OrderInv
<1>2. CASE UNCHANGED fsVars /\ Fails
  BY <1>1, <1>2, DiskKept, FailsInOrder
<1>3. CASE WriteMetadata(p) /\ Done(ph, p) /\ UNCHANGED <<local, moveVars, failed>>
  BY <1>3, WrittenInOrder DEF SyncAndWrite, inputVars
<1>4. QED
  BY <1>2, <1>3 DEF SyncAndWrite

LEMMA UpdateOpInOrder ==
  ASSUME Orderly, InOrder, NEW p, UpdateOp(p)
  PROVE  OrderInv'
<1>1. phase = "update" /\ p \in left
  BY DEF UpdateOp, IsNext
<1>2. PICK t \in Trees : Of(t) = p /\ at[t] = manifest[p]
  BY <1>1, InPlace, HomeTree
<1>3. QED
  BY <1>1, <1>2, InPlace, SyncInOrder DEF UpdateOp

LEMMA NullInOrder ==
  ASSUME Orderly, InOrder, NEW p, Null(p)
  PROVE  OrderInv'
<1>1. phase = "null" /\ p \in left
  BY DEF Null, IsNext
<1>2. PICK t \in Trees : Of(t) = p /\ at[t] = manifest[p]
  BY <1>1, InPlace, HomeTree
<1>3. QED
  BY <1>1, <1>2, InPlace, WrittenInOrder DEF Null, inputVars

\* A project that is to move has two places.
LEMMA Moving ==
  ASSUME Orderly, InOrder, NEW p \in left, phase \in {"move", "moving", "moved"}
  PROVE  /\ Underway /\ Current = "move" /\ ~failed
         /\ p \in OpsOf("move") /\ p \in Coming
         /\ p \in DOMAIN local /\ p \in DOMAIN manifest /\ p \in Projects
         /\ local[p].path \in PlacesOf(p) /\ manifest[p] \in PlacesOf(p)
         /\ local[p].path # manifest[p]
<1>1. Underway /\ Current = "move"
  BY DEF Underway, Current, Range, Phases
<1>2. ~failed /\ p \in OpsOf("move") /\ p \in Coming
  BY <1>1 DEF InOrder, OrderInv, OpsInOrder, Coming
<1>3. p \in DOMAIN local /\ p \in DOMAIN manifest /\ local[p].path # manifest[p]
  BY <1>2 DEF OpsOf, Kind
<1>4. QED
  BY <1>1, <1>2, <1>3, KnownPaths DEF InOrder, KnownPlaces, KnownOf

\* No project that moves has anything below it that might be taken to have moved along.
LEMMA SourceHere ==
  ASSUME Orderly, InOrder, phase = "move", NEW p \in left,
         Exists(Source(p)) \/ Source(p) = manifest[p]
  PROVE  ~WithParent(p) /\ Source(p) = local[p].path
<1> DEFINE s == local[p].path
           rest == SubSeq(s, Len(psrc) + 1, Len(s))
<1>1. SUFFICES ASSUME WithParent(p) PROVE FALSE
  BY DEF Source
<1>2. /\ p \in Coming /\ p \in Projects /\ s \in PlacesOf(p) /\ manifest[p] \in PlacesOf(p)
      /\ s \in Path /\ Underway /\ OnTheWay = {}
  BY Moving, PlacesArePaths DEF OnTheWay
<1>3. PICK q \in OpsOf("move") \ Coming : psrc = local[q].path /\ pdst = manifest[q]
  BY <1>1, <1>2 DEF WithParent, InOrder, OrderInv, OpsInOrder, ParentDone, Nowhere
<1>4. q \in DOMAIN local /\ q \in DOMAIN manifest /\ psrc # pdst
  BY <1>3 DEF OpsOf, Kind
<1>5. q \in Projects /\ psrc \in PlacesOf(q) /\ pdst \in PlacesOf(q) /\ p # q
  BY <1>2, <1>3, <1>4, KnownPaths DEF InOrder, KnownPlaces, KnownOf
<1>6. psrc \in Path /\ pdst \in Path /\ psrc \in Seq(Nat)
  BY <1>5, PlacesArePaths DEF Path
<1>7. rest \in Seq(Nat)
  <2>1. s \in Seq(Nat) /\ Len(s) \in Nat /\ Len(psrc) \in Nat
    BY <1>2, <1>6, LenProperties DEF Path
  <2> HIDE DEF s
  <2>2. \A i \in (Len(psrc) + 1)..Len(s) : s[i] \in Nat
    BY <2>1, ElementOfSeq
  <2>3. QED
    BY <2>1, <2>2, SubSeqProperties
<1>8. Source(p) = Join(pdst, rest)
  BY <1>1 DEF Source
<1>9. CASE rest = <<>>
  <2>1. s = psrc
    BY <1>1, <1>2, <1>6, <1>9, NothingBehind DEF WithParent
  <2>2. QED
    BY <1>2, <1>4, <1>5, <2>1 DEF Orderly, MoversApart, Under
<1>10. CASE rest # <<>>
  <2> HIDE DEF rest
  <2>1. Under(pdst, Source(p)) /\ Source(p) # pdst
    BY <1>6, <1>7, <1>8, <1>10, JoinBelow
  <2>2. CASE Source(p) = manifest[p]
    BY <1>2, <1>4, <1>5, <2>1, <2>2 DEF Orderly, MoversApart
  <2>3. CASE Exists(Source(p))
    <3>1. DirPlaced(Source(p))
      BY <2>3 DEF Exists, InOrder, OrderInv, DiskInOrder
    <3>2. QED
      BY <1>4, <1>5, <2>1, <3>1, MoverAlone
  <2>4. QED
    BY <2>2, <2>3
<1>11. QED
  BY <1>9, <1>10

\* A move is under way, and the others wait.
LEMMA MoveGoesOn ==
  ASSUME Orderly, InOrder, phase \in {"move", "moving"}, phase' \in {"moving", "moved"},
         NEW p \in left, OnTheWay \subseteq {p}, OnTheWay' = {p},
         UNCHANGED <<left, local, manifest, failed>>,
         DiskInOrder', OneHome', OthersStay(p), MoveInOrder', ParentDone'
  PROVE  OrderInv'
<1>1. Underway /\ Current = "move" /\ ~failed /\ OpsInOrder /\ p \in Coming
  BY Moving DEF InOrder, OrderInv
<1>2. Underway' /\ Current' = "move" /\ phase' \notin {"test", "idle", "load", "snapshot"}
  BY DEF Underway, Current
<1>3. Coming' = Coming
  <2>1. \A q : (Number(Kind(q)) > Number(Current))' <=> Number(Kind(q)) > Number(Current)
    BY <1>1, <1>2, KindsKept DEF Number, Phases
  <2>2. QED
    BY <2>1, KindsKept DEF Coming
<1>4. Coming \subseteq Projects /\ DOMAIN manifest \subseteq Projects
  BY <1>1, KnownPaths DEF Coming, Known, OpsOf, OpsInOrder, InOrder
<1>5. (left \subseteq OpsOf(Current))'
  <2>1. OpsOf(Current)' = OpsOf("move")
    BY <1>2, KindsKept DEF OpsOf
  <2>2. QED
    BY <1>1, <2>1 DEF OpsInOrder
<1>6. \A q \in (Coming \ OnTheWay)' : Homes(q)' = HomeIn(local, q)'
  <2> TAKE q \in (Coming \ OnTheWay)'
  <2>1. q \in Coming \ OnTheWay /\ q \in Projects \ {p}
    BY <1>3, <1>4
  <2>2. QED
    BY <1>1, <2>1 DEF OthersStay, OpsInOrder, HomeIn
<1>7. \A q \in (DOMAIN manifest \ (Ignore \cup Coming))' : Homes(q)' = {manifest'[q]}
  <2> TAKE q \in (DOMAIN manifest \ (Ignore \cup Coming))'
  <2>1. q \in DOMAIN manifest \ (Ignore \cup Coming) /\ q \in Projects \ {p}
    BY <1>1, <1>3, <1>4
  <2>2. QED
    BY <1>1, <2>1 DEF OthersStay, OpsInOrder
<1>8. OpsInOrder'
  BY <1>1, <1>5, <1>6, <1>7 DEF OpsInOrder
<1>9. QED
  BY <1>2, <1>8 DEF OrderInv

LEMMA MoveStartsInOrder ==
  ASSUME Orderly, InOrder, NEW p, Move(p)
  PROVE  OrderInv'
<1> DEFINE s == local[p].path
<1>1. /\ phase = "move" /\ p \in left /\ UNCHANGED manifest /\ OnTheWay = {}
      /\ DiskInOrder /\ OneHome
  BY DEF Move, IsNext, inputVars, OnTheWay, InOrder, OrderInv
<1>2. CASE UNCHANGED fsVars /\ Fails
  BY <1>1, <1>2, DiskKept, FailsInOrder
<1>3. CASE /\ p \in Ignore /\ SetParent(p) /\ Done("move", p) /\ UNCHANGED <<fsVars, local, failed>>
  <2>1. DiskInOrder' /\ OneHome' /\ OthersStay(p)
    BY <1>1, <1>3, DiskKept DEF OthersStay
  <2>2. QED
    BY <1>1, <1>3, <2>1, Moving, GoesOn, KnownPaths DEF InOrder, SetParent
<1>4. CASE p \notin Ignore /\ Source(p) = manifest[p]
  BY <1>1, <1>4, SourceHere, Moving
<1>5. CASE /\ p \notin Ignore /\ Source(p) # manifest[p]
           /\ Exists(Source(p)) /\ ~Exists(SwapName(Source(p)))
           /\ SetParent(p) /\ moving' = {<<p, Source(p)>>} /\ phase' = "moving"
           /\ Rename(Source(p), SwapName(Source(p)), dirs)
           /\ UNCHANGED <<local, left, failed>>
  <2>1. ~WithParent(p) /\ Source(p) = s
    BY <1>1, <1>5, SourceHere
  <2>2. Homes(p) = {s}
    BY <1>1, Moving, Waiting
  <2>3. /\ DiskInOrder' /\ HomesBecome(p, {})
        /\ \E t \in Trees : Of(t) = p /\ at'[t] = SwapName(s)
    BY <1>1, <1>5, <2>1, <2>2, Moving, HomeToSwap DEF InOrder
  <2>4. OneHome'
    BY <1>1, <2>3, OneHomeKept DEF HomesBecome
  <2>5. MoveInOrder'
    BY <1>1, <1>5, <2>1, <2>3 DEF MoveInOrder, HomesBecome
  <2>6. OnTheWay' = {p}
    BY <1>5, <2>1 DEF OnTheWay
  <2>7. ParentDone'
    BY <1>1, <1>5, <2>1, <2>6, Moving, KindsKept DEF ParentDone, SetParent
  <2>8. QED
    BY <1>1, <1>5, <2>3, <2>4, <2>5, <2>6, <2>7, MoveGoesOn DEF HomesBecome
<1>6. QED
  BY <1>2, <1>3, <1>4, <1>5 DEF Move

LEMMA MoveEndsInOrder ==
  ASSUME Orderly, InOrder, NEW p, NEW src, MoveIn(p, src)
  PROVE  OrderInv'
<1> DEFINE d == manifest[p]
           ds == dirs \cup Ancestors(d)
<1>1. phase = "moving" /\ <<p, src>> \in moving /\ UNCHANGED manifest /\ DiskInOrder /\ OneHome
  BY DEF MoveIn, inputVars, InOrder, OrderInv
<1>2. PICK q \in left, t \in Trees : /\ moving = {<<q, local[q].path>>} /\ Of(t) = q
                                     /\ at[t] = SwapName(local[q].path) /\ Homes(q) = {}
  BY <1>1 DEF InOrder, OrderInv, MoveInOrder
<1>3. p = q /\ src = local[p].path /\ p \in left
  BY <1>1, <1>2
<1>4. src \in Path /\ src \in PlacesOf(p) /\ d \in PlacesOf(p) /\ p \in Projects /\ p \in Coming
  BY <1>1, <1>3, Moving, PlacesArePaths
<1>5. OnTheWay = {p}
  BY <1>1, <1>2, <1>3 DEF OnTheWay
<1>6. dirs \subseteq ds /\ \A e \in ds : DirPlaced(e)
  BY <1>1, <1>4, PlaceOutside DEF DiskInOrder, Around
<1> HIDE DEF ds
<1>7. ASSUME NEW x \in PlacesOf(p), x \notin ds, Rename(SwapName(src), x, ds)
      PROVE  /\ DiskInOrder' /\ OneHome' /\ OthersStay(p) /\ Homes(p)' \subseteq {x} /\ at'[t] = x
  <2>1. DiskInOrder' /\ OthersStay(p) /\ Homes(p)' \subseteq {x} /\ at'[t] = x
    BY <1>1, <1>2, <1>3, <1>4, <1>6, <1>7, HomeFromSwap DEF InOrder
  <2>2. QED
    BY <1>1, <2>1, OneHomeKept
<1>8. CASE UNCHANGED fsVars /\ Fails
  BY <1>1, <1>8, DiskKept, FailsInOrder
<1>9. CASE TakeBack(src, ds) /\ Fails
  <2>1. CASE src \notin ds /\ Rename(SwapName(src), src, ds)
    BY <1>4, <1>7, <1>9, <2>1, FailsInOrder
  <2>2. CASE dirs' = ds /\ UNCHANGED <<at, meta, bare>>
    <3>1. DiskInOrder' /\ \A r \in Projects : Homes(r)' = Homes(r)
      BY <1>1, <1>6, <2>2, HomesStay DEF DiskInOrder, TreePlaced
    <3>2. OneHome'
      BY <1>1, <3>1 DEF OneHome
    <3>3. QED
      BY <1>9, <3>1, <3>2, FailsInOrder
  <2>3. QED
    BY <1>9, <2>1, <2>2 DEF TakeBack
<1>10. CASE /\ d \notin ds /\ Rename(SwapName(src), d, ds) /\ phase' = "moved"
            /\ UNCHANGED <<local, left, moveVars, failed>>
  <2>1. DiskInOrder' /\ OneHome' /\ OthersStay(p) /\ Homes(p)' \subseteq {d} /\ at'[t] = d
    BY <1>4, <1>7, <1>10
  <2>2. OnTheWay' = {p}
    BY <1>2, <1>3, <1>10 DEF OnTheWay, moveVars
  <2>3. MoveInOrder'
    BY <1>1, <1>2, <1>3, <1>10, <2>1 DEF MoveInOrder, moveVars
  <2>4. ParentDone'
    <3>1. ParentDone /\ Current = "move" /\ Current' = "move"
      BY <1>1, <1>3, <1>10, Moving DEF InOrder, OrderInv, OpsInOrder, Current
    <3>2. Coming' = Coming
      <4>1. \A r : (Number(Kind(r)) > Number(Current))' <=> Number(Kind(r)) > Number(Current)
        BY <1>1, <1>10, <3>1, KindsKept DEF Number, Phases
      <4>2. QED
        BY <1>1, <1>10, <4>1, KindsKept DEF Coming
    <3>3. OpsOf("move")' = OpsOf("move")
      BY <1>1, <1>10, KindsKept
    <3>4. QED
      BY <1>1, <1>5, <1>10, <2>2, <3>1, <3>2, <3>3 DEF ParentDone, moveVars
  <2>5. QED
    BY <1>1, <1>3, <1>5, <1>10, <2>1, <2>2, <2>3, <2>4, MoveGoesOn
<1>11. QED
  BY <1>8, <1>9, <1>10 DEF MoveIn, ds

LEMMA MoveFinishInOrder ==
  ASSUME Orderly, InOrder, NEW p, NEW src, MoveFinish(p, src)
  PROVE  OrderInv'
<1>1. phase = "moved" /\ <<p, src>> \in moving /\ SyncAndWrite("move", p)
  BY DEF MoveFinish
<1>2. PICK q \in left, t \in Trees : /\ moving = {<<q, local[q].path>>} /\ Of(t) = q
                                     /\ at[t] = manifest[q] /\ Homes(q) \subseteq {manifest[q]}
  BY <1>1 DEF InOrder, OrderInv, MoveInOrder
<1>3. p = q
  BY <1>1, <1>2
<1>4. OnTheWay = {p}
  BY <1>1, <1>2, <1>3 DEF OnTheWay
<1>5. QED
  BY <1>1, <1>2, <1>3, <1>4, Moving, SyncInOrder

\* rest is still to be created; what was created is in its place, unless some was not.
LEMMA CreatesGoOnInOrder ==
  ASSUME Orderly, InOrder, phase = "create", NEW rest \in SUBSET left, NEW bad \in BOOLEAN,
         CreatesGoOn(rest, bad), failed => bad, UNCHANGED manifest,
         DiskInOrder', OneHome',
         \A q \in Projects : q \in rest \/ q \notin left => Homes(q)' = Homes(q),
         ~bad => \A q \in left \ rest : Homes(q)' = {manifest[q]}
  PROVE  OrderInv'
<1>1. /\ Underway /\ Current = "create" /\ OnTheWay = {} /\ OpsInOrder
      /\ Number(Current) = 5 /\ DOMAIN manifest \subseteq Projects /\ Known \subseteq Projects
  BY PhaseNumbers, KnownPaths DEF InOrder, OrderInv, Underway, Current, OnTheWay, Range, Phases, Known
<1>2. \A q \in left : Number(Kind(q)) = 5 /\ q \in Known
  BY <1>1, PhaseNumbers DEF OpsInOrder, OpsOf, Known
<1>3. CASE Fails
  BY <1>3, FailsInOrder
<1>4. CASE /\ rest # {} /\ left' = rest /\ failed' = bad /\ UNCHANGED <<phase, scan, local, kept, moveVars, ret>>
  <2>1. /\ Underway' /\ Current' = "create" /\ OnTheWay' = {}
        /\ phase' \notin {"moving", "moved", "test", "idle", "load", "snapshot"}
    BY <1>4 DEF Underway, Current, OnTheWay, Range, Phases
  <2>2. Coming' = Coming \ (left \ rest)
    <3>1. \A q : (Number(Kind(q)) > Number(Current))' <=> Number(Kind(q)) > Number(Current)
      BY <1>1, <1>4, <2>1, KindsKept DEF Number, Phases
    <3>2. Known' = Known
      BY <1>4, KindsKept
    <3>3. \A q \in left : ~(Number(Kind(q)) > Number(Current))
      BY <1>1, <1>2
    <3>4. QED
      BY <1>4, <3>1, <3>2, <3>3 DEF Coming
  <2>3. (left \subseteq OpsOf(Current))'
    <3>1. OpsOf(Current)' = OpsOf("create")
      BY <1>4, <2>1, KindsKept DEF OpsOf
    <3>2. QED
      BY <1>1, <1>4, <3>1 DEF OpsInOrder
  <2>4. Coming \subseteq Projects
    BY <1>1, <1>2 DEF Coming
  <2>5. \A q \in (Coming \ OnTheWay)' : Homes(q)' = HomeIn(local, q)'
    <3> TAKE q \in (Coming \ OnTheWay)'
    <3>1. q \in Coming \ OnTheWay /\ q \in Projects /\ (q \in rest \/ q \notin left)
      BY <1>1, <2>2, <2>4
    <3>2. QED
      BY <1>1, <1>4, <3>1 DEF OpsInOrder, HomeIn
  <2>6. \A q \in (DOMAIN manifest \ (Ignore \cup Coming))' : failed' \/ Homes(q)' = {manifest'[q]}
    <3> TAKE q \in (DOMAIN manifest \ (Ignore \cup Coming))'
    <3>1. q \in DOMAIN manifest \ Ignore /\ q \in Projects /\ (q \notin Coming \/ q \in left \ rest)
      BY <1>1, <2>2
    <3>2. CASE q \in left \ rest
      BY <1>4, <3>2
    <3>3. CASE q \notin Coming
      <4>1. q \notin left /\ (failed \/ Homes(q) = {manifest[q]})
        BY <1>1, <3>1, <3>3 DEF OpsInOrder, Coming
      <4>2. QED
        BY <1>4, <3>1, <4>1
    <3>4. QED
      BY <3>1, <3>2, <3>3
  <2>7. ParentDone'
    <3>1. OpsOf("move")' = OpsOf("move") /\ ParentDone
      BY <1>1, <1>4, KindsKept DEF OpsInOrder
    <3>2. QED
      BY <1>1, <1>4, <2>1, <2>2, <3>1 DEF ParentDone, moveVars
  <2>8. OpsInOrder'
    BY <1>4, <2>1, <2>3, <2>5, <2>6, <2>7 DEF OpsInOrder, Current
  <2>9. QED
    BY <2>1, <2>8 DEF OrderInv
<1>5. CASE /\ rest = {} /\ ~bad /\ Enter(Number("null")) /\ failed' = FALSE
           /\ UNCHANGED <<scan, local, kept, moveVars, ret>>
  <2>1. Enter(6) /\ ~failed
    BY <1>5, PhaseNumbers
  <2>2. /\ Underway' /\ phase' \notin {"moving", "moved"} /\ OnTheWay' = {}
        /\ (left \subseteq OpsOf(Current))'
        /\ Coming' = {q \in Known : Number(Kind(q)) >= 6}
    <3>1. 6 \in 1..7
      OBVIOUS
    <3>2. QED
      BY <1>5, <2>1, <3>1, EnterComing
  <2>3. Coming' = Coming \ left
    <3>1. \A q \in Known : Number(Kind(q)) >= 6 <=> Number(Kind(q)) > 5
      BY KindNumbers
    <3>2. QED
      BY <1>1, <1>2, <2>2, <3>1 DEF Coming
  <2>4. \A q \in (Coming \ OnTheWay)' : Homes(q)' = HomeIn(local, q)'
    <3> TAKE q \in (Coming \ OnTheWay)'
    <3>1. q \in Coming \ OnTheWay /\ q \in Projects /\ q \notin left
      BY <1>1, <2>2, <2>3
    <3>2. QED
      BY <1>1, <1>5, <3>1 DEF OpsInOrder, HomeIn
  <2>5. \A q \in (DOMAIN manifest \ (Ignore \cup Coming))' : Homes(q)' = {manifest'[q]}
    <3> TAKE q \in (DOMAIN manifest \ (Ignore \cup Coming))'
    <3>1. q \in DOMAIN manifest \ Ignore /\ q \in Projects /\ (q \notin Coming \/ q \in left)
      BY <1>1, <2>3
    <3>2. CASE q \in left
      BY <1>5, <3>2
    <3>3. CASE q \notin left
      <4>1. Homes(q) = {manifest[q]}
        BY <1>1, <2>1, <3>1, <3>3 DEF OpsInOrder
      <4>2. QED
        BY <3>1, <3>3, <4>1
    <3>4. QED
      BY <3>2, <3>3
  <2>6. ParentDone'
    <3>1. OpsOf("move")' = OpsOf("move") /\ ParentDone
      BY <1>1, <1>5, KindsKept DEF OpsInOrder
    <3>2. QED
      BY <1>1, <1>5, <2>2, <2>3, <3>1 DEF ParentDone, moveVars
  <2>7. OpsInOrder'
    BY <1>5, <2>2, <2>4, <2>5, <2>6 DEF OpsInOrder
  <2>8. phase' \notin {"test", "idle", "load", "snapshot"}
    BY <2>2 DEF Underway, Range, Phases
  <2>9. QED
    BY <2>2, <2>7, <2>8 DEF OrderInv
<1>6. QED
  BY <1>3, <1>4, <1>5 DEF CreatesGoOn

LEMMA CreateInOrder ==
  ASSUME Orderly, InOrder, NEW p, Create(p)
  PROVE  OrderInv'
<1> DEFINE d == manifest[p]
           given == {q \in left : Under(d, manifest[q])}
<1>1. phase = "create" /\ p \in left /\ UNCHANGED manifest /\ DiskInOrder /\ OneHome /\ failed \in BOOLEAN
  BY DEF Create, Ready, inputVars, InOrder, OrderInv, TypeOK, AttemptOK
<1>2. Underway /\ Current = "create" /\ OnTheWay = {}
  BY <1>1 DEF Underway, Current, OnTheWay, Range, Phases
<1>3. Kind(p) = "create" /\ p \in Projects /\ p \in DOMAIN local \cup DOMAIN manifest
  BY <1>1, <1>2, Waiting DEF OpsOf
<1>4. p \notin DOMAIN local /\ p \in DOMAIN manifest
  BY <1>3 DEF Kind
<1>5. Homes(p) = {} /\ d \in PlacesOf(p)
  BY <1>1, <1>2, <1>4, Waiting
<1>6. CASE /\ Exists(d) => IsEmptyDir(d)
           /\ EnoughCopies(p)
           /\ dirs' = dirs \cup Around(d)
           /\ at' = [at EXCEPT ![Fresh(p)] = d]
           /\ meta' = [meta EXCEPT ![Fresh(p)] = WrittenFor(p)]
           /\ UNCHANGED bare
           /\ CreatesGoOn(left \ {p}, failed)
  <2>1. DiskInOrder' /\ HomesBecome(p, {d})
    BY <1>1, <1>4, <1>5, <1>6, NewHome DEF InOrder
  <2>2. OneHome'
    BY <1>1, <2>1, OneHomeKept DEF HomesBecome
  <2>3. /\ \A q \in Projects : q \in left \ {p} \/ q \notin left => Homes(q)' = Homes(q)
        /\ \A q \in left \ (left \ {p}) : Homes(q)' = {manifest[q]}
    BY <1>1, <2>1 DEF HomesBecome, OthersStay
  <2> HIDE DEF d
  <2>4. QED
    BY <1>1, <1>6, <2>1, <2>2, <2>3, CreatesGoOnInOrder
<1>7. ASSUME UNCHANGED <<at, meta, bare>>, \A e \in dirs' : DirPlaced(e), \A u \in OnDisk : at[u] \in dirs',
             CreatesGoOn(left \ given, TRUE)
      PROVE  OrderInv'
  <2>1. DiskInOrder' /\ \A q \in Projects : Homes(q)' = Homes(q)
    BY <1>1, <1>7, HomesStay
  <2>2. OneHome'
    BY <1>1, <2>1 DEF OneHome
  <2>3. (left \ given) \in SUBSET left /\ TRUE \in BOOLEAN
    OBVIOUS
  <2> HIDE DEF given
  <2>4. QED
    BY <1>1, <1>7, <2>1, <2>2, <2>3, CreatesGoOnInOrder
<1>8. CASE UNCHANGED fsVars /\ CreatesGoOn(left \ given, TRUE)
  BY <1>1, <1>7, <1>8 DEF fsVars, DiskInOrder, TreePlaced
<1>9. CASE /\ Exists(d) => IsEmptyDir(d)
           /\ dirs' = (dirs \cup Ancestors(d)) \ {d}
           /\ UNCHANGED <<at, meta, bare>> /\ CreatesGoOn(left \ given, TRUE)
  <2>1. TreesAt(d) = {}
    BY <1>1, <1>9 DEF TreesAt, IsEmptyDir, Exists, DiskInOrder, TreePlaced
  <2>2. \A u \in OnDisk : at[u] \in dirs'
    BY <1>1, <1>9, <2>1 DEF TreesAt, DiskInOrder, TreePlaced
  <2>3. \A e \in dirs' : DirPlaced(e)
    BY <1>1, <1>3, <1>5, <1>9, PlaceOutside DEF DiskInOrder, Around
  <2>4. QED
    BY <1>7, <1>9, <2>2, <2>3
<1>10. QED
  BY <1>6, <1>8, <1>9 DEF Create, WrittenFor

\* When all operations are done, all is as the manifest says.
LEMMA StatusInOrder ==
  ASSUME Orderly, InOrder, Status
  PROVE  OrderInv'
<1>1. /\ phase = "status" /\ Underway /\ Current = "status" /\ UNCHANGED fsVars /\ UNCHANGED manifest
      /\ DiskInOrder /\ OneHome
  BY DEF Status, Underway, Current, Range, Phases, InOrder, OrderInv, inputVars
<1>2. DiskInOrder' /\ OneHome' /\ \A q : Homes(q)' = Homes(q)
  BY <1>1, DiskKept
<1>3. PICK r \in {"nil", "error"} : EndAttempt(r)
  BY DEF Status
<1>4. CASE r = "error"
  BY <1>2, <1>3, <1>4, FailsInOrder DEF Fails
<1>5. CASE r = "nil"
  <2>1. /\ phase' = "snapshot" /\ psrc' = Nowhere /\ failed' = FALSE
        /\ ~Underway' /\ phase' \notin {"moving", "moved", "test", "idle", "load"}
    BY <1>3, <1>5 DEF EndAttempt, Forget, Nowhere, Underway, Range, Phases
  <2>2. Coming = {}
    <3>1. OpsOf("status") = {}
      BY DEF OpsOf, Kind
    <3>2. \A p : ~(Number(Kind(p)) > Number("status"))
      BY KindNumbers
    <3>3. QED
      BY <1>1, <3>1, <3>2 DEF InOrder, OrderInv, OpsInOrder, Coming
  <2>3. Given
    BY <1>1, <2>2 DEF Given, InOrder, OrderInv, OpsInOrder
  <2>4. Given'
    BY <1>1, <1>2, <2>3 DEF Given
  <2>5. QED
    BY <1>2, <2>1, <2>4 DEF OrderInv
<1>6. QED
  BY <1>3, <1>4, <1>5

LEMMA SnapshotInOrder ==
  ASSUME Orderly, InOrder, Snapshot
  PROVE  OrderInv'
<1>1. DiskInOrder' /\ OneHome' /\ \A q : Homes(q)' = Homes(q)
  BY DiskKept DEF Snapshot, InOrder, OrderInv
<1>2. IsMap(ByKey(Found)) /\ latest' = {ByKey(Found)} /\ ret' = ret
  BY HomesFound DEF Snapshot, InOrder, OrderInv
<1>3. phase = "snapshot" /\ phase' = "idle" /\ UNCHANGED <<manifest, psrc, failed>>
  BY DEF Snapshot, inputVars, moveVars
<1>4. ~Underway /\ ~Underway'
  BY <1>3 DEF Underway, Range, Phases
<1>5. psrc' = Nowhere /\ ~failed'
  BY <1>3, <1>4 DEF InOrder, OrderInv
<1>6. \A s \in latest' : IsMap(s)'
  BY <1>1, <1>2 DEF IsMap
<1>7. ret' = "nil" => Given'
  BY <1>1, <1>2, <1>3 DEF InOrder, OrderInv, Given
<1>8. QED
  BY <1>1, <1>3, <1>4, <1>5, <1>6, <1>7 DEF OrderInv

\* Where nothing changes but unsaved work.
LEMMA RestInOrder ==
  ASSUME InOrder,
         UNCHANGED <<fsVars, latest, manifest, phase, scan, local, left, psrc, pdst, moving, failed, ret>>
  PROVE  OrderInv'
<1>1. DiskInOrder' /\ OneHome' /\ \A q : Homes(q)' = Homes(q)
  BY DiskKept DEF InOrder, OrderInv
<1>2. /\ Underway' = Underway /\ Current' = Current /\ OnTheWay' = OnTheWay
      /\ OpsOf(Current)' = OpsOf(Current) /\ OpsOf("move")' = OpsOf("move")
  BY KindsKept DEF Underway, Current, OnTheWay, OpsOf
<1>3. Coming' = Coming
  <2>1. \A q : (Number(Kind(q)) > Number(Current))' <=> Number(Kind(q)) > Number(Current)
    BY <1>2, KindsKept DEF Number, Phases
  <2>2. QED
    BY <2>1, KindsKept DEF Coming
<1>4. OpsInOrder => OpsInOrder'
  BY <1>1, <1>2, <1>3 DEF OpsInOrder, ParentDone, HomeIn
<1>5. MoveInOrder => MoveInOrder'
  BY <1>1 DEF MoveInOrder, fsVars
<1>6. /\ IsMap(local) => IsMap(local)'
      /\ (\A s \in latest : IsMap(s)) => (\A s \in latest : IsMap(s))'
      /\ Given => Given'
  BY <1>1 DEF IsMap, HomeIn, Given
<1>7. QED
  BY <1>1, <1>2, <1>4, <1>5, <1>6 DEF InOrder, OrderInv

LEMMA EachStepInOrder ==
  ASSUME Orderly, InOrder, [Next]_vars, ~Crash
  PROVE  OrderInv'
<1>1. CASE Begin \/ Load \/ Test \/ Status \/ Snapshot
  BY <1>1, BeginInOrder, LoadInOrder, TestInOrder, StatusInOrder, SnapshotInOrder
<1>2. CASE OpFails
  BY <1>2, DiskKept, FailsInOrder DEF OpFails, InOrder, OrderInv
<1>3. ASSUME NEW p \in Projects, Operation(p)
      PROVE  OrderInv'
  <2>1. CASE Delete(p) \/ ChangeRemote(p) \/ Move(p) \/ UpdateOp(p) \/ Create(p) \/ Null(p)
    BY <2>1, DeleteInOrder, ChangeRemoteInOrder, MoveStartsInOrder, UpdateOpInOrder, CreateInOrder,
       NullInOrder
  <2>2. CASE \E m \in moving : MoveIn(p, m[2]) \/ MoveFinish(p, m[2])
    BY <2>2, MoveEndsInOrder, MoveFinishInOrder
  <2>3. QED
    BY <1>3, <2>1, <2>2 DEF Operation
<1>4. CASE \E t \in Trees : UserWorks(t)
  BY <1>4, RestInOrder DEF UserWorks, inputVars, moveVars
<1>5. CASE UNCHANGED vars
  BY <1>5, RestInOrder DEF vars, fsVars
<1>6. QED
  BY <1>1, <1>2, <1>3, <1>4, <1>5 DEF Next, Step, Halted

LEMMA InitInOrder ==
  ASSUME Orderly, Init
  PROVE  OrderInv
<1>1. TypeOK /\ KnownPlaces
  BY Initially, InitKnown
<1>2. \A t \in OnDisk : /\ t \in Trees /\ Of(t) \in DOMAIN Start /\ t[2] = 1 /\ at[t] = Start[Of(t)]
                        /\ meta[t].key = Of(t) /\ meta[t] # NoMeta
  BY DEF Init, OnDisk, NoMeta
<1>3. \A t \in OnDisk : Start[Of(t)] \in PlacesOf(Of(t)) /\ Start[Of(t)] \in dirs
  BY <1>2 DEF PlacesOf, Init, Around
<1>4. \A t, u \in OnDisk : Of(t) = Of(u) => t = u
  BY <1>2 DEF Trees, Of
<1>5. \A e \in dirs : DirPlaced(e)
  <2> TAKE e \in dirs
  <2>1. PICK p \in DOMAIN Start : e \in Around(Start[p])
    BY DEF Init
  <2>2. p \in Projects /\ Start[p] \in PlacesOf(p)
    BY UpdateAssumption DEF PlacesOf
  <2>3. QED
    BY <2>1, <2>2 DEF DirPlaced
<1>6. DiskInOrder
  <2>1. \A t \in OnDisk : TreePlaced(t)
    BY <1>2, <1>3 DEF TreePlaced
  <2>2. \A t, u \in OnDisk : at[t] = at[u] => t = u
    BY <1>2, <1>4 DEF Orderly
  <2>3. QED
    BY <1>5, <2>1, <2>2 DEF DiskInOrder, Init
<1>7. OneHome
  BY <1>4 DEF OneHome, Homes, Home
<1>8. \A s \in latest : IsMap(s)
  BY <1>1, <1>6, <1>7, HomesFound DEF Init
<1>9. phase = "idle" /\ psrc = Nowhere /\ ~failed /\ ret = "none"
  BY DEF Init, Nowhere
<1>10. ~Underway
  BY <1>9 DEF Underway, Range, Phases
<1>11. QED
  BY <1>6, <1>7, <1>8, <1>9, <1>10 DEF OrderInv

\* Where nothing moves around anything else, a run that reports success has brought every
\* project of the manifest that is not ignored into its place, and what a fast run believes
\* is true: whatever failed in this run and in those before, as long as none was killed.
THEOREM WorkspaceStaysTrue == Orderly => (Spec => []WorkspaceTrue)
<1> SUFFICES ASSUME Orderly PROVE Spec => []WorkspaceTrue
  OBVIOUS
<1> DEFINE Inv == TypeOK /\ LeftKnown /\ KnownPlaces /\ (crashes = 0 => OrderInv)
<1>1. Init => Inv
  BY Initially, InitKnown, InitInOrder
<1>2. Inv /\ [Next]_vars => Inv'
  <2> SUFFICES ASSUME Inv, [Next]_vars PROVE Inv'
    OBVIOUS
  <2>1. TypeOK' /\ LeftKnown'
    BY EachStep
  <2>2. KnownPlaces'
    BY MetaStep, KnowledgeStep, KnownKept DEF KnowledgeKept
  <2>3. Crash => crashes' # 0
    BY DEF Crash, TypeOK, RunOK
  <2>4. ~Crash => crashes' = crashes
    BY DEF Next, Step, Halted, Begin, Load, Test, Operation, Delete, ChangeRemote, Move, MoveIn,
           MoveFinish, UpdateOp, SyncAndWrite, Create, Null, Status, Snapshot, OpFails, UserWorks,
           vars, countVars
  <2>5. crashes' = 0 => OrderInv'
    BY <2>3, <2>4, EachStepInOrder DEF InOrder
  <2>6. QED
    BY <2>1, <2>2, <2>5
<1>3. Inv => WorkspaceTrue
  <2> SUFFICES ASSUME Inv, crashes = 0 PROVE Consistent /\ SnapshotTrue
    BY DEF WorkspaceTrue, Consistent, SnapshotTrue
  <2>1. OrderInv /\ bare = {}
    BY DEF OrderInv, DiskInOrder
  <2>2. \A p, x : Homes(p) = {x} => \E t \in TreesAt(x) : Of(t) = p /\ t \notin bare
    BY <2>1, HomeTree DEF TreesAt
  <2>3. Consistent
    BY <2>1, <2>2 DEF Consistent, OrderInv, Given
  <2>4. SnapshotTrue
    <3>1. DOMAIN local \subseteq Projects
      BY KnownPaths
    <3>2. phase = "test" => \A p \in DOMAIN local : Homes(p) = {local[p].path}
      BY <2>1, <3>1 DEF OrderInv, IsMap, HomeIn
    <3>3. QED
      BY <2>2, <3>2 DEF SnapshotTrue
  <2>5. QED
    BY <2>3, <2>4
<1>4. QED
  BY <1>1, <1>2, <1>3, PTL DEF Spec
=============================================================================
