------------------------------- MODULE EditCmd -------------------------------
(***************************************************************************)
(* "jiri edit" of cmd/jiri/edit.go: it rolls the revisions of projects and *)
(* imports and the versions of packages in the text of a manifest, then    *)
(* those of the projects in the lockfiles of the directories above it, and *)
(* writes the manifest last.  If a write fails it puts the lockfiles back. *)
(*                                                                         *)
(* The text is the sequence of its elements, [tag, name, rev], rev being   *)
(* NoRev if there is none.  The text of a revision within a longer value   *)
(* ("git_revision:...") is that revision.                                  *)
(***************************************************************************)
EXTENDS Naturals, Sequences, FiniteSets, SequencesExt, Functions

CONSTANTS
  Texts,      \* the manifests
  LockChains, \* sequences of lockfiles, project |-> revision, the nearest first
  Requests,   \* sets of [tag, name, rev]: the flags; rev = NoRev asks for the tip
  NoRev, Tip, \* no revision; the revision at the tip of any remote branch
  Broken      \* a file written in part

Revs == {NoRev, Tip} \cup STRING
Elements == [tag : {"project", "import", "package"}, name : STRING, rev : Revs]

ASSUME EditAssumption ==
  /\ Texts \subseteq Seq(Elements)
  /\ \A r \in Requests : r \subseteq Elements
  /\ \A chain \in LockChains :
       /\ Len(chain) \in Nat /\ DOMAIN chain = 1..Len(chain)
       /\ chain = [k \in 1..Len(chain) |-> [n \in DOMAIN chain[k] |-> chain[k][n]]]

VARIABLES
  text, locks, oldText, oldLocks, \* the files, and what they were
  request, mode,                  \* the flags
  todo, rolled,                   \* the elements still to be looked at; the text in memory
  changes,                        \* what the command reports: [tag, name, old, new]
  backups,                        \* the lockfiles that have one, and what the file of backups holds
  epc, level                      \* where the command is, and at which lockfile

editVars == <<text, locks, oldText, oldLocks, request, mode, todo, rolled, changes, backups, epc, level>>

EditInit ==
  /\ text \in Texts /\ oldText = text
  /\ locks \in LockChains /\ oldLocks = locks
  /\ request \in Requests
  /\ mode \in {"manifest", "lockfile", "both"}
  /\ todo = DOMAIN text /\ rolled = text
  /\ changes = <<>> /\ backups = [of |-> {}, holds |-> {}]
  /\ epc = "start" /\ level = 1
-----------------------------------------------------------------------------
\* The element of the text that the edit of element e turns into another.
Place(t, e) ==
  LET Named(f) == f.tag = e.tag /\ f.name = e.name
      Same(f) == f.rev = e.rev
      named == SelectInSeq(t, Named)
  IN CASE e.tag = "package" -> IF named = 0 THEN 0 ELSE SelectInSubSeq(t, named, Len(t), Same)
       [] e.tag # "package" /\ e.rev = NoRev -> named
       [] OTHER -> SelectInSeq(t, Same)

\* The flag that names e, if there is one, and the revision that it asks for.
Asked(e) ==
  {r \in request : r.tag = e.tag /\ r.name = e.name /\ (e.tag = "package" => r.rev # NoRev)}
NewRev(e) == LET r == CHOOSE r \in Asked(e) : TRUE IN IF r.rev = NoRev THEN Tip ELSE r.rev

\* updateManifest, in memory: the projects, the imports, then the packages.
Number(tag) == CASE tag = "project" -> 1 [] tag = "import" -> 2 [] OTHER -> 3
IsNext(i) ==
  \A j \in todo : LET m == Number(oldText[i].tag)
                     n == Number(oldText[j].tag) IN m < n \/ (m = n /\ i <= j)

\* The element at i, as it was read: git ls-remote may fail, and a package not be found.
Roll(i) ==
  LET e == oldText[i]
      new == NewRev(e)
      edited == Asked(e) # {} /\ e.rev # new
      at == Place(rolled, e)
  IN /\ epc = "start" /\ IsNext(i) /\ todo' = todo \ {i}
     /\ \/ ~edited /\ UNCHANGED <<rolled, changes, epc>>
        \/ /\ edited /\ (e.tag = "package" => at # 0)
           /\ rolled' = IF at = 0 \/ (e.tag = "project" /\ mode = "lockfile") THEN rolled
                        ELSE [rolled EXCEPT ![at].rev = new]
           /\ changes' = Append(changes, [tag |-> e.tag, name |-> e.name, old |-> e.rev, new |-> new])
           /\ UNCHANGED epc
        \/ /\ IF e.tag = "package" THEN edited /\ at = 0 ELSE \E r \in Asked(e) : r.rev = NoRev
           /\ epc' = "failed" /\ UNCHANGED <<rolled, changes>>
     /\ UNCHANGED <<text, locks, oldText, oldLocks, request, mode, backups, level>>

\* The writing of the report may fail.
Report ==
  /\ epc = "start" /\ todo = {}
  /\ epc' \in {"failed", "locks"}
  /\ UNCHANGED <<text, locks, oldText, oldLocks, request, mode, todo, rolled, changes, backups, level>>

EditedProjects == {c \in Range(changes) : c.tag = "project"}

\* The lockfiles are left alone if no project was edited, or if only the manifest is to be.
LocksToEdit == mode # "manifest" /\ EditedProjects # {}
NewLock(lock) ==
  [n \in DOMAIN lock |-> IF \E c \in EditedProjects : c.name = n
                         THEN (CHOOSE c \in EditedProjects : c.name = n).new ELSE lock[n]]
Matches(lock) == \E c \in EditedProjects : c.name \in DOMAIN lock

\* Mutant: the lockfile is noted when it has been written.
BackUpLate(k) == backups' = [of |-> backups.of, holds |-> {locks[k]}]

\* All backups have one name, the base name of the lockfiles.
BackUp(k) == backups' = [of |-> backups.of \cup {k}, holds |-> {locks[k]}]

\* updateLocks: the lockfile cannot be read, or the backup not be written, or the lockfile not.
UpdateLock ==
  /\ epc = "locks" /\ LocksToEdit /\ level <= Len(locks)
  /\ \/ ~Matches(locks[level]) /\ level' = level + 1 /\ UNCHANGED <<locks, backups, epc>>
     \/ epc' = "rewind" /\ UNCHANGED <<locks, backups, level>>
     \/ /\ Matches(locks[level]) /\ epc' = "rewind"
        /\ backups' = [backups EXCEPT !.holds = {Broken}] /\ UNCHANGED <<locks, level>>
     \/ /\ Matches(locks[level]) /\ BackUp(level)
        /\ \/ locks' = [locks EXCEPT ![level] = NewLock(@)] /\ level' = level + 1 /\ UNCHANGED epc
           \/ locks' = [locks EXCEPT ![level] = Broken] /\ epc' = "rewind" /\ UNCHANGED level
  /\ UNCHANGED <<text, oldText, oldLocks, request, mode, todo, rolled, changes>>

\* writeManifest, after the lockfiles.
WriteManifest ==
  /\ epc = "locks" /\ (LocksToEdit => level > Len(locks))
  /\ \/ text' = rolled /\ epc' = "done"
     \/ text' \in {text, Broken} /\ epc' = "rewind"
  /\ UNCHANGED <<locks, oldText, oldLocks, request, mode, todo, rolled, changes, backups, level>>

\* rewind, in the order of a map: only the first rename finds the file of backups.
Rewind ==
  /\ epc = "rewind"
  /\ \/ backups.of = {} /\ epc' = "failed" /\ UNCHANGED <<locks, backups>>
     \/ \E k \in backups.of :
          /\ locks' = [locks EXCEPT ![k] = IF backups.holds = {} THEN @ ELSE CHOOSE b \in backups.holds : TRUE]
          /\ backups' = [of |-> backups.of \ {k}, holds |-> {}]
          /\ UNCHANGED epc
  /\ UNCHANGED <<text, oldText, oldLocks, request, mode, todo, rolled, changes, level>>

EditNext == (\E i \in todo : Roll(i)) \/ Report \/ UpdateLock \/ WriteManifest \/ Rewind
EditSpec == EditInit /\ [][EditNext]_editVars
-----------------------------------------------------------------------------
\* What an element should be after the changes reported.
Told(e) ==
  LET of == {c \in Range(changes) : c.tag = e.tag /\ c.name = e.name /\ c.old = e.rev}
  IN IF of = {} \/ (e.tag = "project" /\ mode = "lockfile") THEN e.rev
     ELSE (CHOOSE c \in of : TRUE).new

\* "Edit manifest file by rolling the revision of provided projects, imports or packages":
\* the elements reported have the new revision, the others are as they were.
RolledAsTold ==
  epc = "done" => \A i \in DOMAIN text : text[i] = [oldText[i] EXCEPT !.rev = Told(oldText[i])]

\* No revision is that of two elements, before or on the way, and no name that of two of a tag.
Apart ==
  LET at == DOMAIN oldText
      revs == {oldText[i].rev : i \in at} \ {NoRev}
  IN /\ \A i, j \in at : i # j =>
          /\ oldText[i].rev # oldText[j].rev \/ oldText[i].rev = NoRev
          /\ <<oldText[i].tag, oldText[i].name>> # <<oldText[j].tag, oldText[j].name>>
     /\ \A c \in Range(changes) : c.new \notin revs

\* Manifest and lockfiles go together: after an edit that succeeds every lockfile has the
\* new revisions of the projects edited and nothing else has changed, the text included if its
\* revisions are apart; after one that fails no lockfile has changed if at most one matched.
EditsKept ==
  /\ epc = "done" => /\ Apart => RolledAsTold
                     /\ \A k \in DOMAIN locks : locks[k] = IF LocksToEdit THEN NewLock(oldLocks[k])
                                                           ELSE oldLocks[k]
  /\ epc = "failed" /\ Cardinality({k \in DOMAIN locks : Matches(oldLocks[k])}) <= 1
       => locks = oldLocks
==============================================================================
