----------------------------- MODULE ManifestCmd -----------------------------
(***************************************************************************)
(* "jiri import" and "jiri override", one after the other: each reads      *)
(* .jiri_manifest, adds an entry or deletes one, and writes the file anew  *)
(* (Manifest.ToFile): to a temporary file first, which it then moves into  *)
(* place.  It may be killed, or fail, at every step.                       *)
(*                                                                         *)
(* An entry is an import, [manifest, name, remote, revision]; a project    *)
(* override is one with manifest = "".  HEAD is the default of a revision, *)
(* left out of the file.                                                   *)
(***************************************************************************)
EXTENDS Naturals, Sequences, FiniteSets, Functions

CONSTANTS
  Commands,  \* [op, manifest, name, remote, revision, overwrite, elsewhere]
  MaxCmds,   \* bound: commands
  Missing, Half

\* A flag or an argument that is not given.
Unset == ""

Strings == STRING \cup {Unset, "HEAD"}
Entries == [manifest : Strings, name : Strings, remote : Strings, revision : Strings]
ManifestFiles == [imports : Seq(Entries), projects : Seq(Entries), others : Seq(Entries)]

\* What is added has a remote, and only an import overwrites.
ASSUME ManifestAssumption ==
  /\ Commands \subseteq
       [op : {"import", "import -delete", "override", "override -delete"},
        manifest : Strings, name : Strings, remote : Strings, revision : Strings,
        overwrite : BOOLEAN, elsewhere : BOOLEAN]
  /\ \A c \in Commands : /\ c.op \in {"import", "override"} => c.remote # Unset
                         /\ c.op # "import" => ~c.overwrite
  /\ MaxCmds \in Nat
  /\ Missing # Half /\ Missing \notin ManifestFiles /\ Half \notin ManifestFiles

VARIABLES
  manifest,  \* .jiri_manifest: Missing, Half, or [imports, projects, others] of entries
  tmpFile,   \* .jiri_manifest.tmp
  wanted,    \* what the command is about to write
  command,   \* the command that runs
  mpc,       \* where it is
  past,      \* history: the last command that wrote, and the manifest it found
  cmds       \* how many have been run

manifestVars == <<manifest, tmpFile, wanted, command, mpc, past, cmds>>

Empty == [imports |-> <<>>, projects |-> <<>>, others |-> <<>>]
Default(e, from, to) == IF e.revision = from THEN [e EXCEPT !.revision = to] ELSE e
Defaults(m, from, to) ==
  [imports |-> [i \in DOMAIN m.imports |-> Default(m.imports[i], from, to)],
   projects |-> [i \in DOMAIN m.projects |-> Default(m.projects[i], from, to)],
   others |-> [i \in DOMAIN m.others |-> Default(m.others[i], from, to)]]

\* Mutant: the defaults are written.
UnfilledNot(m) == m

\* fillDefaults and unfillDefaults.
Filled(m) == Defaults(m, Unset, "HEAD")
Unfilled(m) == Defaults(m, "HEAD", Unset)

ManifestInit ==
  /\ manifest \in {Missing, Empty} /\ tmpFile = Missing
  /\ wanted = Empty /\ past = <<>>
  /\ command \in Commands
  /\ mpc = "idle" /\ cmds = 0
-----------------------------------------------------------------------------
Entry(c) == [manifest |-> c.manifest, name |-> c.name, remote |-> c.remote, revision |-> c.revision]

\* A delete names the remote or leaves it open.
RemoteFits(c, e) == c.remote \in {Unset, e.remote}

\* The elements of s at the places K, in order.
At(s, K) == [k \in 1..Cardinality(K) |-> s[CHOOSE i \in K : Cardinality({j \in K : j <= i}) = k]]
Without(s, K) == At(s, DOMAIN s \ K)

\* The places of the entries of s that a command is about.
ImportHits(c, s) ==
  {i \in DOMAIN s : s[i].manifest = c.manifest /\ s[i].name = c.name /\ RemoteFits(c, s[i])}
OverrideHits(c, s) == {i \in DOMAIN s : s[i].name = c.name /\ RemoteFits(c, s[i])}

\* runImport: the manifest it writes, or none if it has nothing to write or more than one
\* import to delete.
ImportTo(c, m) ==
  LET hits == ImportHits(c, m.imports)
  IN IF c.op = "import -delete"
     THEN IF \E i, j \in hits : m.imports[i].remote # m.imports[j].remote THEN {}
          ELSE {[m EXCEPT !.imports = Without(@, hits)]}
     ELSE IF hits # {} THEN {} ELSE {[m EXCEPT !.imports = Append(@, Entry(c))]}

\* The overrides of imports if the command names a manifest, else those of projects.
ListOf(c, m) == IF c.manifest = Unset THEN m.projects ELSE m.others
WithList(c, m, s) ==
  IF c.manifest = Unset THEN [m EXCEPT !.projects = s] ELSE [m EXCEPT !.others = s]

\* The keys of all overrides.
OverrideKeys(m) == {<<e.name, e.remote>> : e \in Range(m.projects) \cup Range(m.others)}

\* runOverride
OverrideTo(c, m) ==
  LET hits == OverrideHits(c, ListOf(c, m))
  IN IF c.op = "override -delete"
     THEN IF \E i, j \in hits : i # j THEN {} ELSE {WithList(c, m, Without(ListOf(c, m), hits))}
     ELSE {IF <<c.name, c.remote>> \in OverrideKeys(m) THEN m
           ELSE WithList(c, m, Append(ListOf(c, m), Entry(c)))}

IsImport(c) == c.op \in {"import", "import -delete"}
Result(c, f) ==
  IF IsImport(c) THEN ImportTo(c, IF f = Missing \/ c.overwrite THEN Empty ELSE Filled(f))
  ELSE IF f = Missing THEN {} ELSE OverrideTo(c, Filled(f))

\* A command reads the manifest; -out sends what it makes of it to another file, or prints it.
Read(c) ==
  /\ mpc = "idle" /\ cmds < MaxCmds
  /\ manifest = Half => c.overwrite
  /\ cmds' = cmds + 1 /\ command' = c
  /\ \/ \E m \in Result(c, manifest) : ~c.elsewhere /\ wanted' = Unfilled(m) /\ mpc' = "create"
     \/ (Result(c, manifest) = {} \/ c.elsewhere) /\ UNCHANGED <<mpc, wanted>>
  /\ UNCHANGED <<manifest, tmpFile, past>>

CreateTmp == mpc = "create" /\ tmpFile' = Half /\ mpc' = "fill" /\ UNCHANGED manifest

\* safeWriteFile
WriteStep ==
  /\ \/ CreateTmp /\ UNCHANGED past
     \/ mpc = "fill" /\ tmpFile' = wanted /\ mpc' = "rename" /\ UNCHANGED <<manifest, past>>
     \/ /\ mpc = "rename" /\ manifest' = tmpFile /\ tmpFile' = Missing /\ mpc' = "idle"
        /\ past' = <<command, manifest>>
  /\ UNCHANGED <<wanted, command, cmds>>

\* The command is killed or fails.
StopCmd == mpc # "idle" /\ mpc' = "idle" /\ UNCHANGED <<manifest, tmpFile, wanted, command, past, cmds>>

ManifestNext == (\E c \in Commands : Read(c)) \/ WriteStep \/ StopCmd
ManifestSpec == ManifestInit /\ [][ManifestNext]_manifestVars
-----------------------------------------------------------------------------
\* Whatever is killed, .jiri_manifest is the file that was there or the whole new one
\* (safeWriteFile), and no project has two overrides (runOverride).
ManifestWhole ==
  /\ manifest # Half
  /\ manifest # Missing =>
       LET e == manifest.projects \o manifest.others
           keys == {<<e[i].name, e[i].remote>> : i \in DOMAIN e}
       IN Cardinality(keys) = Len(e)

Same(m) == IF m = Missing THEN Empty ELSE m
Undoes(c, d) ==
  /\ <<d.op, c.op>> \in {<<"import", "import -delete">>, <<"override", "override -delete">>}
  /\ ~d.overwrite
  /\ c.name = d.name /\ c.remote = d.remote /\ c.manifest = d.manifest

\* The command that deletes what the last one added brings the manifest back to what it was
\* before: the others' entries, their order and their defaults.  What was there before the
\* override is deleted instead of it if the last one added nothing.
DeleteUndoes ==
  [][past' # past /\ past # <<>> /\ Undoes(past'[1], past[1]) /\ Same(past[2]) # manifest
       => manifest' = Same(past[2])]_manifestVars

\* .jiri_manifest is whole, with one override of a project at most, and a command that
\* deletes what the last one added brings it back.
ManifestKept == []ManifestWhole /\ DeleteUndoes
==============================================================================
