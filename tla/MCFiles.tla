------------------------------- MODULE MCFiles -------------------------------
(***************************************************************************)
(* The files jiri replaces in steps, each in behaviours of its own, with   *)
(* kills and failures between any two steps: its own binary (SelfUpdate),  *)
(* the two kinds of update history (UpdateHistory), .jiri_manifest         *)
(* (ManifestCmd), a manifest and its lockfiles (EditCmd) and the settings  *)
(* of a root (Settings).                                                   *)
(***************************************************************************)
EXTENDS SelfUpdate, UpdateHistory, Settings, ManifestCmd, EditCmd

VARIABLE part  \* what the behaviour is about
-----------------------------------------------------------------------------
\* Two names, two remotes, two manifests to import from.
Command(op, from, n, r, rev, over, out) ==
  [op |-> op, manifest |-> from, name |-> n, remote |-> r, revision |-> rev,
   overwrite |-> over, elsewhere |-> out]
Adds ==
  {Command("import", f, "m", r, v, FALSE, FALSE) : f \in {"f", "g"}, r \in {"r1", "r2"}, v \in {"", "HEAD"}}
  \cup {Command("import", "f", "m", "r1", "v1", over, ~over) : over \in BOOLEAN}
  \cup {Command("override", f, n, r, "v1", FALSE, FALSE) : f \in {"", "f"}, n \in {"m", "n"}, r \in {"r1", "r2"}}
Deletes ==
  {Command("import -delete", f, "m", r, "", FALSE, FALSE) : f \in {"f", "g"}, r \in {"", "r1", "r2"}}
  \cup {Command("override -delete", f, "m", r, "", FALSE, FALSE) : f \in {"", "f"}, r \in {"", "r1", "r2"}}
MCCmds == Adds \cup Deletes

\* A manifest with an import of a repository and that repository as a project, one more
\* project, and two packages of one version or two; up to two lockfiles.
Elem(t, n, r) == [tag |-> t, name |-> n, rev |-> r]
MCTexts ==
  {<<Elem("import", "m", a), Elem("project", "m", b), Elem("project", "p", c),
     Elem("package", "k", "v1"), Elem("package", "l", e)>> :
     a \in {"r1", "r2"}, b \in {"r1", NoRev}, c \in {"r3", "r1"}, e \in {"v1", "v2"}}
MCChains ==
  LET Lock == UNION {[S -> {"r1"}] : S \in {{"p"}, {"m", "p"}}}
  IN {<<>>} \cup {<<l>> : l \in Lock} \cup {<<l, k>> : l \in Lock, k \in Lock}
MCRequests ==
  SUBSET {Elem("project", "m", "r4"), Elem("project", "p", NoRev),
          Elem("import", "m", NoRev), Elem("package", "l", "v3")} \ {{}}

MCInitFlags ==
  [cache : {"", "c1", "c2", "relative"}, partial : BOOLEAN, offload : {TRUE}, lockfile : {"", "F", "bad"},
   threads : {0}, analytics : {"", "1", "false"}]
-----------------------------------------------------------------------------
\* Nobody updates jiri.
NoBinary == Start({})

\* No update, and nobody sets anything.
NoHistory == HistoryInit /\ ~log
NoSettings == SettingsInit /\ flags = CHOOSE f \in InitFlags : TRUE

NoManifest ==
  /\ manifest = Missing /\ tmpFile = "none" /\ wanted = "none" /\ command = "none" /\ mpc = "none"
  /\ past = "none" /\ cmds = "none"

NoEdit ==
  /\ text = "none" /\ locks = "none" /\ oldText = "none" /\ oldLocks = "none" /\ request = "none"
  /\ mode = "none" /\ todo = {} /\ rolled = "none" /\ changes = "none" /\ backups = "none"
  /\ epc = "none" /\ level = "none"

FilesInit ==
  \/ part = "binary" /\ Init /\ NoHistory /\ NoManifest /\ NoEdit /\ NoSettings
  \/ part = "history" /\ HistoryInit /\ NoBinary /\ NoManifest /\ NoEdit /\ NoSettings
  \/ part = "manifest" /\ ManifestInit /\ NoBinary /\ NoHistory /\ NoEdit /\ NoSettings
  \/ part = "edit" /\ EditInit /\ NoBinary /\ NoHistory /\ NoManifest /\ NoSettings
  \/ part = "settings" /\ SettingsInit /\ NoBinary /\ NoHistory /\ NoManifest /\ NoEdit

FilesNext ==
  /\ UNCHANGED part
  /\ \/ /\ part = "binary" /\ Next
        /\ UNCHANGED <<historyVars, manifestVars, editVars, settingVars>>
     \/ part = "history" /\ HistoryNext /\ UNCHANGED <<vars, manifestVars, editVars, settingVars>>
     \/ part = "manifest" /\ ManifestNext /\ UNCHANGED <<vars, historyVars, editVars, settingVars>>
     \/ part = "edit" /\ EditNext /\ UNCHANGED <<vars, historyVars, manifestVars, settingVars>>
     \/ part = "settings" /\ SettingsNext /\ UNCHANGED <<vars, historyVars, manifestVars, editVars>>

FilesSpec ==
  FilesInit /\ [][FilesNext]_<<vars, historyVars, manifestVars, editVars, settingVars, part>>
-----------------------------------------------------------------------------
\* "Edit manifest file by rolling the revision of provided projects, imports or packages"
\* (RolledAsTold).
EditsAsTold == part = "edit" => RolledAsTold
==============================================================================
