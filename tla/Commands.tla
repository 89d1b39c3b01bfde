------------------------------ MODULE Commands -------------------------------
(***************************************************************************)
(* The commands the user changes branches with, jiri branch, jiri patch    *)
(* and jiri upload, one of them at a time.                                 *)
(***************************************************************************)
EXTENDS BranchCmd, PatchCmd, UploadCmd

CONSTANT Which     \* the commands that are looked at

ASSUME WhichAssumption == Which \subseteq {"branch", "patch", "upload"}

VARIABLE cmd

allVars == <<cmd, branchVars, patchVars, uploadVars>>
-----------------------------------------------------------------------------
NoBranchCmd ==
  /\ repo = "none" /\ first = "none" /\ opts = [mode |-> "-D"] /\ config = "none" /\ gerrit = "none"
  /\ pc = "none" /\ todo = "none" /\ deleted = "none" /\ noMap = "none" /\ failed = "none" /\ faults = "none"

NoPatchCmd ==
  /\ prepo = "none" /\ pfirst = "none" /\ pflags = [delete |-> TRUE, force |-> TRUE] /\ topic = "none"
  /\ ppc = "none" /\ changes = "none" /\ lastRef = "none" /\ failures = "none" /\ rebaseFailures = "none"
  /\ applied = "none" /\ pret = "none" /\ pfaults = "none"

NoUploadCmd ==
  /\ urepo = "none" /\ ufirst = [p \in Projects |-> [tip |-> <<>>]] /\ uflags = [rebase |-> FALSE]
  /\ upc = "none" /\ uploads = "none" /\ pushes = "none" /\ sent = "none" /\ uret = "none" /\ ufaults = "none"

Init ==
  /\ cmd \in Which
  /\ \/ cmd = "branch" /\ BranchInit /\ NoPatchCmd /\ NoUploadCmd
     \/ cmd = "patch" /\ PatchInit /\ NoBranchCmd /\ NoUploadCmd
     \/ cmd = "upload" /\ UploadInit /\ NoBranchCmd /\ NoPatchCmd

Next ==
  /\ UNCHANGED cmd
  /\ \/ cmd = "branch" /\ BranchNext /\ UNCHANGED <<patchVars, uploadVars>>
     \/ cmd = "patch" /\ PatchNext /\ UNCHANGED <<branchVars, uploadVars>>
     \/ cmd = "upload" /\ UploadNext /\ UNCHANGED <<branchVars, patchVars>>

Spec == Init /\ [][Next]_allVars
-----------------------------------------------------------------------------
\* Success means that every change of the topic is in its project, and every
\* project of a multipart upload in Gerrit, for the branch it tracks.
DoneIfNil == PatchComplete /\ UploadComplete
==============================================================================
