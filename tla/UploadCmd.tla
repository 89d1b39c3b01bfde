------------------------------ MODULE UploadCmd ------------------------------
(***************************************************************************)
(* "jiri upload" of cmd/jiri/upload.go: which projects are sent to which   *)
(* branch of the remote, the rebase of all of them, and the pushes.        *)
(***************************************************************************)
EXTENDS GitRepo

CONSTANTS
  Projects,      \* the projects of the workspace
  Manifest,      \* the branch of the remote the manifest names, for the projects it has
  UploadRepos,   \* [Projects -> the repositories the command may find]
  UploadCommands \* records of at (the project it runs in, or "root"), multipart, rebase,
                 \* branch, remoteBranch and ref (HEAD or a branch)

ASSUME UploadAssumption ==
  /\ IsFiniteSet(Projects)
  /\ \A p \in Projects : \A r \in UploadRepos[p] : IsRepository(r)
  /\ \A c \in UploadCommands :
       c.at \in Projects \cup {"root"} /\ (c.ref = HeadRef \/ \E b \in Names : c.ref = Local(b))

VARIABLES
  urepo,     \* [Projects -> repository]
  ufirst,    \* history: the repositories the command found
  uflags,    \* the command
  upc,
  uploads,   \* the projects of the phase that are still to be treated
  pushes,    \* gerritPushOptions: [project -> branch of the remote]
  sent,      \* history: [project -> what Gerrit has got and for which branch]
  uret,      \* what runUpload has returned, or "none"
  ufaults

uploadVars == <<urepo, ufirst, uflags, upc, uploads, pushes, sent, uret, ufaults>>
uploadGiven == <<ufirst, uflags>>

UploadProj == Head(uploads)
UploadHere == urepo[UploadProj]
Nothing == [p \in {} |-> NoName]

Current == IF uflags.at = "root" THEN uflags.branch
           ELSE IF ufirst[uflags.at].on = "none" THEN NoName ELSE ufirst[uflags.at].on

UploadInit ==
  /\ urepo \in {r \in [Projects -> UNION {UploadRepos[p] : p \in Projects}] : \A p \in Projects : r[p] \in UploadRepos[p]}
  /\ ufirst = urepo
  /\ uflags \in UploadCommands
  /\ upc = "select" /\ uploads = <<>> /\ pushes = Nothing /\ sent = Nothing /\ uret = "none" /\ ufaults = 0

UploadReturn(r) == upc' = "done" /\ uret' = r
UploadGoto(l) == upc' = l /\ UNCHANGED uret
UploadFault == /\ ufaults < MaxFaults /\ ufaults' = ufaults + 1
               /\ UploadReturn("error") /\ UNCHANGED <<urepo, uploads, pushes, sent>>

\* The project the command runs in or, with -multipart, all that are on its branch.
Selected ==
  IF ~uflags.multipart THEN {uflags.at} \ {"root"}
  ELSE IF Current = NoName THEN {} ELSE {p \in Projects : urepo[p].on = Current}

Select ==
  /\ upc = "select"
  /\ IF Selected = {} \/ (uflags.multipart /\ uflags.ref # HeadRef)
     THEN UploadReturn("error") /\ UNCHANGED uploads
     ELSE UploadGoto("check") /\ \E s \in SetToSeqs(Selected) : uploads' = s
  /\ UNCHANGED <<urepo, uploadGiven, pushes, sent, ufaults>>

\* The branch of the remote is the one that was given, the one the branch tracks, or the
\* one of the manifest; a project with uncommitted changes ends the command.
Check ==
  /\ upc = "check" /\ uploads # <<>>
  /\ LET tracked == IF uflags.remoteBranch # NoName THEN uflags.remoteBranch
                    ELSE IF Current = NoName THEN NoName ELSE RemoteBranchName(UploadHere)
         branch == CASE tracked # NoName -> tracked
                     [] tracked = NoName /\ UploadProj \in DOMAIN Manifest -> Manifest[UploadProj]
                     [] OTHER -> "master" IN
     CASE uflags.rebase /\ UploadHere.dirty -> UploadReturn("error") /\ UNCHANGED <<uploads, pushes>>
       [] ~(uflags.rebase /\ UploadHere.dirty) /\ tracked = "hangs" -> UploadReturn("hangs") /\ UNCHANGED <<uploads, pushes>>
       [] OTHER -> UploadGoto("check") /\ uploads' = Tail(uploads) /\ pushes' = Put(pushes, UploadProj, branch)
  /\ UNCHANGED <<urepo, uploadGiven, sent, ufaults>>

\* Mutant: what can be pushed is pushed before the next project is rebased.
CheckedAllNoRebase ==
  /\ upc = "check" /\ uploads = <<>>
  /\ UploadGoto("push") /\ \E s \in SetToSeqs(DOMAIN pushes) : uploads' = s
  /\ UNCHANGED <<urepo, uploadGiven, pushes, sent, ufaults>>

CheckedAll ==
  /\ upc = "check" /\ uploads = <<>>
  /\ UploadGoto(IF uflags.rebase THEN "rebase" ELSE "push")
  /\ \E s \in SetToSeqs(DOMAIN pushes) : uploads' = s
  /\ UNCHANGED <<urepo, uploadGiven, pushes, sent, ufaults>>

\* The first project that cannot be rebased ends the command; those before it stay rebased.
UploadRebase ==
  /\ upc = "rebase" /\ uploads # <<>>
  /\ \/ UploadFault
     \/ \E b \in RebaseOrAbort(FetchAll(UploadHere, FALSE).repo, Remote(pushes[UploadProj]), TRUE) :
          /\ urepo' = [urepo EXCEPT ![UploadProj] = b.repo]
          /\ IF b.res # "ok" THEN UploadReturn("error") /\ UNCHANGED uploads ELSE UploadGoto("rebase") /\ uploads' = Tail(uploads)
          /\ UNCHANGED <<pushes, sent, ufaults>>
  /\ UNCHANGED uploadGiven

RebasedAll ==
  /\ upc = "rebase" /\ uploads = <<>>
  /\ UploadGoto("push") /\ \E s \in SetToSeqs(DOMAIN pushes) : uploads' = s
  /\ UNCHANGED <<urepo, uploadGiven, pushes, sent, ufaults>>

\* gerrit.Push of a ref to refs/for/ a branch.
Deliver(ref) == sent' = Put(sent, UploadProj, [what |-> RevisionOf(UploadHere, ref), branch |-> pushes[UploadProj]])

\* The only failure that does not end the command is that of a push without new changes;
\* then Gerrit has the revision.
Push ==
  /\ upc = "push" /\ uploads # <<>>
  /\ \/ UploadFault
     \/ ~Exists(UploadHere, uflags.ref) /\ UploadReturn("error") /\ UNCHANGED <<urepo, uploads, pushes, sent, ufaults>>
     \/ /\ Exists(UploadHere, uflags.ref)
        /\ UploadGoto("push") /\ uploads' = Tail(uploads)
        /\ Deliver(uflags.ref) /\ UNCHANGED <<urepo, pushes, ufaults>>
  /\ UNCHANGED uploadGiven

PushedAll ==
  /\ upc = "push" /\ uploads = <<>>
  /\ UploadReturn("nil") /\ UNCHANGED <<urepo, uploadGiven, uploads, pushes, sent, ufaults>>

UploadStep == Select \/ Check \/ CheckedAll \/ UploadRebase \/ RebasedAll \/ Push \/ PushedAll

UploadFinished == upc = "done" /\ UNCHANGED uploadVars
UploadNext == UploadStep \/ UploadFinished
UploadSpec == UploadInit /\ [][UploadNext]_uploadVars
-----------------------------------------------------------------------------
\* A success means that Gerrit has what HEAD, or the ref, of every selected project was, for
\* the branch that is at the end of what it tracks; and no local change has been lost.
UploadComplete ==
  uret = "nil" =>
    /\ DOMAIN sent = IF uflags.multipart THEN {p \in Projects : ufirst[p].on = Current} ELSE {uflags.at}
    /\ \A p \in DOMAIN sent :
         /\ LET before == RevisionOf(ufirst[p], uflags.ref) IN
              Range(before.own) \subseteq Range(sent[p].what.own) \cup Range(ufirst[p].theirs[sent[p].branch].own)
         /\ uflags.remoteBranch = NoName /\ ufirst[p].on # "none" /\ ufirst[p].up[ufirst[p].on][1] = "origin" =>
              sent[p].branch = ufirst[p].up[ufirst[p].on][2]

\* As soon as one change is in Gerrit, every project of a multipart upload is on top of the
\* branch it is sent to, if that is there: "Rebase all projects before pushing"
\* (upload.go:231).
RebasedBeforePush ==
  uflags.rebase /\ sent # Nothing /\ uflags.ref = HeadRef =>
    \A p \in DOMAIN pushes : pushes[p] \in DOMAIN urepo[p].theirs =>
      IsAncestor(urepo[p].theirs[pushes[p]], HeadOf(urepo[p]))

\* However it ends, no branch is gone or has fewer changes, rebased or not, aborted or stuck.
UploadKeeps ==
  \A p \in Projects : \A b \in DOMAIN ufirst[p].tip :
    b \in DOMAIN urepo[p].tip /\ Range(ufirst[p].tip[b].own) \subseteq Range(urepo[p].tip[b].own)

\* An upload takes no change away and sends none too early.
UploadSafe == UploadKeeps /\ RebasedBeforePush
==============================================================================
