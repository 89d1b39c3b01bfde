------------------------------ MODULE Packages -------------------------------
(***************************************************************************)
(* The packages of cipd and their locks: jiri resolve                      *)
(* (GenerateJiriLockFile), the fetch of packages of jiri update and        *)
(* fetch-packages, snapshots and their checkout, while others edit the     *)
(* manifests and push instances, and the user gains or loses access.       *)
(*                                                                         *)
(* A package is [name, template, version, path, internal, plats]; its name *)
(* expands to one name for each of its platforms if it is a template.      *)
(* The version "latest" is a ref, which moves; others are tags.            *)
(***************************************************************************)
EXTENDS Naturals, FiniteSets

CONSTANTS
  Manifests,  \* sets of packages, what may be in the manifests
  Host,       \* the platform jiri runs on
  MaxMoves,   \* bound: how often "latest" moves
  MaxEdits    \* bound: how often a manifest is edited or access changes

VARIABLES
  manifest,
  access,     \* may the user read internal packages?
  latest,     \* the instance that "latest" is
  lockfile,   \* jirix.LockfileEnabled
  lock,       \* the lockfile: [<<expanded name, version>> -> [id, path]]
  snapshot,   \* the packages of a snapshot with their instances, {} before
  installed,  \* [path -> <<expanded name, instance>>]
  flags,      \* the flag files: [package -> was it fetched?]
  last,       \* the command that ended last and its result
  edits

packageVars == <<manifest, access, latest, lockfile, lock, snapshot, installed, flags, last, edits>>

\* Expand: the names of a package on the platforms.
ExpandOn(p, plats) == IF p.template THEN {<<p.name, pl>> : pl \in p.plats \cap plats} ELSE {<<p.name>>}
Expand(p) == ExpandOn(p, p.plats)

\* What cipd has: a tag is always the same instance.
Instance(version) == IF version = "latest" THEN <<"latest", latest>> ELSE <<version, 0>>

\* FilterACL: by the names of the internal packages.
Readable(ps) == {p \in ps : access \/ \A q \in ps : q.internal => q.name # p.name}

NoLock == [k \in {} |-> 0]

PackagesInit ==
  /\ manifest \in Manifests /\ access \in BOOLEAN /\ latest = 0 /\ lockfile \in BOOLEAN
  /\ lock = NoLock /\ snapshot = {} /\ installed = [p \in {} |-> 0] /\ flags = [p \in {} |-> TRUE]
  /\ last = [cmd |-> "none", ok |-> FALSE] /\ edits = 0

Ended(cmd, ok) == last' = [cmd |-> cmd, ok |-> ok]
-----------------------------------------------------------------------------
(***************************************************************************)
(* jiri resolve.                                                           *)
(***************************************************************************)
LockedVersions(n) == {k[2] : k \in {x \in DOMAIN lock : x[1] = n}}
Named(n) == {p \in manifest : n \in Expand(p)}
PackageNames == UNION {Expand(p) : p \in manifest}

\* Mutant: a version that is new is resolved, one that is gone is not noticed.
ChangedGrown == {n \in PackageNames : ~({p.version : p \in Named(n)} \subseteq LockedVersions(n))}

\* getChangedLocksPkgs: the names whose versions are not those of the lockfile.
Changed == {n \in PackageNames : {p.version : p \in Named(n)} # LockedVersions(n)}

\* resolveLocks: the keys of the packages in todo that can be read.
Found(todo) == UNION {{<<n, p.version>> : n \in Expand(p)} : p \in Readable(todo)}

\* The packages of which todo has several versions, each with its names.
Several(todo) ==
  {p \in manifest : \E q, r \in todo : q.name = p.name /\ r.name = p.name /\ q.version # r.version}
Keyed(todo) == UNION {{<<n, p>> : n \in Expand(p)} : p \in Several(todo)}

\* What becomes of the locks when the packages in todo are resolved and the locks in kept
\* stay.  Packages of several versions get their path; if a key of theirs is not there, the
\* error is nil, and so are the locks.
Resolved(todo, kept) ==
  LET locks == [k \in Found(todo) \cup kept |->
                  IF k \in kept THEN lock[k] ELSE [id |-> Instance(k[2]), path |-> ""]]
      for(k) == {x \in Keyed(todo) : <<x[1], x[2].version>> = k} IN
  IF \E x \in Keyed(todo) : <<x[1], x[2].version>> \notin DOMAIN locks THEN NoLock
  ELSE [k \in DOMAIN locks |->
          IF for(k) = {} THEN locks[k] ELSE [id |-> locks[k].id, path |-> (CHOOSE x \in for(k) : TRUE)[2].path]]

\* With a lockfile and without -full-resolve only what has changed is resolved, unless the
\* lockfile has names the manifests do not.
Partial(full) == ~full /\ lock # NoLock /\ {k[1] : k \in DOMAIN lock} \subseteq PackageNames

Resolve(full, floating) ==
  LET todo == IF Partial(full) THEN UNION {Named(n) : n \in Changed} ELSE manifest
      kept == IF Partial(full) THEN {k \in DOMAIN lock : k[1] \notin Changed} ELSE {} IN
  /\ \/ Ended("resolve", FALSE) /\ UNCHANGED lock
     \/ /\ floating \/ \A p \in todo : p.version # "latest"
        /\ lock' = Resolved(todo, kept)
        /\ Ended("resolve", TRUE)
  /\ UNCHANGED <<manifest, access, latest, lockfile, snapshot, installed, flags, edits>>
-----------------------------------------------------------------------------
(***************************************************************************)
(* Fetching and snapshots.                                                 *)
(***************************************************************************)
\* enforceLocks: the instances of a package, on all of its platforms.
Instances(p) ==
  IF lockfile THEN {<<n, lock[<<n, p.version>>].id>> : n \in {x \in Expand(p) : <<x, p.version>> \in DOMAIN lock}}
  ELSE {}
WithInstances(ps) == {<<p, Instances(p)>> : p \in ps}

\* Mutant: the version of the manifest.
DeclaredVersion(p, instances) == Instance(p.version)

\* cipdDecl in a checkout of a snapshot: the instance of the snapshot.
Declared(p, instances) ==
  LET of == {i \in instances : i[1] \in ExpandOn(p, {Host})} IN
  IF of = {} THEN Instance(p.version) ELSE (CHOOSE i \in of : TRUE)[2]

\* The packages that are fetched: those the user can read that are for this platform.
Mine(pinned) ==
  {x \in pinned : x[1] \in Readable({y[1] : y \in pinned}) /\ ExpandOn(x[1], {Host}) # {}}
NameHere(p) == CHOOSE n \in ExpandOn(p, {Host}) : TRUE

\* With a lockfile cipd takes the version file for what a version is.
InstanceOf(x, versions, usingSnapshot) ==
  IF usingSnapshot \/ ~versions THEN Declared(x[1], IF usingSnapshot THEN x[2] ELSE {})
  ELSE (CHOOSE i \in x[2] : i[1] = NameHere(x[1]))[2]
Missing(x) == \A i \in x[2] : i[1] # NameHere(x[1])

\* cipd ensure: what is installed is exactly what the ensure file says.
Ensured(mine, versions, usingSnapshot) ==
  [path \in {x[1].path : x \in mine} |->
     LET x == CHOOSE x \in mine : x[1].path = path IN <<NameHere(x[1]), InstanceOf(x, versions, usingSnapshot)>>]

\* WritePackageFlags, when it has written those of the packages in done.
Flagged(ps, done) ==
  [p \in DOMAIN flags \cup done |-> IF p \in done THEN p \in Readable(ps) ELSE flags[p]]

\* FetchPackages.  Without packages nothing is called and what is installed stays.  An
\* ensure fails if a version is missing; one that fails or times out has changed some
\* packages.  After it some flags may not be written, or what comes after them may fail.
FetchPackages(cmd, pinned, versions, usingSnapshot) ==
  LET ps == {x[1] : x \in pinned}
      mine == Mine(pinned)
      missing == ~usingSnapshot /\ versions /\ \E x \in mine : Missing(x)
      after == Ensured(mine, versions, usingSnapshot) IN
  IF pinned = {} THEN Ended(cmd, TRUE) /\ UNCHANGED <<installed, flags>>
  ELSE \/ /\ Ended(cmd, TRUE) /\ ~missing
          /\ installed' = after /\ flags' = Flagged(ps, ps)
       \/ /\ Ended(cmd, FALSE)
          /\ \/ installed' \in (IF missing THEN {installed} ELSE {installed, after}) /\ UNCHANGED flags
             \/ ~missing /\ installed' = after /\ \E done \in SUBSET ps : flags' = Flagged(ps, done)

Fetch ==
  /\ FetchPackages("fetch", WithInstances(manifest), lockfile, FALSE)
  /\ UNCHANGED <<manifest, access, latest, lockfile, lock, snapshot, edits>>

CreateSnapshot ==
  /\ snapshot' = WithInstances(manifest) /\ Ended("snapshot", TRUE)
  /\ UNCHANGED <<manifest, access, latest, lockfile, lock, installed, flags, edits>>

\* CheckoutSnapshot, which sets the lockfile aside.
CheckoutSnapshot ==
  /\ snapshot # {}
  /\ FetchPackages("checkout", snapshot, FALSE, TRUE)
  /\ UNCHANGED <<manifest, access, latest, lockfile, lock, snapshot, edits>>
-----------------------------------------------------------------------------
Edit ==
  /\ edits < MaxEdits /\ edits' = edits + 1
  /\ \/ manifest' \in Manifests \ {manifest} /\ UNCHANGED access
     \/ access' = ~access /\ UNCHANGED manifest
  /\ last' = [cmd |-> "none", ok |-> FALSE]
  /\ UNCHANGED <<latest, lockfile, lock, snapshot, installed, flags>>

MoveRef ==
  /\ latest < MaxMoves /\ latest' = latest + 1
  /\ UNCHANGED <<manifest, access, lockfile, lock, snapshot, installed, flags, last, edits>>

PackagesNext ==
  \/ \E full, floating \in BOOLEAN : Resolve(full, floating)
  \/ Fetch \/ CreateSnapshot \/ CheckoutSnapshot \/ Edit \/ MoveRef
PackagesSpec == PackagesInit /\ [][PackagesNext]_packageVars
-----------------------------------------------------------------------------
\* Can the user read some package and not another version of it?
HiddenVersion ==
  \E p, q \in manifest : p.name = q.name /\ p.version # q.version /\ p \notin Readable(manifest)

\* A resolve, full or not, leaves a lock for every package that can be read and none for
\* a version that is not in the manifests, whatever lockfile it started from; except for the lockfile
\* it empties when it cannot read a package of several versions.
LocksMatch ==
  last.cmd = "resolve" /\ last.ok /\ ~HiddenVersion =>
    /\ \A p \in Readable(manifest) : \A n \in Expand(p) : <<n, p.version>> \in DOMAIN lock
    /\ \A k \in DOMAIN lock : \E p \in manifest : k[1] \in Expand(p) /\ k[2] = p.version
    /\ \A k \in DOMAIN lock : k[2] # "latest" => lock[k].id = Instance(k[2])

\* What is fetched is what the lockfile, or the snapshot, says, however refs have moved
\* since; and a package whose flag says it was fetched is there, if it is for this platform.
PinnedInstalled ==
  /\ last.cmd \in {"fetch", "checkout"} /\ last.ok =>
       \A x \in (IF last.cmd = "fetch" THEN WithInstances(manifest) ELSE snapshot) :
          \A i \in x[2] : i[1] \in ExpandOn(x[1], {Host}) /\ x[1] \in DOMAIN flags /\ flags[x[1]] =>
              x[1].path \in DOMAIN installed /\ installed[x[1].path] = i
==============================================================================
