------------------------------- MODULE Loader --------------------------------
(***************************************************************************)
(* The loader of manifests of project/loader.go: LoadManifestFile and      *)
(* LoadUpdatedManifest from the root manifest through imports, local       *)
(* imports, overrides and lockfiles to the projects, while others push to  *)
(* the repositories of the manifests.  The recursion of load is a stack.   *)
(*                                                                         *)
(* A world says what is in the files: the root manifest and those beside   *)
(* it, and for each repository, revision and file a manifest, with         *)
(*   imports    a sequence of [remote, file, rev, root], rooted or not     *)
(*   locals     the files of its localimport tags, in order                *)
(*   projects   [name -> revision, or NoRev]                                *)
(*   hooks      the names of the projects its hooks are for; one that is   *)
(*              not valid is for no project                                *)
(*   packages   [key of a package -> how many of its tags have it]         *)
(*   projectOverrides, importOverrides   [name -> revision]                *)
(*   locks      [name -> revision], of the lockfile beside it              *)
(* A project has the name of its remote here.  A root is a depth: a        *)
(* rooted import is one deeper than the manifest it is in.                 *)
(***************************************************************************)
EXTENDS Integers, SequencesExt

CONSTANTS
  Worlds,     \* what may be in the files
  Modes,      \* records of update, localManifest and lockfile, BOOLEANs
  Present,    \* the repositories of manifests that are checked out, unrooted
  MaxPushes,  \* bound: revisions 0..MaxPushes of each repository
  MaxFaults   \* bound: clones and fetches that fail

NoRev == 99   \* the revision "HEAD", or none

IsMap(f) == f \in [DOMAIN f -> Nat]

IsManifest(m, remotes) ==
  /\ m.imports \in Seq([remote : remotes, file : STRING, rev : Nat, root : BOOLEAN])
  /\ m.locals \in Seq(STRING) /\ m.hooks \subseteq STRING
  /\ IsMap(m.projects) /\ IsMap(m.packages)
  /\ IsMap(m.projectOverrides) /\ IsMap(m.importOverrides) /\ IsMap(m.locks)

IsWorld(w) ==
  /\ \A f \in DOMAIN w.root : IsManifest(w.root[f], DOMAIN w.files)
  /\ \A r \in DOMAIN w.files : \A v \in 0..MaxPushes : \A f \in DOMAIN w.files[r][v] :
       IsManifest(w.files[r][v][f], DOMAIN w.files)

IsMode(m) == m \in [update : BOOLEAN, localManifest : BOOLEAN, lockfile : BOOLEAN]

ASSUME LoaderAssumption ==
  /\ MaxPushes \in Nat /\ MaxFaults \in Nat
  /\ \A w \in Worlds : IsWorld(w)
  /\ \A m \in Modes : IsMode(m)

VARIABLES
  world, mode,
  tip,        \* [remote -> the revision its branch is at]
  known,      \* localProjects: [checkout <<remote, depth>> -> where its origin/branch is]
  tree,       \* [checkout -> the revision in its working tree]
  stack,      \* the calls of load that have not returned, which is cycleStack too
  manifests,  \* the files load has been called for
  cached,     \* importCacheMap: [remote -> <<"local">> or a ref]
  imported,   \* importProjects: [checkout -> revision of the import]
  projects,   \* ld.Projects: [<<name, depth>> -> revision]
  locks,      \* ld.ProjectLocks
  projectOverrides, importOverrides,
  ret,        \* "none", "ok" or the kind of error
  read,       \* history: the <<checkout, file, revision>> that were read
  edges,      \* history: which file imports which
  late,       \* history: projects imported or overridden when they had been read
  faults

vars == <<world, mode, tip, known, tree, stack, manifests, cached, imported, projects, locks,
          projectOverrides, importOverrides, ret, read, edges, late, faults>>
given == <<world, mode>>
checkouts == <<known, tree>>
maps == <<projects, locks, projectOverrides, importOverrides>>

Local == <<"local">>
Branch == <<"branch">>
JiriHead == <<"JIRI_HEAD">>
Pin(n) == <<"rev", n>>

\* A call of load: its file in its checkout, the key of the import it is for, the ref and
\* the revision it was read at, are its imports to be read from working trees, and how many
\* of its imports and local imports are done.
Frame(c, file, key, ref, at, lm) ==
  [c |-> c, file |-> file, key |-> key, ref |-> ref, at |-> at, lm |-> lm, i |-> 0, j |-> 0]
Top == Last(stack)
IsRoot(f) == f.c = <<>>
FilesAt(f) == IF IsRoot(f) THEN world.root ELSE world.files[f.c[1]][f.at]
Manifest(f) == FilesAt(f)[f.file]
Depth(f) == IF IsRoot(f) THEN 0 ELSE f.c[2]

\* The function f with v at c, and the function f with g where f is not defined.
Put(f, c, v) == [x \in DOMAIN f \cup {c} |-> IF x = c THEN v ELSE f[x]]
Over(f, g) == [x \in DOMAIN f \cup DOMAIN g |-> IF x \in DOMAIN f THEN f[x] ELSE g[x]]

\* A checkout that was there at the start: it has a JIRI_HEAD, at revision 0, from the last
\* update.
IsOld(c) == c[1] \in Present /\ c[2] = 0

\* What a ref is in a checkout with branch b and working tree t; -1 if it is not there.
At(c, ref, b, t) ==
  CASE ref = Branch -> b
    [] ref = Local -> t
    [] ref = JiriHead -> IF IsOld(c) THEN 0 ELSE -1
    [] OTHER -> IF ref[2] <= b THEN ref[2] ELSE -1
-----------------------------------------------------------------------------
Init ==
  /\ world \in Worlds /\ mode \in Modes
  /\ tip = [r \in DOMAIN world.files |-> 0]
  /\ known = [c \in {<<r, 0>> : r \in Present \cap DOMAIN world.files} |-> 0] /\ tree = known
  /\ stack = <<>> /\ manifests = {} /\ cached = [r \in {} |-> Local]
  /\ imported = [c \in {} |-> 0] /\ projects = [p \in {} |-> 0] /\ locks = [n \in {} |-> 0]
  /\ projectOverrides = [n \in {} |-> 0] /\ importOverrides = [n \in {} |-> 0]
  /\ ret = "none" /\ read = {} /\ edges = {} /\ late = {} /\ faults = 0

Working == ret = "none"
Advance(step) == [stack EXCEPT ![Len(stack)][step] = @ + 1]

Fail(kind) == /\ ret' = kind
              /\ UNCHANGED <<checkouts, stack, manifests, cached, imported, maps, read, edges, late>>

\* Mutant: a file is not looked for on the stack.
CycleOfKeys(f) == \E i \in DOMAIN stack : f.key = stack[i].key /\ f.key # <<>>

\* loadNoCycles: is the file, or the import, on the stack already?
IsCycle(f) ==
  \E i \in DOMAIN stack : \/ f.c = stack[i].c /\ f.file = stack[i].file
                          \/ f.key = stack[i].key /\ f.key # <<>>

\* Two lockfiles that disagree, which an import override makes jiri put up with.
LockConflict(m) ==
  /\ mode.lockfile /\ importOverrides = [n \in {} |-> 0]
  /\ \E n \in DOMAIN m.locks \cap DOMAIN locks : m.locks[n] # locks[n]

Stop(kind) == ret' = kind /\ UNCHANGED <<stack, manifests, maps, read>>

IsThere(f) == f.at # -1 /\ f.file \in DOMAIN FilesAt(f)

\* Overrides count in the root manifest and in the files beside it that it imports.
Misplaced(f) ==
  ~IsRoot(f) /\ DOMAIN Manifest(f).projectOverrides \cup DOMAIN Manifest(f).importOverrides # {}

\* The manifest and its lockfile are read.
Read(f, below) ==
  LET m == Manifest(f) IN
  /\ stack' = Append(below, f)
  /\ manifests' = manifests \cup {<<f.c, f.file>>}
  /\ read' = read \cup {<<f.c, f.file, f.at>>}
  /\ locks' = IF mode.lockfile THEN Over(locks, m.locks) ELSE locks
  /\ projectOverrides' = Over(m.projectOverrides, projectOverrides)
  /\ importOverrides' = Over(m.importOverrides, importOverrides)
  /\ UNCHANGED <<projects, ret>>

\* load, up to the imports; below is the stack the call returns to.  Nothing is done for a
\* file that was loaded before.
Enter(f, below) ==
  \/ IsCycle(f) /\ Stop("cycle")
  \/ /\ ~IsCycle(f) /\ <<f.c, f.file>> \in manifests
     /\ stack' = below /\ UNCHANGED <<manifests, maps, ret, read>>
  \/ /\ ~IsCycle(f) /\ <<f.c, f.file>> \notin manifests
     /\ \/ ~IsThere(f) /\ Stop("missing")
        \/ IsThere(f) /\ LockConflict(Manifest(f)) /\ Stop("lock")
        \/ IsThere(f) /\ ~LockConflict(Manifest(f)) /\ Misplaced(f) /\ Stop("override")
        \/ IsThere(f) /\ ~LockConflict(Manifest(f)) /\ ~Misplaced(f) /\ Read(f, below)

Begin ==
  /\ Working /\ manifests = {}
  /\ Enter(Frame(<<>>, "root", <<>>, Local, 0, mode.localManifest), <<>>)
  /\ UNCHANGED <<given, tip, checkouts, cached, imported, edges, late, faults>>
-----------------------------------------------------------------------------
(***************************************************************************)
(* Imports.                                                                *)
(***************************************************************************)
\* overrideImport.
Overridden(imp) ==
  IF imp.remote \in DOMAIN importOverrides THEN [imp EXCEPT !.rev = importOverrides[imp.remote]] ELSE imp

RefOf(rev) == IF rev = NoRev THEN Branch ELSE Pin(rev)

\* cloneManifestRepo, if the checkout is not there, and what it checks out.
Cloned(c) == IF c \in DOMAIN known THEN known ELSE Put(known, c, tip[c[1]])
CheckedOut(c, rev) ==
  IF c \in DOMAIN known THEN tree ELSE Put(tree, c, IF rev = NoRev THEN tip[c[1]] ELSE rev)
NotOnRemote(c, rev) == c \notin DOMAIN known /\ rev # NoRev /\ rev > tip[c[1]]

\* Does loadImport fetch?  Not for a pinned revision that is there.
Fetches(c, rev) == mode.update /\ (rev = NoRev \/ rev > Cloned(c)[c])

\* Mutant: each import is looked up anew.
RefAnew(c, imp, lm) ==
  IF lm THEN Local ELSE IF ~mode.update /\ IsOld(c) THEN JiriHead ELSE RefOf(imp.rev)

\* The ref an import is read at: that of the first import of its remote.
ImportRef(c, imp, lm) ==
  CASE imp.remote \in DOMAIN cached -> cached[imp.remote]
    [] imp.remote \notin DOMAIN cached /\ lm -> Local
    [] imp.remote \notin DOMAIN cached /\ ~lm /\ ~mode.update /\ IsOld(c) -> JiriHead
    [] OTHER -> RefOf(imp.rev)

\* Two imports of a remote must agree, unless the first is local or at JIRI_HEAD.
ImportConflict(imp) ==
  /\ imp.remote \in DOMAIN cached /\ cached[imp.remote] \notin {Local, JiriHead}
  /\ cached[imp.remote] # RefOf(imp.rev)

\* One import tag of the manifest on top of the stack, and the call of load for its file.
Import ==
  /\ Working /\ stack # <<>> /\ Top.i < Len(Manifest(Top).imports)
  /\ LET imp == Overridden(Manifest(Top).imports[Top.i + 1])
         c == <<imp.remote, Depth(Top) + (IF imp.root THEN 1 ELSE 0)>>
         key == <<imp.remote, imp.file>>
         ref == ImportRef(c, imp, Top.lm)
         fetches == ref # Local /\ imp.remote \notin DOMAIN cached /\ Fetches(c, imp.rev)
         k == IF fetches THEN Put(Cloned(c), c, tip[imp.remote]) ELSE Cloned(c)
         t == CheckedOut(c, imp.rev) IN
     \/ imp.remote \in DOMAIN projectOverrides /\ Fail("override") /\ UNCHANGED faults
     \/ imp.remote \notin DOMAIN projectOverrides /\ NotOnRemote(c, imp.rev) /\ Fail("git") /\ UNCHANGED faults
     \/ /\ imp.remote \notin DOMAIN projectOverrides /\ ~NotOnRemote(c, imp.rev)
        /\ c \notin DOMAIN known \/ fetches
        /\ faults < MaxFaults /\ faults' = faults + 1 /\ Fail("git")
     \/ /\ imp.remote \notin DOMAIN projectOverrides /\ ~NotOnRemote(c, imp.rev)
        /\ known' = k /\ tree' = t
        /\ imported' = Put(imported, c, imp.rev)
        /\ edges' = edges \cup {<<<<Top.c, Top.file>>, <<c, imp.file>>>>}
        /\ late' = late \cup ({c} \cap DOMAIN projects)
        /\ \/ ImportConflict(imp) /\ Stop("conflict") /\ UNCHANGED cached
           \/ /\ ~ImportConflict(imp) /\ cached' = Put(cached, imp.remote, ref)
              /\ Enter(Frame(c, imp.file, key, ref, At(c, ref, k[c], t[c]), FALSE), Advance("i"))
        /\ UNCHANGED faults
  /\ UNCHANGED <<given, tip>>

\* The revision an override gives a project, -1 if there is none.
OverrideOf(name) ==
  CASE name \in DOMAIN importOverrides -> importOverrides[name]
    [] name \notin DOMAIN importOverrides /\ name \in DOMAIN projectOverrides -> projectOverrides[name]
    [] OTHER -> -1

\* One localimport tag: a file of the same checkout, at the same ref.
LocalImport ==
  /\ Working /\ stack # <<>>
  /\ Top.i = Len(Manifest(Top).imports) /\ Top.j < Len(Manifest(Top).locals)
  /\ LET file == Manifest(Top).locals[Top.j + 1]
         at == IF IsRoot(Top) THEN 0 ELSE At(Top.c, Top.ref, known[Top.c], tree[Top.c]) IN
     /\ edges' = edges \cup {<<<<Top.c, Top.file>>, <<Top.c, file>>>>}
     /\ Enter(Frame(Top.c, file, <<>>, Top.ref, at, Top.lm), Advance("j"))
     /\ late' = late \cup {p \in DOMAIN projects : OverrideOf(p[1])' # OverrideOf(p[1])}
  /\ UNCHANGED <<given, tip, checkouts, cached, imported, faults>>
-----------------------------------------------------------------------------
(***************************************************************************)
(* Projects.                                                               *)
(***************************************************************************)
\* Mutant: an override of the import is forgotten.
RevisionOfTag(name, declared, pinned) ==
  LET own == IF name \in DOMAIN projectOverrides THEN projectOverrides[name] ELSE declared IN
  IF own = NoRev THEN pinned ELSE own

\* The revision the import of a project gives it.
PinOf(p) == IF p \in DOMAIN imported THEN imported[p] ELSE NoRev

\* overrideProject, and the revision of the import of the project.
RevisionIn(name, declared, pinned) ==
  LET own == IF OverrideOf(name) = -1 THEN declared ELSE OverrideOf(name) IN
  IF own = NoRev THEN pinned ELSE own

FileOf(x) == Frame(x[1], x[2], <<>>, Local, x[3], FALSE)

\* ld.Packages: the packages of the files load has returned for.
PackagesSoFar ==
  UNION {DOMAIN Manifest(FileOf(x)).packages :
           x \in {y \in read : \A i \in DOMAIN stack : <<stack[i].c, stack[i].file>> # <<y[1], y[2]>>}}

\* The rest of load: the projects of the manifest, unless one is overridden twice, pinned
\* twice, or there already, its hooks, which must be for projects of this manifest, and its
\* packages, which no other tag may have.
Collect ==
  /\ Working /\ stack # <<>>
  /\ Top.i = Len(Manifest(Top).imports) /\ Top.j = Len(Manifest(Top).locals)
  /\ LET m == Manifest(Top)
         depth == Depth(Top)
         pinned(n) == PinOf(<<n, depth>>)
         rev(n) == RevisionIn(n, m.projects[n], pinned(n))
         wrong ==
           {<<n, "override">> : n \in DOMAIN m.projects \cap DOMAIN importOverrides \cap DOMAIN projectOverrides}
             \cup {<<n, "revision">> : n \in {x \in DOMAIN m.projects : pinned(x) \notin {NoRev, rev(x)}}}
             \cup {<<n, "duplicate">> : n \in {x \in DOMAIN m.projects : <<x, depth>> \in DOMAIN projects}}
             \cup {<<n, "hook">> : n \in m.hooks \ DOMAIN m.projects}
             \cup {<<n, "package">> : n \in {x \in DOMAIN m.packages : m.packages[x] > 1 \/ x \in PackagesSoFar}} IN
     \/ wrong # {} /\ (\E w \in wrong : Fail(w[2]))
     \/ /\ wrong = {}
        /\ projects' = Over([x \in {<<n, depth>> : n \in DOMAIN m.projects} |-> rev(x[1])], projects)
        /\ stack' = Front(stack)
        /\ UNCHANGED <<checkouts, manifests, cached, imported, locks, projectOverrides, importOverrides, ret, read,
                       edges, late>>
  /\ UNCHANGED <<given, tip, faults>>

\* enforceLocks: a project without a revision has that of the lockfile.
Finish ==
  /\ Working /\ manifests # {} /\ stack = <<>>
  /\ LET locked == {p \in DOMAIN projects : p[2] = 0 /\ p[1] \in DOMAIN locks}
         clash == {p \in locked : projects[p] \notin {NoRev, locks[p[1]]}} IN
     /\ ret' = IF clash # {} THEN "lock" ELSE "ok"
     /\ projects' = [p \in DOMAIN projects |-> IF p \in locked /\ projects[p] = NoRev THEN locks[p[1]] ELSE projects[p]]
  /\ UNCHANGED <<given, tip, checkouts, stack, manifests, cached, imported, locks, projectOverrides, importOverrides,
                 read, edges, late, faults>>

\* Others push while the manifests are loaded.
Push ==
  /\ Working /\ \E r \in DOMAIN tip : tip[r] < MaxPushes /\ tip' = [tip EXCEPT ![r] = @ + 1]
  /\ UNCHANGED <<given, checkouts, stack, manifests, cached, imported, maps, ret, read, edges, late, faults>>

Step == Begin \/ Import \/ LocalImport \/ Collect \/ Finish

Returned == ~Working /\ UNCHANGED vars
Next == Step \/ Push \/ Returned
Spec == Init /\ [][Next]_vars /\ WF_vars(Step)
-----------------------------------------------------------------------------
Remotes == DOMAIN world.files
Checkout == Remotes \X Nat
File == {"root"} \cup STRING
Ref == {Local, Branch, JiriHead} \cup ({"rev"} \X Nat)
Revision == 0..MaxPushes
Call == [c : {<<>>} \cup Checkout, file : File, key : {<<>>} \cup Remotes \X File, ref : Ref,
         at : Revision, lm : BOOLEAN, i : Nat, j : Nat]
Result ==
  {"none", "ok", "cycle", "missing", "lock", "override", "git", "conflict", "revision", "duplicate", "hook",
   "package"}

\* The values the variables take.
TypeOK ==
  /\ IsWorld(world) /\ IsMode(mode)
  /\ tip \in [Remotes -> Revision]
  /\ DOMAIN known \subseteq Checkout /\ known \in [DOMAIN known -> Revision] /\ tree \in [DOMAIN known -> Revision]
  /\ stack \in Seq(Call)
  /\ cached \in [DOMAIN cached -> Ref]
  /\ IsMap(imported) /\ IsMap(projects) /\ IsMap(locks) /\ IsMap(projectOverrides) /\ IsMap(importOverrides)
  /\ ret \in Result
  /\ faults \in 0..MaxFaults

\* All files of a checkout were read at one revision, however often its remote is imported
\* and whatever is pushed meanwhile.
OneRevision == \A x, y \in read : x[1] = y[1] => x[3] = y[3]

Unrooted(n) == IF n[1] = <<>> THEN <<"root", n[2]>> ELSE <<n[1][1], n[2]>>
Circular(e) == \E S \in SUBSET {x[1] : x \in e} : S # {} /\ \A n \in S : \E x \in e : x[1] = n /\ x[2] \in S

\* Manifests that import each other in a circle are reported, through files, remotes or
\* roots; and those that do not, although they import one file many times, are not.
CycleReported ==
  /\ ret = "ok" => ~Circular(edges)
  /\ ret = "cycle" => Circular({<<Unrooted(x[1]), Unrooted(x[2])>> : x \in edges})

FirstOf(own, pin, lock) == IF own # NoRev THEN own ELSE IF pin # NoRev THEN pin ELSE lock

\* A success has all projects of all files that are imported, each at the revision of its
\* override, or its tag, of its import, of the lockfile, or none, in this order; but an
\* import or an override that comes after the project was read is not looked at for it.
Complete ==
  ret = "ok" =>
    \A x \in read : LET m == Manifest(FileOf(x))
                        depth == Depth(FileOf(x)) IN
      /\ \A i \in 1..Len(m.imports) : \E y \in read :
           y[1] # <<>> /\ y[1][1] = m.imports[i].remote /\ y[2] = m.imports[i].file
      /\ \A i \in 1..Len(m.locals) : \E y \in read : y[1] = x[1] /\ y[2] = m.locals[i]
      /\ \A n \in DOMAIN m.projects : LET p == <<n, depth>> IN
           /\ p \in DOMAIN projects
           /\ p \notin late =>
                projects[p] = FirstOf(IF OverrideOf(n) = -1 THEN m.projects[n] ELSE OverrideOf(n), PinOf(p),
                                      IF depth = 0 /\ n \in DOMAIN locks THEN locks[n] ELSE NoRev)
==============================================================================
