----------------------------- MODULE MCManifests -----------------------------
(***************************************************************************)
(* Small manifests for Loader: the root manifest, the files a and c of     *)
(* repository m and the file b of repository n, which import each other in *)
(* chains, diamonds and circles, by remotes, roots and local files, with   *)
(* and without pins, overrides and lockfiles.  And, in behaviours of their *)
(* own, small manifests for Packages: two packages, one of them a template *)
(* for two platforms, in versions that are tags or "latest".               *)
(***************************************************************************)
EXTENDS Loader, Packages, TLC

VARIABLE part   \* "loader" or "packages"
-----------------------------------------------------------------------------

Nothing == [n \in {} |-> 0]
Imp(remote, file, rev) == [remote |-> remote, file |-> file, rev |-> rev, root |-> FALSE]
Rooted(imp) == [imp EXCEPT !.root = TRUE]
Plain(imports, locals, ps) ==
  [imports |-> imports, locals |-> locals, projects |-> ps, hooks |-> {}, packages |-> Nothing,
   projectOverrides |-> Nothing, importOverrides |-> Nothing, locks |-> Nothing]

ToA == Imp("m", "a", NoRev)
ToB == Imp("n", "b", NoRev)
PinB(n) == Imp("n", "b", n)

\* A file beside the root manifest, which the root manifest may import.
Beside == [Plain(<<PinB(1)>>, <<>>, "u" :> NoRev) EXCEPT !.projectOverrides = "p" :> 3 @@ "u" :> 2]

Roots ==
  {Plain(is, <<>>, Nothing) : is \in {<<ToA>>, <<ToB, ToA>>, <<Imp("m", "a", 1)>>, <<PinB(0), ToA>>, <<Rooted(ToB), ToA>>,
                                      <<ToA, Imp("m", "c", NoRev)>>, <<ToA, PinB(1)>>}}
    \cup {Plain(is, <<"more">>, Nothing) : is \in {<<>>, <<ToA>>}}
    \cup {[Plain(<<ToA>>, <<>>, Nothing) EXCEPT !.projectOverrides = po, !.importOverrides = io] :
            po \in {Nothing, "p" :> 3, "n" :> 3}, io \in {Nothing, "n" :> 1}}
FilesA ==
  {Plain(is, ls, ps) : is \in {<<>>, <<ToB>>, <<PinB(1)>>, <<Rooted(ToB)>>}, ls \in {<<>>, <<"c">>, <<"c", "c">>},
                       ps \in {Nothing, "p" :> NoRev @@ "n" :> NoRev}}
    \cup {[Plain(<<>>, <<>>, "p" :> NoRev) EXCEPT !.hooks = h, !.locks = l, !.projectOverrides = po] :
            h \in {{}, {"p"}, {"n"}}, l \in {Nothing, "p" :> 5}, po \in {Nothing, "p" :> 3}}
    \cup {[Plain(<<>>, ls, "p" :> NoRev) EXCEPT !.packages = "x" :> n] : ls \in {<<>>, <<"c">>}, n \in 1..2}
FilesC == {[Plain(<<>>, <<>>, "q" :> 4) EXCEPT !.packages = "x" :> 1], Plain(<<ToB>>, <<>>, Nothing), Plain(<<>>, <<"a">>, Nothing)}
FilesB ==
  {Plain(<<>>, <<>>, "r" :> NoRev), Plain(<<ToA>>, <<>>, "n" :> 1), Plain(<<Rooted(ToA)>>, <<>>, "n" :> NoRev),
   Plain(<<Imp("m", "c", NoRev)>>, <<>>, Nothing),
   [Plain(<<>>, <<>>, "p" :> NoRev @@ "m" :> NoRev) EXCEPT !.locks = "p" :> 6]}

\* In the newer revisions of m the file a has one more project.
MCWorlds ==
  {[root |-> "root" :> r @@ "more" :> Beside,
    files |-> "m" :> [v \in 0..MaxPushes |-> "a" :> [a EXCEPT !.projects = IF v = 0 THEN @ ELSE "s" :> 7 @@ @] @@ "c" :> c]
                @@ "n" :> [v \in 0..MaxPushes |-> "b" :> b]] :
     r \in Roots, a \in FilesA, b \in FilesB, c \in FilesC}
MCModes == [update : BOOLEAN, localManifest : BOOLEAN, lockfile : {TRUE}]
-----------------------------------------------------------------------------
Package(name, version, path, plats) ==
  [name |-> name, template |-> name = "a", version |-> version, path |-> path, internal |-> name = "a",
   plats |-> plats]

TwoOfB == {Package("b", "latest", "y", {}), Package("b", "v2", "z", {})}

PackageSets ==
  {{}, TwoOfB, {Package("a", "v1", "x", {"mac"}), Package("b", "v1", "y", {})}}
    \cup {{Package("a", v, "x", {"linux", "mac"})} \cup b :
             v \in {"v1", "latest"}, b \in {{}, {Package("b", "v1", "y", {})}, {Package("a", "v2", "z", {"linux", "mac"})}}}
-----------------------------------------------------------------------------
NoLoader ==
  /\ world = "none" /\ mode = "none" /\ tip = "none" /\ known = "none" /\ tree = "none" /\ stack = "none" /\ manifests = "none"
  /\ cached = "none" /\ imported = "none" /\ projects = "none" /\ locks = "none" /\ projectOverrides = "none"
  /\ importOverrides = "none" /\ ret = "none" /\ read = {} /\ edges = {} /\ late = {} /\ faults = "none"

NoPackages ==
  /\ manifest = "none" /\ access = "none" /\ latest = "none" /\ lockfile = "none" /\ lock = "none"
  /\ snapshot = "none" /\ installed = "none" /\ flags = "none" /\ last = [cmd |-> "none", ok |-> FALSE] /\ edits = "none"

ManifestsInit ==
  \/ part = "loader" /\ Init /\ NoPackages
  \/ part = "packages" /\ PackagesInit /\ NoLoader

ManifestsNext ==
  /\ UNCHANGED part
  /\ \/ part = "loader" /\ Next /\ UNCHANGED packageVars
     \/ part = "packages" /\ PackagesNext /\ UNCHANGED vars

ManifestsSpec == ManifestsInit /\ [][ManifestsNext]_<<vars, packageVars, part>>
==============================================================================
