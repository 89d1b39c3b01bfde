--------------------------- MODULE ManifestsProofs ---------------------------
(* Proofs about Loader and, at the end, about Packages. *)
EXTENDS Loader, Packages, SequenceTheorems, TLAPS

-----------------------------------------------------------------------------
(* The inductive invariant. *)

Node(f) == <<f.c, f.file>>

\* A checkout is read at what the ref of its remote is in it, since then and now.
RefsStay ==
  /\ \A k \in 1..Len(stack) : LET f == stack[k] IN
       /\ <<f.c, f.file, f.at>> \in read /\ IsThere(f)
       /\ f.c # <<>> => f.c \in DOMAIN known /\ f.c[1] \in DOMAIN cached /\ f.ref = cached[f.c[1]]
  /\ \A x \in read :
       IF x[1] = <<>> THEN x[3] = 0
       ELSE /\ x[1] \in DOMAIN known /\ x[1][1] \in DOMAIN cached
            /\ x[3] = At(x[1], cached[x[1][1]], known[x[1]], tree[x[1]])

\* What is on the stack was read, once, and was imported by what is below it.
StackOrder ==
  /\ \A k \in 1..Len(stack) :
       /\ Node(stack[k]) \in manifests
       /\ stack[k].key # <<>> => stack[k].c # <<>> /\ stack[k].key = <<stack[k].c[1], stack[k].file>>
       /\ \A l \in 1..Len(stack) : Node(stack[k]) = Node(stack[l]) => k = l
       /\ k < Len(stack) => <<Node(stack[k]), Node(stack[k + 1])>> \in edges
  /\ \A n \in manifests : \E x \in read : n = <<x[1], x[2]>>

\* The files that were loaded with all they import.
Loaded == {n \in manifests : \A k \in 1..Len(stack) : Node(stack[k]) # n}

\* What is loaded imports what is loaded; what is on the stack imports that, and at last
\* what is above it.
EdgesDown ==
  \A e \in edges :
    /\ e[1] \in manifests
    /\ e[1] \in Loaded => e[2] \in Loaded
    /\ \A k \in 1..Len(stack) :
         e[1] = Node(stack[k]) => e[2] \in Loaded \/ (k < Len(stack) /\ e[2] = Node(stack[k + 1]))

\* Some file of each set of loaded ones imports none of them.
NoCircle == \A S \in SUBSET Loaded : S # {} => \E n \in S : \A e \in edges : e[1] = n => e[2] \notin S

\* The revision of a project before lockfiles: of its override, its tag or its import.
Wanted(over, declared, pin) == FirstOf(IF over = -1 THEN declared ELSE over, pin, NoRev)

\* The imports and local imports of a manifest, up to the i-th and the j-th, were read.
Followed(rd, c, m, i, j) ==
  /\ \A k \in 1..i : \E y \in rd : y[1] # <<>> /\ y[1][1] = m.imports[k].remote /\ y[2] = m.imports[k].file
  /\ \A k \in 1..j : \E y \in rd : y[1] = c /\ y[2] = m.locals[k]

\* The projects of a manifest are there, as the overrides and imports so far want them.
Gathered(m, depth) ==
  \A n \in DOMAIN m.projects : LET p == <<n, depth>> IN
    /\ p \in DOMAIN projects
    /\ p \notin late => projects[p] = Wanted(OverrideOf(n), m.projects[n], PinOf(p))

Progress ==
  /\ \A k \in 1..Len(stack) : Followed(read, stack[k].c, Manifest(stack[k]), stack[k].i, stack[k].j)
  /\ \A x \in read : LET m == Manifest(FileOf(x)) IN
       <<x[1], x[2]>> \in Loaded =>
         /\ Followed(read, x[1], m, Len(m.imports), Len(m.locals))
         /\ Gathered(m, Depth(FileOf(x)))

\* What was read is in the world.
InWorld ==
  /\ \A x \in read : <<x[1], x[2]>> \in manifests /\ IsThere(FileOf(x))
  /\ manifests = {} => stack = <<>>

Going == RefsStay /\ StackOrder /\ EdgesDown /\ NoCircle /\ Progress /\ InWorld

IInv ==
  /\ TypeOK /\ OneRevision /\ CycleReported /\ Complete
  /\ Working => Going

-----------------------------------------------------------------------------
(* The stack. *)

LEMMA TopCall ==
  ASSUME stack \in Seq(Call), stack # <<>>
  PROVE  /\ Len(stack) \in Nat \ {0} /\ Top = stack[Len(stack)] /\ Top \in Call
         /\ stack \in [1..Len(stack) -> Call]
<1>1. Len(stack) \in Nat \ {0} /\ stack \in [1..Len(stack) -> Call]
  BY EmptySeq, LenProperties
<1>2. QED
  BY <1>1 DEF Top, Last

\* A call is one import or local import further.
LEMMA AdvancedStack ==
  ASSUME stack \in Seq(Call), stack # <<>>, NEW step \in {"i", "j"}
  PROVE  /\ Advance(step) \in Seq(Call) /\ Len(Advance(step)) = Len(stack)
         /\ \A k \in 1..Len(stack) : k < Len(stack) => Advance(step)[k] = stack[k]
         /\ LET t == Advance(step)[Len(stack)] IN
              /\ t.c = Top.c /\ t.file = Top.file /\ t.key = Top.key /\ t.ref = Top.ref /\ t.at = Top.at
              /\ t.lm = Top.lm
              /\ t.i = (IF step = "i" THEN Top.i + 1 ELSE Top.i)
              /\ t.j = (IF step = "j" THEN Top.j + 1 ELSE Top.j)
<1> DEFINE n == Len(stack)
           t == [Top EXCEPT ![step] = @ + 1]
<1>1. n \in Nat \ {0} /\ Top = stack[n] /\ Top \in Call /\ stack \in [1..n -> Call]
  BY TopCall
<1>2. Advance(step) = [stack EXCEPT ![n] = t]
  BY <1>1 DEF Advance
<1>3. /\ t \in Call /\ t.c = Top.c /\ t.file = Top.file /\ t.key = Top.key /\ t.ref = Top.ref /\ t.at = Top.at
      /\ t.lm = Top.lm
      /\ t.i = (IF step = "i" THEN Top.i + 1 ELSE Top.i)
      /\ t.j = (IF step = "j" THEN Top.j + 1 ELSE Top.j)
  <2>1. CASE step = "i"
    BY <1>1, <2>1 DEF Call
  <2>2. CASE step = "j"
    BY <1>1, <2>2 DEF Call
  <2>3. QED
    BY <2>1, <2>2
<1>4. Advance(step) \in Seq(Call) /\ Len(Advance(step)) = n
  BY <1>1, <1>2, <1>3, ExceptSeq
<1>5. QED
  BY <1>1, <1>2, <1>3, <1>4

\* A call begins.
LEMMA PushedStack ==
  ASSUME NEW below \in Seq(Call), NEW f \in Call
  PROVE  /\ Append(below, f) \in Seq(Call) /\ Len(Append(below, f)) = Len(below) + 1 /\ Len(below) \in Nat
         /\ Append(below, f)[Len(below) + 1] = f
         /\ \A k \in 1..Len(below) : Append(below, f)[k] = below[k]
  BY AppendProperties, LenProperties

\* A call returns.
LEMMA PoppedStack ==
  ASSUME stack \in Seq(Call), stack # <<>>
  PROVE  /\ Front(stack) \in Seq(Call) /\ Len(Front(stack)) = Len(stack) - 1
         /\ \A k \in 1..(Len(stack) - 1) : Front(stack)[k] = stack[k]
<1>1. Len(stack) \in Nat \ {0}
  BY TopCall
<1>2. QED
  BY <1>1, SubSeqProperties DEF Front

-----------------------------------------------------------------------------
(* Type correctness. *)

\* What is there is a manifest.
LEMMA ManifestThere ==
  ASSUME TypeOK, NEW f, f.c \in {<<>>} \cup Checkout, f.at \in Revision \cup {-1}, IsThere(f)
  PROVE  IsManifest(Manifest(f), Remotes)
<1>1. CASE IsRoot(f)
  BY <1>1 DEF TypeOK, IsWorld, IsThere, FilesAt, Manifest, Remotes
<1>2. CASE ~IsRoot(f)
  <2>1. f.c[1] \in Remotes /\ f.at \in 0..MaxPushes
    BY <1>2 DEF IsRoot, IsThere, Checkout, Revision
  <2>2. QED
    BY <1>2, <2>1 DEF TypeOK, IsWorld, IsThere, FilesAt, Manifest, Remotes
<1>3. QED
  BY <1>1, <1>2

LEMMA OverMap ==
  ASSUME NEW f, NEW g, IsMap(f), IsMap(g)
  PROVE  IsMap(Over(f, g))
  BY DEF IsMap, Over

LEMMA PutMap ==
  ASSUME NEW f, NEW c, NEW v \in Nat, IsMap(f)
  PROVE  IsMap(Put(f, c, v))
  BY DEF IsMap, Put
\* A call about to begin: its file may not be there.
Begun == [c : {<<>>} \cup Checkout, file : File, key : {<<>>} \cup Remotes \X File, ref : Ref,
          at : Revision \cup {-1}, lm : BOOLEAN, i : {0}, j : {0}]

LEMMA BegunCall ==
  ASSUME NEW f \in Begun, IsThere(f)
  PROVE  f \in Call
  BY DEF Begun, IsThere, Call

\* load changes what the types allow.
LEMMA EnterTypes ==
  ASSUME TypeOK, NEW f \in Begun, NEW below \in Seq(Call), Enter(f, below), Working
  PROVE  /\ stack' \in Seq(Call) /\ ret' \in Result
         /\ IsMap(projects') /\ IsMap(locks') /\ IsMap(projectOverrides') /\ IsMap(importOverrides')
<1> USE DEF Result
<1>1. CASE \E kind \in Result : Stop(kind)
  BY <1>1 DEF Stop, maps, TypeOK
<1>2. CASE stack' = below /\ UNCHANGED <<manifests, maps, ret, read>>
  BY <1>2 DEF maps, TypeOK
<1>3. CASE IsThere(f) /\ Read(f, below)
  <2>1. f \in Call
    BY <1>3, BegunCall
  <2>2. IsManifest(Manifest(f), Remotes)
    BY <1>3, ManifestThere DEF Begun
  <2>3. stack' \in Seq(Call)
    BY <1>3, <2>1, PushedStack DEF Read
  <2>4. IsMap(locks')
    BY <1>3, <2>2, OverMap DEF Read, IsManifest, TypeOK
  <2>5. IsMap(projectOverrides') /\ IsMap(importOverrides')
    BY <1>3, <2>2, OverMap DEF Read, IsManifest, TypeOK
  <2>6. QED
    BY <1>3, <2>3, <2>4, <2>5 DEF Read, TypeOK
<1>4. QED
  BY <1>1, <1>2, <1>3 DEF Enter

\* What an import tag is, overridden or not.
LEMMA ImportTag ==
  ASSUME TypeOK, stack # <<>>, IsThere(Top), Top.i < Len(Manifest(Top).imports)
  PROVE  LET imp == Overridden(Manifest(Top).imports[Top.i + 1]) IN
         /\ imp.remote \in Remotes /\ imp.file \in File /\ imp.rev \in Nat
         /\ imp.remote = Manifest(Top).imports[Top.i + 1].remote
         /\ imp.file = Manifest(Top).imports[Top.i + 1].file
         /\ Depth(Top) \in Nat /\ Depth(Top) + (IF imp.root THEN 1 ELSE 0) \in Nat
<1> DEFINE tag == Manifest(Top).imports[Top.i + 1]
           n == Len(Manifest(Top).imports)
<1>1. Top \in Call
  BY TopCall DEF TypeOK
<1>2. IsManifest(Manifest(Top), Remotes)
  BY <1>1, ManifestThere DEF Call
<1>3. n \in Nat /\ Top.i + 1 \in 1..n
  BY <1>1, <1>2, LenProperties DEF IsManifest, Call
<1>4. tag \in [remote : Remotes, file : STRING, rev : Nat, root : BOOLEAN]
  BY <1>2, <1>3, LenProperties DEF IsManifest
<1>5. \A r \in DOMAIN importOverrides : importOverrides[r] \in Nat
  BY DEF TypeOK, IsMap
<1>6. Depth(Top) \in Nat
  BY <1>1 DEF Depth, IsRoot, Call, Checkout
<1>7. QED
  BY <1>4, <1>5, <1>6 DEF Overridden, File

\* What a ref is in a checkout is a revision, or is not there.
LEMMA AtRevision ==
  ASSUME TypeOK, NEW c, NEW ref \in Ref, NEW b \in Revision, NEW t \in Revision
  PROVE  At(c, ref, b, t) \in Revision \cup {-1}
<1>1. MaxPushes \in Nat
  BY LoaderAssumption
<1>2. CASE ref \in {Local, Branch, JiriHead}
  BY <1>1, <1>2 DEF At, Revision, Local, Branch, JiriHead
<1>3. CASE ref \in {"rev"} \X Nat
  BY <1>1, <1>3 DEF At, Revision, Local, Branch, JiriHead
<1>4. QED
  BY <1>2, <1>3 DEF Ref

\* The checkouts after an import.
LEMMA CheckoutTypes ==
  ASSUME TypeOK, NEW c \in Checkout, NEW rev \in Nat, ~NotOnRemote(c, rev)
  PROVE  /\ DOMAIN Cloned(c) = DOMAIN known \cup {c} /\ Cloned(c) \in [DOMAIN known \cup {c} -> Revision]
         /\ CheckedOut(c, rev) \in [DOMAIN known \cup {c} -> Revision]
         /\ tip[c[1]] \in Revision
         /\ Put(Cloned(c), c, tip[c[1]]) \in [DOMAIN known \cup {c} -> Revision]
<1>1. tip[c[1]] \in Revision
  BY DEF TypeOK, Checkout
<1>2. DOMAIN Cloned(c) = DOMAIN known \cup {c} /\ Cloned(c) \in [DOMAIN known \cup {c} -> Revision]
  BY <1>1 DEF Cloned, Put, TypeOK
<1>3. CheckedOut(c, rev) \in [DOMAIN known \cup {c} -> Revision]
  <2>1. CASE c \in DOMAIN known
    BY <2>1 DEF CheckedOut, TypeOK
  <2>2. CASE c \notin DOMAIN known
    <3>1. (IF rev = NoRev THEN tip[c[1]] ELSE rev) \in Revision
      BY <1>1, <2>2, LoaderAssumption DEF NotOnRemote, Revision
    <3>2. QED
      BY <2>2, <3>1 DEF CheckedOut, Put, TypeOK
  <2>3. QED
    BY <2>1, <2>2
<1>4. Put(Cloned(c), c, tip[c[1]]) \in [DOMAIN known \cup {c} -> Revision]
  BY <1>1, <1>2 DEF Put
<1>5. QED
  BY <1>1, <1>2, <1>3, <1>4

LEMMA ImportRefType ==
  ASSUME TypeOK, NEW c, NEW imp, imp.rev \in Nat, NEW lm
  PROVE  ImportRef(c, imp, lm) \in Ref
<1>1. RefOf(imp.rev) \in Ref
  BY DEF RefOf, Ref, Pin
<1>2. QED
  BY <1>1 DEF ImportRef, Ref, TypeOK
\* What stays as it is, and what is only read.
LEMMA SameWorld ==
  ASSUME UNCHANGED given
  PROVE  /\ world' = world /\ mode' = mode /\ Remotes' = Remotes /\ Checkout' = Checkout /\ Call' = Call
         /\ \A f : IsThere(f)' = IsThere(f) /\ Manifest(f)' = Manifest(f)
  BY DEF given, Remotes, Checkout, Call, IsThere, FilesAt, Manifest

LEMMA InitTypeOK == Init => TypeOK
<1> SUFFICES ASSUME Init
             PROVE  TypeOK
  OBVIOUS
<1>1. 0 \in Revision /\ 0 \in 0..MaxFaults
  BY LoaderAssumption DEF Revision
<1>2. stack \in Seq(Call)
  BY EmptySeq DEF Init
<1>3. DOMAIN known \subseteq Checkout /\ known \in [DOMAIN known -> Revision] /\ tree \in [DOMAIN known -> Revision]
  BY <1>1 DEF Init, Checkout, Remotes
<1>4. IsWorld(world) /\ IsMode(mode)
  BY LoaderAssumption DEF Init
<1>5. /\ IsMap(imported) /\ IsMap(projects) /\ IsMap(locks) /\ IsMap(projectOverrides) /\ IsMap(importOverrides)
      /\ cached \in [DOMAIN cached -> Ref]
  BY DEF Init, IsMap
<1>6. tip \in [Remotes -> Revision] /\ ret \in Result /\ faults \in 0..MaxFaults
  BY <1>1 DEF Init, Remotes, Result
<1>7. QED
  BY <1>2, <1>3, <1>4, <1>5, <1>6 DEF TypeOK

LEMMA FailTypes ==
  ASSUME TypeOK, NEW kind \in Result, Fail(kind), UNCHANGED <<given, tip>>, faults' \in 0..MaxFaults
  PROVE  TypeOK'
  BY SameWorld DEF Fail, TypeOK, checkouts, maps, given

LEMMA TopThere ==
  ASSUME TypeOK, RefsStay, stack # <<>>
  PROVE  /\ Top \in Call /\ IsThere(Top) /\ <<Top.c, Top.file, Top.at>> \in read
         /\ IsManifest(Manifest(Top), Remotes)
         /\ ~IsRoot(Top) => Top.c \in DOMAIN known /\ Top.c[1] \in DOMAIN cached /\ Top.ref = cached[Top.c[1]]
<1>1. Len(stack) \in Nat \ {0} /\ Top = stack[Len(stack)] /\ Top \in Call
  BY TopCall DEF TypeOK
<1>2. Len(stack) \in 1..Len(stack)
  BY <1>1
<1>3. /\ IsThere(Top) /\ <<Top.c, Top.file, Top.at>> \in read
      /\ Top.c # <<>> => Top.c \in DOMAIN known /\ Top.c[1] \in DOMAIN cached /\ Top.ref = cached[Top.c[1]]
  BY <1>1, <1>2 DEF RefsStay
<1>4. IsManifest(Manifest(Top), Remotes)
  BY <1>1, <1>3, ManifestThere DEF Call
<1>5. QED
  BY <1>1, <1>3, <1>4 DEF IsRoot

LEMMA BeginTypes ==
  ASSUME TypeOK, Begin
  PROVE  TypeOK'
<1> DEFINE f == Frame(<<>>, "root", <<>>, Local, 0, mode.localManifest)
<1>1. f \in Begun
  <2>1. mode.localManifest \in BOOLEAN
    BY DEF TypeOK, IsMode
  <2>2. 0 \in Revision
    BY LoaderAssumption DEF Revision
  <2>3. "root" \in File
    BY DEF File
  <2>4. Local \in Ref /\ <<>> \in {<<>>} \cup Checkout /\ <<>> \in {<<>>} \cup Remotes \X File
    BY DEF Ref
  <2>5. QED
    BY <2>1, <2>2, <2>3, <2>4 DEF Frame, Begun
<1>2. <<>> \in Seq(Call)
  BY EmptySeq
<1>3. /\ stack' \in Seq(Call) /\ ret' \in Result
      /\ IsMap(projects') /\ IsMap(locks') /\ IsMap(projectOverrides') /\ IsMap(importOverrides')
  BY <1>1, <1>2, EnterTypes DEF Begin
<1>4. QED
  BY <1>3, SameWorld DEF Begin, TypeOK, checkouts, given

-----------------------------------------------------------------------------
(* Imports and local imports. *)

\* A tag of the manifest on top of the stack is followed to a call of load: what changes
\* besides what load does.
Follow(f, step) ==
  /\ Working /\ stack # <<>> /\ f \in Begun
  /\ IF step = "i"
       THEN /\ Top.i < Len(Manifest(Top).imports) /\ f.c # <<>>
            /\ f.c[1] = Manifest(Top).imports[Top.i + 1].remote /\ f.file = Manifest(Top).imports[Top.i + 1].file
       ELSE /\ Top.j < Len(Manifest(Top).locals)
            /\ f.c = Top.c /\ f.file = Manifest(Top).locals[Top.j + 1]
  /\ f.key # <<>> => f.c # <<>> /\ f.key = <<f.c[1], f.file>>
  /\ IF f.c = <<>> THEN f.at = 0
     ELSE /\ f.c \in DOMAIN known' /\ f.c[1] \in DOMAIN cached' /\ f.ref = cached'[f.c[1]]
          /\ f.at = At(f.c, f.ref, known'[f.c], tree'[f.c])
  /\ \A x \in DOMAIN known : /\ x \in DOMAIN known'
                             /\ x[1] \in DOMAIN cached => known'[x] = known[x] /\ tree'[x] = tree[x]
  /\ \A r \in DOMAIN cached : r \in DOMAIN cached' /\ cached'[r] = cached[r]
  /\ edges' = edges \cup {<<Node(Top), Node(f)>>}
  /\ late \subseteq late'
  /\ \A p \in DOMAIN projects : p \notin late' => PinOf(p)' = PinOf(p)
  /\ step = "j" => \A p \in DOMAIN projects : p \notin late' => OverrideOf(p[1])' = OverrideOf(p[1])
  /\ UNCHANGED given
  /\ DOMAIN known' \subseteq Checkout /\ known' \in [DOMAIN known' -> Revision] /\ tree' \in [DOMAIN known' -> Revision]
  /\ cached' \in [DOMAIN cached' -> Ref] /\ IsMap(imported') /\ UNCHANGED <<tip, faults>>

\* A tag is followed and load begins, for the first time, again, or not at all.
FollowAndEnter(step) == \E f : Follow(f, step) /\ Enter(f, Advance(step))

\* An import or local import that fails.
Failing == \E kind \in Result \ {"none", "ok", "cycle"} : Fail(kind)

LEMMA LocalImportFollows ==
  ASSUME TypeOK, RefsStay, LocalImport
  PROVE  FollowAndEnter("j")
<1> DEFINE m == Manifest(Top)
           file == m.locals[Top.j + 1]
           at == IF IsRoot(Top) THEN 0 ELSE At(Top.c, Top.ref, known[Top.c], tree[Top.c])
           f == Frame(Top.c, file, <<>>, Top.ref, at, Top.lm)
<1>1. /\ Top \in Call /\ IsThere(Top) /\ IsManifest(m, Remotes)
      /\ ~IsRoot(Top) => Top.c \in DOMAIN known /\ Top.c[1] \in DOMAIN cached /\ Top.ref = cached[Top.c[1]]
  BY TopThere DEF LocalImport
<1>2. file \in File
  <2>1. Top.j + 1 \in 1..Len(m.locals)
    BY <1>1, LenProperties DEF IsManifest, LocalImport, Call
  <2>2. QED
    BY <1>1, <2>1, LenProperties DEF IsManifest, File
<1>3. at \in Revision \cup {-1}
  <2>1. CASE IsRoot(Top)
    BY <2>1, LoaderAssumption DEF Revision
  <2>2. CASE ~IsRoot(Top)
    BY <1>1, <2>2, AtRevision DEF Call, TypeOK
  <2>3. QED
    BY <2>1, <2>2
<1>4. f \in Begun
  BY <1>1, <1>2, <1>3 DEF Frame, Begun, Call
<1>5. /\ f.c = Top.c /\ f.file = file /\ f.key = <<>> /\ f.ref = Top.ref /\ f.at = at
  BY DEF Frame
<1>6. /\ Working /\ stack # <<>> /\ Top.j < Len(m.locals)
      /\ known' = known /\ tree' = tree /\ cached' = cached /\ imported' = imported /\ UNCHANGED <<given, tip, faults>>
      /\ edges' = edges \cup {<<<<Top.c, Top.file>>, <<Top.c, file>>>>}
      /\ late' = late \cup {p \in DOMAIN projects : OverrideOf(p[1])' # OverrideOf(p[1])}
      /\ Enter(f, Advance("j"))
  BY DEF LocalImport, checkouts
<1>7. Checkout' = Checkout
  BY <1>6, SameWorld
<1>8. edges' = edges \cup {<<Node(Top), Node(f)>>}
  BY <1>5, <1>6 DEF Node
<1>9. f.c # <<>> => /\ f.c \in DOMAIN known' /\ f.c[1] \in DOMAIN cached' /\ f.ref = cached'[f.c[1]]
                    /\ f.at = At(f.c, f.ref, known'[f.c], tree'[f.c])
  BY <1>1, <1>5, <1>6 DEF IsRoot
<1>10. f.c = <<>> => f.at = 0
  BY <1>5 DEF IsRoot
<1>11. \A p \in DOMAIN projects : p \notin late' => PinOf(p)' = PinOf(p) /\ OverrideOf(p[1])' = OverrideOf(p[1])
  BY <1>6 DEF PinOf
<1>12. /\ DOMAIN known' \subseteq Checkout /\ known' \in [DOMAIN known' -> Revision]
       /\ tree' \in [DOMAIN known' -> Revision] /\ cached' \in [DOMAIN cached' -> Ref] /\ IsMap(imported')
  BY <1>6 DEF TypeOK
<1>13. f.file = m.locals[Top.j + 1]
  BY <1>5
<1> HIDE DEF f, file, at, m
<1>14. Follow(f, "j")
  BY <1>4, <1>5, <1>6, <1>8, <1>9, <1>10, <1>11, <1>12, <1>13 DEF Follow, m
<1>15. QED
  BY <1>6, <1>14 DEF FollowAndEnter

LEMMA ImportFollows ==
  ASSUME TypeOK, RefsStay, Import
  PROVE  \/ /\ Failing /\ UNCHANGED <<given, tip>> /\ faults' \in 0..MaxFaults
         \/ \E f : Follow(f, "i") /\ (Enter(f, Advance("i")) \/ Stop("conflict"))
<1> DEFINE tag == Manifest(Top).imports[Top.i + 1]
           imp == Overridden(tag)
           c == <<imp.remote, Depth(Top) + (IF imp.root THEN 1 ELSE 0)>>
           key == <<imp.remote, imp.file>>
           ref == ImportRef(c, imp, Top.lm)
           fetches == ref # Local /\ imp.remote \notin DOMAIN cached /\ Fetches(c, imp.rev)
           k == IF fetches THEN Put(Cloned(c), c, tip[imp.remote]) ELSE Cloned(c)
           t == CheckedOut(c, imp.rev)
           f == Frame(c, imp.file, key, ref, At(c, ref, k[c], t[c]), FALSE)
<1>1. Working /\ stack # <<>> /\ Top.i < Len(Manifest(Top).imports)
  BY DEF Import
<1>2. /\ Top \in Call /\ IsThere(Top) /\ IsManifest(Manifest(Top), Remotes)
  BY <1>1, TopThere
<1>3. /\ imp.remote \in Remotes /\ imp.file \in File /\ imp.rev \in Nat /\ c \in Checkout /\ c[1] = imp.remote
      /\ imp.remote = tag.remote /\ imp.file = tag.file
  BY <1>1, <1>2, ImportTag DEF Checkout
<1>4. CASE \/ imp.remote \in DOMAIN projectOverrides /\ Fail("override") /\ UNCHANGED faults
           \/ imp.remote \notin DOMAIN projectOverrides /\ NotOnRemote(c, imp.rev) /\ Fail("git") /\ UNCHANGED faults
           \/ /\ imp.remote \notin DOMAIN projectOverrides /\ ~NotOnRemote(c, imp.rev)
              /\ c \notin DOMAIN known \/ fetches
              /\ faults < MaxFaults /\ faults' = faults + 1 /\ Fail("git")
  <2>1. faults' \in 0..MaxFaults
    BY <1>4, LoaderAssumption DEF TypeOK
  <2>2. UNCHANGED <<given, tip>>
    BY DEF Import
  <2>3. Failing
    BY <1>4 DEF Result, Failing
  <2>4. QED
    BY <2>1, <2>2, <2>3
<1>5. CASE /\ imp.remote \notin DOMAIN projectOverrides /\ ~NotOnRemote(c, imp.rev)
           /\ known' = k /\ tree' = t
           /\ imported' = Put(imported, c, imp.rev)
           /\ edges' = edges \cup {<<<<Top.c, Top.file>>, <<c, imp.file>>>>}
           /\ late' = late \cup ({c} \cap DOMAIN projects)
           /\ \/ ImportConflict(imp) /\ Stop("conflict") /\ UNCHANGED cached
              \/ /\ ~ImportConflict(imp) /\ cached' = Put(cached, imp.remote, ref)
                 /\ Enter(f, Advance("i"))
           /\ UNCHANGED faults
  <2>1. ref \in Ref
    BY <1>3, ImportRefType
  <2>2. /\ t \in [DOMAIN known \cup {c} -> Revision] /\ k \in [DOMAIN known \cup {c} -> Revision]
    BY <1>3, <1>5, CheckoutTypes
  <2>3. At(c, ref, k[c], t[c]) \in Revision \cup {-1}
    BY <2>1, <2>2, AtRevision
  <2>4. f \in Begun
    <3>1. /\ c \in {<<>>} \cup Checkout /\ key \in {<<>>} \cup Remotes \X File
      BY <1>3
    <3>2. QED
      BY <1>3, <2>1, <2>3, <3>1 DEF Frame, Begun
  <2>5. f.c = c /\ f.file = imp.file /\ f.key = key /\ f.ref = ref /\ f.at = At(c, ref, k[c], t[c])
    BY DEF Frame
  <2>6. cached' \in [DOMAIN cached' -> Ref] /\ imp.remote \in DOMAIN cached' /\ cached'[imp.remote] = ref
        /\ \A r \in DOMAIN cached : r \in DOMAIN cached' /\ cached'[r] = cached[r]
    <3>1. CASE cached' = cached /\ ImportConflict(imp)
      BY <3>1 DEF ImportConflict, ImportRef, TypeOK
    <3>2. CASE cached' = Put(cached, imp.remote, ref)
      BY <2>1, <3>2 DEF Put, ImportRef, TypeOK
    <3>3. QED
      BY <1>5, <3>1, <3>2
  <2>7. \A x \in DOMAIN known : /\ x \in DOMAIN known'
                                /\ x[1] \in DOMAIN cached => known'[x] = known[x] /\ tree'[x] = tree[x]
    <3>1. \A x \in DOMAIN known : t[x] = tree[x]
      <4>1. CASE c \in DOMAIN known
        BY <4>1 DEF CheckedOut
      <4>2. CASE c \notin DOMAIN known
        BY <4>2 DEF CheckedOut, Put, TypeOK
      <4>3. QED
        BY <4>1, <4>2
    <3>2. \A x \in DOMAIN known : x[1] \in DOMAIN cached => k[x] = known[x]
      BY <1>3 DEF Cloned, Put
    <3>3. QED
      BY <1>5, <2>2, <3>1, <3>2
  <2>8. /\ DOMAIN known' \subseteq Checkout /\ known' \in [DOMAIN known' -> Revision]
        /\ tree' \in [DOMAIN known' -> Revision] /\ IsMap(imported') /\ c \in DOMAIN known'
    <3>1. known' \in [DOMAIN known \cup {c} -> Revision] /\ tree' \in [DOMAIN known \cup {c} -> Revision]
      BY <1>5, <2>2
    <3>2. DOMAIN known' = DOMAIN known \cup {c}
      BY <3>1
    <3>3. DOMAIN known \subseteq Checkout /\ IsMap(imported)
      BY DEF TypeOK
    <3>4. IsMap(imported')
      BY <1>3, <1>5, <3>3, PutMap
    <3>5. QED
      BY <1>3, <3>1, <3>2, <3>3, <3>4
  <2>9. \A p \in DOMAIN projects : p \notin late' => PinOf(p)' = PinOf(p)
    BY <1>5 DEF PinOf, Put
  <2>10. UNCHANGED <<given, tip, faults>> /\ late \subseteq late'
    BY <1>5 DEF Import
  <2>11. edges' = edges \cup {<<Node(Top), Node(f)>>}
    BY <1>5, <2>5 DEF Node
  <2>12. f.c[1] = tag.remote /\ f.file = tag.file
    BY <1>3, <2>5
  <2>13. Enter(f, Advance("i")) \/ Stop("conflict")
    BY <1>5
  <2>14. key = <<imp.remote, imp.file>> /\ c # <<>>
    BY <1>3 DEF Checkout
  <2> HIDE DEF tag, imp, c, key, ref, k, t, f
  <2>15. f.key # <<>> => f.c # <<>> /\ f.key = <<f.c[1], f.file>>
    BY <1>3, <2>5, <2>14
  <2>16. f.c # <<>> /\ f.c \in DOMAIN known' /\ f.c[1] \in DOMAIN cached' /\ f.ref = cached'[f.c[1]]
         /\ f.at = At(f.c, f.ref, known'[f.c], tree'[f.c])
    BY <1>3, <1>5, <2>5, <2>6, <2>8, <2>14
  <2>17. Follow(f, "i")
    BY <1>1, <2>4, <2>6, <2>7, <2>8, <2>9, <2>10, <2>11, <2>15, <2>16, <2>12 DEF Follow, tag
  <2>18. QED
    BY <2>13, <2>17
<1>6. QED
  BY <1>4, <1>5 DEF Import

-----------------------------------------------------------------------------
(* What a call of load does to the stack. *)

\* The file was loaded before.
Skip(f, step) ==
  /\ ~IsCycle(f) /\ Node(f) \in manifests
  /\ stack' = Advance(step) /\ UNCHANGED <<manifests, maps, ret, read>>

\* The file is read.
Open(f, step) ==
  /\ ~IsCycle(f) /\ Node(f) \notin manifests /\ IsThere(f) /\ ~Misplaced(f)
  /\ Read(f, Advance(step))

LEMMA EnterCases ==
  ASSUME NEW f, NEW step, Enter(f, Advance(step))
  PROVE  \/ Skip(f, step) \/ Open(f, step)
         \/ IsCycle(f) /\ Stop("cycle")
         \/ \E kind \in Result \ {"none", "ok", "cycle"} : Stop(kind)
<1>1. {"missing", "lock", "override"} \subseteq Result \ {"none", "ok", "cycle"}
  BY DEF Result
<1>2. QED
  BY <1>1 DEF Enter, Skip, Open, Node

LEMMA GrownStack ==
  ASSUME TypeOK, stack # <<>>, NEW f \in Begun, NEW step \in {"i", "j"}, Skip(f, step) \/ Open(f, step)
  PROVE  /\ Len(stack) \in Nat \ {0} /\ Top = stack[Len(stack)]
         /\ Len(stack') = IF Node(f) \in manifests THEN Len(stack) ELSE Len(stack) + 1
         /\ \A k \in 1..Len(stack) :
              /\ stack'[k].c = stack[k].c /\ stack'[k].file = stack[k].file /\ stack'[k].at = stack[k].at
              /\ stack'[k].key = stack[k].key /\ stack'[k].ref = stack[k].ref
              /\ Node(stack'[k]) = Node(stack[k])
              /\ k < Len(stack) => stack'[k] = stack[k]
         /\ LET t == stack'[Len(stack)] IN /\ t.i = (IF step = "i" THEN Top.i + 1 ELSE Top.i)
                                           /\ t.j = (IF step = "j" THEN Top.j + 1 ELSE Top.j)
         /\ Node(f) \notin manifests => stack'[Len(stack) + 1] = f /\ IsThere(f)
         /\ manifests' = manifests \cup {Node(f)}
         /\ read' = IF Node(f) \in manifests THEN read ELSE read \cup {<<f.c, f.file, f.at>>}
         /\ ret' = ret
<1> DEFINE a == Advance(step)
           n == Len(stack)
<1>1. n \in Nat \ {0} /\ Top = stack[n]
  BY TopCall DEF TypeOK
<1>2. /\ a \in Seq(Call) /\ Len(a) = n
      /\ \A k \in 1..n : k < n => a[k] = stack[k]
      /\ a[n].c = Top.c /\ a[n].file = Top.file /\ a[n].key = Top.key /\ a[n].ref = Top.ref /\ a[n].at = Top.at
      /\ a[n].i = (IF step = "i" THEN Top.i + 1 ELSE Top.i)
      /\ a[n].j = (IF step = "j" THEN Top.j + 1 ELSE Top.j)
  BY AdvancedStack DEF TypeOK
<1> HIDE DEF a
<1>3. \A k \in 1..n :
        /\ a[k].c = stack[k].c /\ a[k].file = stack[k].file /\ a[k].at = stack[k].at
        /\ a[k].key = stack[k].key /\ a[k].ref = stack[k].ref
        /\ Node(a[k]) = Node(stack[k])
        /\ k < n => a[k] = stack[k]
  BY <1>1, <1>2 DEF Node
<1>4. CASE Skip(f, step)
  <2>1. stack' = a /\ Node(f) \in manifests /\ UNCHANGED <<manifests, ret, read>>
    BY <1>4 DEF Skip, a
  <2>2. QED
    BY <1>1, <1>2, <1>3, <2>1
<1>5. CASE Open(f, step)
  <2>1. /\ stack' = Append(a, f) /\ Node(f) \notin manifests /\ IsThere(f)
        /\ manifests' = manifests \cup {Node(f)} /\ read' = read \cup {<<f.c, f.file, f.at>>} /\ ret' = ret
    BY <1>5 DEF Open, Read, Node, a
  <2>2. f \in Call
    BY <2>1, BegunCall
  <2>3. Len(stack') = n + 1 /\ stack'[n + 1] = f /\ \A k \in 1..n : stack'[k] = a[k]
    BY <1>2, <2>1, <2>2, PushedStack
  <2>4. n \in 1..n
    BY <1>1
  <2>5. QED
    BY <1>1, <1>2, <1>3, <2>1, <2>3, <2>4
<1>6. QED
  BY <1>4, <1>5

-----------------------------------------------------------------------------
(* A tag is followed. *)

LEMMA FollowTypes ==
  ASSUME TypeOK, NEW f, NEW step \in {"i", "j"}, Follow(f, step), Enter(f, Advance(step)) \/ Stop("conflict")
  PROVE  TypeOK'
<1>1. /\ stack' \in Seq(Call) /\ ret' \in Result
      /\ IsMap(projects') /\ IsMap(locks') /\ IsMap(projectOverrides') /\ IsMap(importOverrides')
  <2>1. CASE Enter(f, Advance(step))
    BY <2>1, AdvancedStack, EnterTypes DEF Follow, TypeOK
  <2>2. CASE Stop("conflict")
    BY <2>2 DEF Stop, maps, TypeOK, Result
  <2>3. QED
    BY <2>1, <2>2
<1>2. /\ UNCHANGED <<given, tip, faults>>
      /\ DOMAIN known' \subseteq Checkout /\ known' \in [DOMAIN known' -> Revision]
      /\ tree' \in [DOMAIN known' -> Revision] /\ cached' \in [DOMAIN cached' -> Ref] /\ IsMap(imported')
  BY DEF Follow
<1>3. world' = world /\ mode' = mode /\ Remotes' = Remotes /\ Checkout' = Checkout /\ Call' = Call
  BY <1>2, SameWorld
<1>4. QED
  BY <1>1, <1>2, <1>3 DEF TypeOK

LEMMA FollowRefsStay ==
  ASSUME TypeOK, RefsStay, NEW f, NEW step \in {"i", "j"}, Follow(f, step), Skip(f, step) \/ Open(f, step)
  PROVE  RefsStay'
<1>1. f \in Begun /\ stack # <<>> /\ UNCHANGED given
  BY DEF Follow
<1>2. Len(stack) \in Nat /\ world' = world
  BY <1>1, GrownStack, SameWorld
<1>3. \A k \in 1..Len(stack') : LET g == stack'[k] IN
        /\ <<g.c, g.file, g.at>> \in read' /\ IsThere(g)
        /\ g.c # <<>> => g.c \in DOMAIN known' /\ g.c[1] \in DOMAIN cached' /\ g.ref = cached'[g.c[1]]
  <2> SUFFICES ASSUME NEW k \in 1..Len(stack')
               PROVE  LET g == stack'[k] IN
                        /\ <<g.c, g.file, g.at>> \in read' /\ IsThere(g)
                        /\ g.c # <<>> => g.c \in DOMAIN known' /\ g.c[1] \in DOMAIN cached' /\ g.ref = cached'[g.c[1]]
    OBVIOUS
  <2>1. CASE k \in 1..Len(stack)
    <3> DEFINE g == stack[k]
               h == stack'[k]
    <3>1. h.c = g.c /\ h.file = g.file /\ h.at = g.at /\ h.ref = g.ref /\ read \subseteq read'
      BY <1>1, <2>1, GrownStack
    <3>2. /\ <<g.c, g.file, g.at>> \in read /\ IsThere(g)
          /\ g.c # <<>> => g.c \in DOMAIN known /\ g.c[1] \in DOMAIN cached /\ g.ref = cached[g.c[1]]
      BY <2>1 DEF RefsStay
    <3> HIDE DEF g, h
    <3>3. IsThere(h)
      BY <3>1, <3>2 DEF IsThere, FilesAt, IsRoot
    <3>4. h.c # <<>> => h.c \in DOMAIN known' /\ h.c[1] \in DOMAIN cached' /\ h.ref = cached'[h.c[1]]
      BY <3>1, <3>2 DEF Follow
    <3>5. QED
      BY <1>2, <3>1, <3>2, <3>3, <3>4 DEF h
  <2>2. CASE k \notin 1..Len(stack)
    <3>1. k = Len(stack) + 1 /\ stack'[k] = f /\ IsThere(f) /\ <<f.c, f.file, f.at>> \in read'
      BY <1>1, <1>2, <2>2, GrownStack
    <3>2. f.c # <<>> => f.c \in DOMAIN known' /\ f.c[1] \in DOMAIN cached' /\ f.ref = cached'[f.c[1]]
      BY DEF Follow
    <3>3. QED
      BY <1>2, <3>1, <3>2
  <2>3. QED
    BY <2>1, <2>2
<1>4. \A x \in read' :
        IF x[1] = <<>> THEN x[3] = 0
        ELSE /\ x[1] \in DOMAIN known' /\ x[1][1] \in DOMAIN cached'
             /\ x[3] = At(x[1], cached'[x[1][1]], known'[x[1]], tree'[x[1]])
  <2> SUFFICES ASSUME NEW x \in read'
               PROVE  IF x[1] = <<>> THEN x[3] = 0
                      ELSE /\ x[1] \in DOMAIN known' /\ x[1][1] \in DOMAIN cached'
                           /\ x[3] = At(x[1], cached'[x[1][1]], known'[x[1]], tree'[x[1]])
    OBVIOUS
  <2>1. CASE x \in read
    BY <2>1 DEF RefsStay, Follow
  <2>2. CASE x \notin read
    <3>1. x = <<f.c, f.file, f.at>>
      BY <1>1, <2>2, GrownStack
    <3>2. QED
      BY <3>1 DEF Follow
  <2>3. QED
    BY <2>1, <2>2
<1>5. QED
  BY <1>2, <1>3, <1>4 DEF RefsStay, At, IsOld, IsThere, FilesAt, IsRoot

\* A file is on the stack once.
LEMMA StackDistinct ==
  ASSUME StackOrder
  PROVE  /\ \A k \in 1..Len(stack) : Node(stack[k]) \in manifests
         /\ \A k, l \in 1..Len(stack) : Node(stack[k]) = Node(stack[l]) => k = l
<1> HIDE DEF Node
<1>1. QED
  BY DEF StackOrder

LEMMA FollowStackOrder ==
  ASSUME TypeOK, StackOrder, NEW f, NEW step \in {"i", "j"}, Follow(f, step), Skip(f, step) \/ Open(f, step)
  PROVE  StackOrder'
<1> DEFINE n == Len(stack)
<1>1. /\ f \in Begun /\ stack # <<>> /\ edges' = edges \cup {<<Node(Top), Node(f)>>}
      /\ f.key # <<>> => f.c # <<>> /\ f.key = <<f.c[1], f.file>>
  BY DEF Follow
<1>2. /\ n \in Nat \ {0} /\ Top = stack[n]
      /\ Len(stack') = IF Node(f) \in manifests THEN n ELSE n + 1
      /\ \A k \in 1..n : /\ stack'[k].c = stack[k].c /\ stack'[k].file = stack[k].file /\ stack'[k].key = stack[k].key
                         /\ Node(stack'[k]) = Node(stack[k])
      /\ Node(f) \notin manifests => stack'[n + 1] = f
      /\ manifests' = manifests \cup {Node(f)}
      /\ read' = IF Node(f) \in manifests THEN read ELSE read \cup {<<f.c, f.file, f.at>>}
  BY <1>1, GrownStack
<1>3. \A k \in 1..Len(stack') : k \in 1..n \/ (Node(f) \notin manifests /\ k = n + 1 /\ stack'[k] = f)
  BY <1>2
<1>4. \A k \in 1..Len(stack') :
        /\ Node(stack'[k]) \in manifests'
        /\ stack'[k].key # <<>> => stack'[k].c # <<>> /\ stack'[k].key = <<stack'[k].c[1], stack'[k].file>>
  BY <1>1, <1>2, <1>3 DEF StackOrder
<1>5. \A k, l \in 1..Len(stack') : Node(stack'[k]) = Node(stack'[l]) => k = l
  <2> SUFFICES ASSUME NEW k \in 1..Len(stack'), NEW l \in 1..Len(stack'), Node(stack'[k]) = Node(stack'[l])
               PROVE  k = l
    OBVIOUS
  <2>1. CASE k \in 1..n /\ l \in 1..n
    BY <1>2, <2>1, StackDistinct
  <2>2. CASE k \in 1..n /\ l \notin 1..n
    BY <1>2, <1>3, <2>2, StackDistinct
  <2>3. CASE k \notin 1..n /\ l \in 1..n
    BY <1>2, <1>3, <2>3, StackDistinct
  <2>4. CASE k \notin 1..n /\ l \notin 1..n
    BY <1>3, <2>4
  <2>5. QED
    BY <2>1, <2>2, <2>3, <2>4
<1>6. \A k \in 1..Len(stack') : k < Len(stack') => <<Node(stack'[k]), Node(stack'[k + 1])>> \in edges'
  BY <1>1, <1>2, <1>3 DEF StackOrder
<1>7. \A m \in manifests' : \E x \in read' : m = <<x[1], x[2]>>
  <2>1. \A m \in manifests : \E x \in read' : m = <<x[1], x[2]>>
    BY <1>2 DEF StackOrder
  <2>2. Node(f) \notin manifests => \E x \in read' : Node(f) = <<x[1], x[2]>>
    <3>1. ASSUME Node(f) \notin manifests
          PROVE  \E x \in read' : Node(f) = <<x[1], x[2]>>
      <4> DEFINE y == <<f.c, f.file, f.at>>
      <4>1. y \in read' /\ Node(f) = <<y[1], y[2]>>
        BY <1>2, <3>1 DEF Node
      <4>2. QED
        BY <4>1
    <3>2. QED
      BY <3>1
  <2>3. QED
    BY <1>2, <2>1, <2>2
<1>8. QED
  BY <1>4, <1>5, <1>6, <1>7 DEF StackOrder, Node

\* A file that begins is not loaded, and all others stay as they are.
LEMMA FollowLoaded ==
  ASSUME TypeOK, StackOrder, NEW f, NEW step \in {"i", "j"}, Follow(f, step), Skip(f, step) \/ Open(f, step)
  PROVE  /\ Loaded' = Loaded /\ Node(Top) \in manifests /\ Node(Top) \notin Loaded
         /\ Node(f) \in manifests => Node(f) \in Loaded
<1> DEFINE n == Len(stack)
<1>1. f \in Begun /\ stack # <<>>
  BY DEF Follow
<1>2. /\ n \in Nat \ {0} /\ Top = stack[n]
      /\ Len(stack') = IF Node(f) \in manifests THEN n ELSE n + 1
      /\ \A k \in 1..n : Node(stack'[k]) = Node(stack[k])
      /\ Node(f) \notin manifests => stack'[n + 1] = f
      /\ manifests' = manifests \cup {Node(f)}
  BY <1>1, GrownStack
<1>3. \A m : m \in Loaded' <=> m \in manifests' /\ \A k \in 1..Len(stack') : Node(stack'[k]) # m
  BY DEF Loaded, Node
<1>4. \A m : m \in Loaded <=> m \in manifests /\ \A k \in 1..n : Node(stack[k]) # m
  BY DEF Loaded
<1>5. CASE Node(f) \in manifests
  <2>1. ~IsCycle(f)
    BY DEF Skip, Open
  <2>2. \A k \in 1..n : Node(stack[k]) # Node(f)
    BY <1>1, <2>1, TopCall DEF IsCycle, Node, TypeOK
  <2>3. \A m : m \in Loaded' <=> m \in Loaded
    BY <1>2, <1>3, <1>4, <1>5
  <2>4. Loaded' = Loaded
    BY <2>3 DEF Loaded
  <2>5. QED
    BY <1>2, <1>4, <1>5, <2>2, <2>4, StackDistinct
<1>6. CASE Node(f) \notin manifests
  <2>1. \A k \in 1..n : k \in 1..Len(stack')
    BY <1>2, <1>6
  <2>2. n + 1 \in 1..Len(stack')
    BY <1>2, <1>6
  <2>3. \A m : m \in Loaded' => m \in Loaded
    BY <1>2, <1>3, <1>4, <1>6, <2>1, <2>2
  <2>4. \A m : m \in Loaded => m \in Loaded'
    BY <1>2, <1>3, <1>4, <1>6
  <2>5. Loaded' = Loaded
    BY <2>3, <2>4 DEF Loaded
  <2>6. QED
    BY <1>2, <1>4, <1>6, <2>5, StackDistinct
<1>7. QED
  BY <1>5, <1>6

LEMMA FollowEdgesDown ==
  ASSUME TypeOK, StackOrder, EdgesDown, NEW f, NEW step \in {"i", "j"}, Follow(f, step),
         Skip(f, step) \/ Open(f, step)
  PROVE  EdgesDown'
<1> DEFINE n == Len(stack)
<1>1. f \in Begun /\ stack # <<>> /\ edges' = edges \cup {<<Node(Top), Node(f)>>}
  BY DEF Follow
<1>2. /\ n \in Nat \ {0} /\ Top = stack[n]
      /\ Len(stack') = IF Node(f) \in manifests THEN n ELSE n + 1
      /\ \A k \in 1..n : Node(stack'[k]) = Node(stack[k])
      /\ Node(f) \notin manifests => stack'[n + 1] = f
      /\ manifests' = manifests \cup {Node(f)}
  BY <1>1, GrownStack
<1>3. /\ Loaded' = Loaded /\ Node(Top) \in manifests /\ Node(Top) \notin Loaded
      /\ Node(f) \in manifests => Node(f) \in Loaded
  BY FollowLoaded
<1>4. \A k \in 1..Len(stack') : k \in 1..n \/ (Node(f) \notin manifests /\ k = n + 1 /\ stack'[k] = f)
  BY <1>2
<1> SUFFICES ASSUME NEW e \in edges'
             PROVE  /\ e[1] \in manifests'
                    /\ e[1] \in Loaded => e[2] \in Loaded
                    /\ \A k \in 1..Len(stack') :
                         e[1] = Node(stack'[k]) => e[2] \in Loaded \/ (k < Len(stack') /\ e[2] = Node(stack'[k + 1]))
  BY <1>3 DEF EdgesDown, Node
<1>5. CASE e \in edges
  <2>1. e[1] \in manifests /\ (e[1] \in Loaded => e[2] \in Loaded)
    BY <1>5 DEF EdgesDown
  <2>2. ASSUME NEW k \in 1..Len(stack'), e[1] = Node(stack'[k])
        PROVE  e[2] \in Loaded \/ (k < Len(stack') /\ e[2] = Node(stack'[k + 1]))
    <3>1. k \in 1..n
      BY <1>4, <2>1, <2>2
    <3>2. e[2] \in Loaded \/ (k < n /\ e[2] = Node(stack[k + 1]))
      BY <1>2, <1>5, <2>2, <3>1 DEF EdgesDown
    <3>3. k < n => k < Len(stack') /\ k + 1 \in 1..n
      BY <1>2, <3>1
    <3>4. QED
      BY <1>2, <3>2, <3>3
  <2>3. QED
    BY <1>2, <2>1, <2>2
<1>6. CASE e = <<Node(Top), Node(f)>>
  <2>1. e[1] = Node(Top) /\ e[2] = Node(f)
    BY <1>6
  <2>2. ASSUME NEW k \in 1..Len(stack'), Node(Top) = Node(stack'[k])
        PROVE  Node(f) \in Loaded \/ (k < Len(stack') /\ Node(f) = Node(stack'[k + 1]))
    <3>1. k \in 1..n
      BY <1>3, <1>4, <2>2
    <3>2. k = n
      BY <1>2, <2>2, <3>1, StackDistinct
    <3>3. QED
      BY <1>2, <1>3, <3>2
  <2>3. QED
    BY <1>2, <1>3, <2>1, <2>2
<1>7. QED
  BY <1>1, <1>5, <1>6

LEMMA FollowNoCircle ==
  ASSUME TypeOK, StackOrder, NoCircle, NEW f, NEW step \in {"i", "j"}, Follow(f, step),
         Skip(f, step) \/ Open(f, step)
  PROVE  NoCircle'
<1>1. Loaded' = Loaded /\ Node(Top) \notin Loaded
  BY FollowLoaded
<1>2. edges' = edges \cup {<<Node(Top), Node(f)>>}
  BY DEF Follow
<1> SUFFICES ASSUME NEW S \in SUBSET Loaded, S # {}
             PROVE  \E n \in S : \A e \in edges' : e[1] = n => e[2] \notin S
  BY <1>1 DEF NoCircle
<1>3. PICK n \in S : \A e \in edges : e[1] = n => e[2] \notin S
  BY DEF NoCircle
<1>4. QED
  BY <1>1, <1>2, <1>3

\* An import does not change the overrides of projects that are there.
LEMMA FollowOverrides ==
  ASSUME TypeOK, NEW f, NEW step \in {"i", "j"}, Follow(f, step), Skip(f, step) \/ Open(f, step)
  PROVE  /\ projects' = projects
         /\ \A p \in DOMAIN projects : p \notin late' => OverrideOf(p[1])' = OverrideOf(p[1])
<1>1. projects' = projects
  BY DEF Skip, Open, Read, maps
<1>2. CASE step = "j"
  BY <1>1, <1>2 DEF Follow
<1>3. CASE step = "i"
  <2>1. f.c # <<>>
    BY <1>3 DEF Follow
  <2>2. DOMAIN projectOverrides' = DOMAIN projectOverrides /\ DOMAIN importOverrides' = DOMAIN importOverrides
        /\ (\A x \in DOMAIN projectOverrides : projectOverrides'[x] = projectOverrides[x])
        /\ (\A x \in DOMAIN importOverrides : importOverrides'[x] = importOverrides[x])
    <3>1. CASE Skip(f, step)
      BY <3>1 DEF Skip, maps
    <3>2. CASE Open(f, step)
      <4>1. DOMAIN Manifest(f).projectOverrides = {} /\ DOMAIN Manifest(f).importOverrides = {}
        BY <2>1, <3>2 DEF Open, Misplaced, IsRoot
      <4>2. /\ projectOverrides' = Over(Manifest(f).projectOverrides, projectOverrides)
            /\ importOverrides' = Over(Manifest(f).importOverrides, importOverrides)
        BY <3>2 DEF Open, Read
      <4>3. QED
        BY <4>1, <4>2 DEF Over
    <3>3. QED
      BY <3>1, <3>2
  <2>3. QED
    BY <1>1, <2>2 DEF OverrideOf
<1>4. QED
  BY <1>2, <1>3

\* Progress after a step.
LEMMA ProgressNext ==
  ASSUME UNCHANGED given,
         \A k \in 1..Len(stack') :
           Followed(read', stack'[k].c, Manifest(stack'[k]), stack'[k].i, stack'[k].j),
         \A x \in read' : <<x[1], x[2]>> \in Loaded' =>
           /\ Followed(read', x[1], Manifest(FileOf(x)), Len(Manifest(FileOf(x)).imports), Len(Manifest(FileOf(x)).locals))
           /\ \A n \in DOMAIN Manifest(FileOf(x)).projects : LET p == <<n, Depth(FileOf(x))>> IN
                /\ p \in DOMAIN projects'
                /\ p \notin late' => projects'[p] = Wanted(OverrideOf(n)', Manifest(FileOf(x)).projects[n], PinOf(p)')
  PROVE  Progress'
<1>1. world' = world
  BY SameWorld
<1>2. \A k \in 1..Len(stack') : Followed(read, stack[k].c, Manifest(stack[k]), stack[k].i, stack[k].j)'
  BY <1>1 DEF Manifest, FilesAt, IsRoot, Followed
<1>3. \A x : Manifest(FileOf(x))' = Manifest(FileOf(x)) /\ Depth(FileOf(x))' = Depth(FileOf(x))
  BY <1>1 DEF Manifest, FilesAt, IsRoot, FileOf, Frame, Depth
<1>4. \A x \in read' : <<x[1], x[2]>> \in Loaded' =>
        /\ Followed(read, x[1], Manifest(FileOf(x)), Len(Manifest(FileOf(x)).imports), Len(Manifest(FileOf(x)).locals))'
        /\ Gathered(Manifest(FileOf(x)), Depth(FileOf(x)))'
  BY <1>3 DEF Followed, Gathered
<1>5. QED
  BY <1>2, <1>4 DEF Progress

\* The file of a tag that was followed was read, now or before.
LEMMA FollowedFile ==
  ASSUME TypeOK, StackOrder, NEW f, NEW step \in {"i", "j"}, Follow(f, step), Skip(f, step) \/ Open(f, step)
  PROVE  \E y \in read' : y[1] = f.c /\ y[2] = f.file
<1>1. /\ f \in Begun /\ stack # <<>>
  BY DEF Follow
<1>2. read' = IF Node(f) \in manifests THEN read ELSE read \cup {<<f.c, f.file, f.at>>}
  BY <1>1, GrownStack
<1>3. CASE Node(f) \in manifests
  <2>1. PICK y \in read : Node(f) = <<y[1], y[2]>>
    BY <1>3 DEF StackOrder
  <2>2. y \in read' /\ y[1] = f.c /\ y[2] = f.file
    BY <1>2, <1>3, <2>1 DEF Node
  <2>3. QED
    BY <2>2
<1>4. CASE Node(f) \notin manifests
  <2> DEFINE y == <<f.c, f.file, f.at>>
  <2>1. y \in read' /\ y[1] = f.c /\ y[2] = f.file
    BY <1>2, <1>4
  <2>2. QED
    BY <2>1
<1>5. QED
  BY <1>3, <1>4

LEMMA FollowProgress ==
  ASSUME TypeOK, StackOrder, RefsStay, Progress, InWorld, NEW f, NEW step \in {"i", "j"}, Follow(f, step),
         Skip(f, step) \/ Open(f, step)
  PROVE  Progress'
<1> DEFINE n == Len(stack)
<1>1. /\ f \in Begun /\ stack # <<>> /\ UNCHANGED given /\ late \subseteq late'
  BY DEF Follow
<1>2. /\ n \in Nat \ {0} /\ Top = stack[n]
      /\ Len(stack') = IF Node(f) \in manifests THEN n ELSE n + 1
      /\ \A k \in 1..n : /\ stack'[k].c = stack[k].c /\ stack'[k].file = stack[k].file /\ stack'[k].at = stack[k].at
                         /\ k < n => stack'[k] = stack[k]
      /\ stack'[n].i = (IF step = "i" THEN Top.i + 1 ELSE Top.i)
      /\ stack'[n].j = (IF step = "j" THEN Top.j + 1 ELSE Top.j)
      /\ Node(f) \notin manifests => stack'[n + 1] = f
      /\ read' = IF Node(f) \in manifests THEN read ELSE read \cup {<<f.c, f.file, f.at>>}
  BY <1>1, GrownStack
<1>3. \A k \in 1..Len(stack') :
        Followed(read', stack'[k].c, Manifest(stack'[k]), stack'[k].i, stack'[k].j)
  <2> SUFFICES ASSUME NEW k \in 1..Len(stack')
               PROVE  Followed(read', stack'[k].c, Manifest(stack'[k]), stack'[k].i, stack'[k].j)
    OBVIOUS
  <2>1. CASE k \in 1..n
    <3>1. /\ Followed(read, stack[k].c, Manifest(stack[k]), stack[k].i, stack[k].j)
          /\ stack'[k].c = stack[k].c /\ Manifest(stack'[k]) = Manifest(stack[k]) /\ read \subseteq read'
      BY <1>2, <2>1 DEF Progress, Manifest, FilesAt, IsRoot
    <3>2. CASE k < n
      BY <1>2, <2>1, <3>1, <3>2 DEF Followed
    <3>3. CASE k = n
      <4>1. PICK y \in read' : y[1] = f.c /\ y[2] = f.file
        BY FollowedFile
      <4>2. Top.i \in Nat /\ Top.j \in Nat
        BY <1>1, TopCall DEF TypeOK, Call
      <4>3. Followed(read', Top.c, Manifest(Top), Top.i, Top.j)
        BY <1>2, <3>1, <3>3 DEF Followed
      <4>4. CASE step = "i"
        <5>1. y[1] # <<>> /\ y[1][1] = Manifest(Top).imports[Top.i + 1].remote /\ y[2] = Manifest(Top).imports[Top.i + 1].file
          BY <4>1, <4>4 DEF Follow
        <5>2. Followed(read', Top.c, Manifest(Top), Top.i + 1, Top.j)
          BY <4>2, <4>3, <5>1 DEF Followed
        <5>3. QED
          BY <1>2, <3>1, <3>3, <4>4, <5>2
      <4>5. CASE step = "j"
        <5>1. y[1] = Top.c /\ y[2] = Manifest(Top).locals[Top.j + 1]
          BY <4>1, <4>5 DEF Follow
        <5>2. Followed(read', Top.c, Manifest(Top), Top.i, Top.j + 1)
          BY <4>2, <4>3, <5>1 DEF Followed
        <5>3. QED
          BY <1>2, <3>1, <3>3, <4>5, <5>2
      <4>6. QED
        BY <4>4, <4>5
    <3>4. QED
      BY <2>1, <3>2, <3>3
  <2>2. CASE k \notin 1..n
    <3>1. stack'[k] = f /\ f.i = 0 /\ f.j = 0
      BY <1>1, <1>2, <2>2 DEF Begun
    <3>2. QED
      BY <3>1 DEF Followed
  <2>3. QED
    BY <2>1, <2>2
<1>4. \A x \in read' : <<x[1], x[2]>> \in Loaded' =>
        /\ Followed(read', x[1], Manifest(FileOf(x)), Len(Manifest(FileOf(x)).imports), Len(Manifest(FileOf(x)).locals))
        /\ \A m \in DOMAIN Manifest(FileOf(x)).projects : LET p == <<m, Depth(FileOf(x))>> IN
             /\ p \in DOMAIN projects'
             /\ p \notin late' => projects'[p] = Wanted(OverrideOf(m)', Manifest(FileOf(x)).projects[m], PinOf(p)')
  <2> SUFFICES ASSUME NEW x \in read', <<x[1], x[2]>> \in Loaded'
               PROVE  /\ Followed(read', x[1], Manifest(FileOf(x)), Len(Manifest(FileOf(x)).imports),
                                  Len(Manifest(FileOf(x)).locals))
                      /\ \A m \in DOMAIN Manifest(FileOf(x)).projects : LET p == <<m, Depth(FileOf(x))>> IN
                           /\ p \in DOMAIN projects'
                           /\ p \notin late' =>
                                projects'[p] = Wanted(OverrideOf(m)', Manifest(FileOf(x)).projects[m], PinOf(p)')
    OBVIOUS
  <2> DEFINE M == Manifest(FileOf(x))
             d == Depth(FileOf(x))
  <2>1. <<x[1], x[2]>> \in Loaded /\ <<x[1], x[2]>> \in manifests
    BY FollowLoaded DEF Loaded
  <2>2. x \in read /\ read \subseteq read'
    BY <1>2, <2>1 DEF Node, Loaded
  <2>3. Followed(read, x[1], M, Len(M.imports), Len(M.locals)) /\ Gathered(M, d)
    BY <2>1, <2>2 DEF Progress
  <2>4. projects' = projects /\ \A p \in DOMAIN projects : p \notin late' => OverrideOf(p[1])' = OverrideOf(p[1])
    BY FollowOverrides
  <2>5. \A p \in DOMAIN projects : p \notin late' => PinOf(p)' = PinOf(p)
    BY DEF Follow
  <2> HIDE DEF M, d
  <2>6. Followed(read', x[1], M, Len(M.imports), Len(M.locals))
    BY <2>2, <2>3 DEF Followed
  <2>7. ASSUME NEW m \in DOMAIN M.projects, NEW p, p = <<m, d>>
        PROVE  /\ p \in DOMAIN projects'
               /\ p \notin late' => projects'[p] = Wanted(OverrideOf(m)', M.projects[m], PinOf(p)')
    <3>1. p \in DOMAIN projects /\ (p \notin late => projects[p] = Wanted(OverrideOf(m), M.projects[m], PinOf(p)))
      BY <2>3, <2>7 DEF Gathered
    <3>2. p[1] = m
      BY <2>7
    <3>3. QED
      BY <1>1, <2>4, <2>5, <3>1, <3>2
  <2>8. QED
    BY <2>6, <2>7 DEF M, d
<1>5. QED
  BY <1>1, <1>3, <1>4, ProgressNext

LEMMA FollowInWorld ==
  ASSUME TypeOK, StackOrder, InWorld, NEW f, NEW step \in {"i", "j"}, Follow(f, step), Skip(f, step) \/ Open(f, step)
  PROVE  InWorld'
<1>1. f \in Begun /\ stack # <<>> /\ world' = world
  BY SameWorld DEF Follow
<1>2. /\ read' = IF Node(f) \in manifests THEN read ELSE read \cup {<<f.c, f.file, f.at>>}
      /\ manifests' = manifests \cup {Node(f)} /\ (Node(f) \notin manifests => IsThere(f))
  BY <1>1, GrownStack
<1>3. \A x \in read' : <<x[1], x[2]>> \in manifests' /\ IsThere(FileOf(x))
  <2>1. \A x \in read : <<x[1], x[2]>> \in manifests' /\ IsThere(FileOf(x))
    BY <1>2 DEF InWorld
  <2>2. Node(f) \notin manifests => IsThere(FileOf(<<f.c, f.file, f.at>>)) /\ <<f.c, f.file>> \in manifests'
    BY <1>2 DEF IsThere, FilesAt, IsRoot, FileOf, Frame, Node
  <2>3. ASSUME NEW x \in read', x \notin read
        PROVE  <<x[1], x[2]>> \in manifests' /\ IsThere(FileOf(x))
    <3>1. Node(f) \notin manifests /\ x = <<f.c, f.file, f.at>>
      BY <1>2, <2>3
    <3>2. QED
      BY <2>2, <3>1
  <2>4. QED
    BY <2>1, <2>3
<1>4. \A x : IsThere(FileOf(x))' = IsThere(FileOf(x))
  BY <1>1 DEF IsThere, FilesAt, IsRoot, FileOf, Frame
<1>5. QED
  BY <1>2, <1>3, <1>4 DEF InWorld

\* A file, or an import, that is on the stack is imported in a circle.
LEMMA CircleFound ==
  ASSUME TypeOK, StackOrder, NEW f, NEW step \in {"i", "j"}, Follow(f, step), IsCycle(f)
  PROVE  Circular({<<Unrooted(x[1]), Unrooted(x[2])>> : x \in edges'})
<1> DEFINE n == Len(stack)
           E == {<<Unrooted(x[1]), Unrooted(x[2])>> : x \in edges'}
<1>1. stack # <<>> /\ edges' = edges \cup {<<Node(Top), Node(f)>>}
      /\ (f.key # <<>> => f.c # <<>> /\ f.key = <<f.c[1], f.file>>)
  BY DEF Follow
<1>2. n \in Nat \ {0} /\ Top = stack[n] /\ DOMAIN stack = 1..n
  BY <1>1, TopCall DEF TypeOK
<1>3. PICK i \in 1..n : \/ f.c = stack[i].c /\ f.file = stack[i].file
                        \/ f.key = stack[i].key /\ f.key # <<>>
  BY <1>2 DEF IsCycle
<1> DEFINE S == {Unrooted(Node(stack[k])) : k \in i..n}
<1>4. Unrooted(Node(f)) = Unrooted(Node(stack[i]))
  <2>1. CASE f.c = stack[i].c /\ f.file = stack[i].file
    BY <2>1 DEF Node
  <2>2. CASE f.key = stack[i].key /\ f.key # <<>>
    <3>1. /\ f.c # <<>> /\ f.key = <<f.c[1], f.file>>
          /\ stack[i].c # <<>> /\ stack[i].key = <<stack[i].c[1], stack[i].file>>
      BY <1>1, <1>3, <2>2 DEF StackOrder
    <3>2. <<f.c[1], f.file>> = <<stack[i].c[1], stack[i].file>>
      BY <2>2, <3>1
    <3>3. QED
      BY <3>1, <3>2 DEF Unrooted, Node
  <2>3. QED
    BY <1>3, <2>1, <2>2
<1>5. \A k \in i..n : \E e \in edges' : e[1] = Node(stack[k]) /\ Unrooted(e[2]) \in S
  <2> SUFFICES ASSUME NEW k \in i..n
               PROVE  \E e \in edges' : e[1] = Node(stack[k]) /\ Unrooted(e[2]) \in S
    OBVIOUS
  <2>1. CASE k < n
    <3> DEFINE e == <<Node(stack[k]), Node(stack[k + 1])>>
    <3>1. k \in 1..n /\ k + 1 \in i..n
      BY <1>2, <1>3, <2>1
    <3>2. e \in edges'
      BY <1>1, <2>1, <3>1 DEF StackOrder
    <3>3. e[1] = Node(stack[k]) /\ Unrooted(e[2]) \in S
      BY <3>1
    <3>4. QED
      BY <3>2, <3>3
  <2>2. CASE k = n
    <3> DEFINE e == <<Node(Top), Node(f)>>
    <3>1. e \in edges' /\ e[1] = Node(stack[k])
      BY <1>1, <1>2, <2>2
    <3>2. Unrooted(e[2]) = Unrooted(Node(stack[i])) /\ i \in i..n
      BY <1>2, <1>3, <1>4
    <3>3. QED
      BY <3>1, <3>2
  <2>3. QED
    BY <1>2, <1>3, <2>1, <2>2
<1>6. \A m \in S : \E x \in E : x[1] = m /\ x[2] \in S
  <2> SUFFICES ASSUME NEW k \in i..n
               PROVE  \E x \in E : x[1] = Unrooted(Node(stack[k])) /\ x[2] \in S
    OBVIOUS
  <2>1. PICK e \in edges' : e[1] = Node(stack[k]) /\ Unrooted(e[2]) \in S
    BY <1>5
  <2> DEFINE x == <<Unrooted(e[1]), Unrooted(e[2])>>
  <2>2. x \in E
    OBVIOUS
  <2>3. x[1] = Unrooted(Node(stack[k])) /\ x[2] \in S
    BY <2>1
  <2> HIDE DEF x, E, S
  <2>4. QED
    BY <2>2, <2>3
<1>7. S # {}
  <2>1. i \in i..n
    BY <1>2, <1>3
  <2>2. QED
    BY <2>1
<1> HIDE DEF E, S
<1>8. S \subseteq {x[1] : x \in E}
  BY <1>6
<1>9. QED
  BY <1>6, <1>7, <1>8 DEF Circular, E

LEMMA FollowKeeps ==
  ASSUME IInv, NEW f, NEW step \in {"i", "j"}, Follow(f, step), Enter(f, Advance(step)) \/ Stop("conflict")
  PROVE  IInv'
<1>1. TypeOK /\ OneRevision /\ Going
  BY DEF IInv, Follow
<1>2. TypeOK'
  BY <1>1, FollowTypes
<1>3. CASE \E kind \in Result \ {"none", "ok", "cycle"} : Stop(kind)
  <2>1. ret' \notin {"none", "ok", "cycle"} /\ read' = read
    BY <1>3 DEF Stop
  <2>2. QED
    BY <1>1, <1>2, <2>1 DEF IInv, OneRevision, CycleReported, Complete, Working
<1>4. CASE IsCycle(f) /\ Stop("cycle")
  <2>1. ret' = "cycle" /\ read' = read
    BY <1>4 DEF Stop
  <2>2. Circular({<<Unrooted(x[1]), Unrooted(x[2])>> : x \in edges'})
    BY <1>1, <1>4, CircleFound DEF Going
  <2>3. CycleReported'
    BY <2>1, <2>2 DEF CycleReported, Circular, Unrooted
  <2>4. QED
    BY <1>1, <1>2, <2>1, <2>3 DEF IInv, OneRevision, Complete, Working
<1>5. CASE Skip(f, step) \/ Open(f, step)
  <2>1. Going'
    BY <1>1, <1>5, FollowRefsStay, FollowStackOrder, FollowEdgesDown, FollowNoCircle, FollowProgress, FollowInWorld
       DEF Going
  <2>2. ret' = "none"
    BY <1>1, <1>5, GrownStack DEF Follow, Working
  <2>3. OneRevision'
    BY <2>1 DEF Going, RefsStay, OneRevision
  <2>4. QED
    BY <1>2, <2>1, <2>2, <2>3 DEF IInv, CycleReported, Complete
<1>6. "conflict" \in Result \ {"none", "ok", "cycle"}
  BY DEF Result
<1>7. QED
  BY <1>3, <1>4, <1>5, <1>6, EnterCases

LEMMA FailKeeps ==
  ASSUME IInv, Failing, UNCHANGED <<given, tip>>, faults' \in 0..MaxFaults
  PROVE  IInv'
<1>1. PICK kind \in Result \ {"none", "ok", "cycle"} : Fail(kind)
  BY DEF Failing
<1>2. TypeOK'
  BY <1>1, FailTypes DEF IInv
<1>3. ret' \notin {"none", "ok", "cycle"} /\ read' = read
  BY <1>1 DEF Fail
<1>4. QED
  BY <1>2, <1>3 DEF IInv, OneRevision, CycleReported, Complete, Working

-----------------------------------------------------------------------------
(* The root manifest is read. *)

LEMMA BeginKeeps ==
  ASSUME IInv, Begin
  PROVE  IInv'
<1> DEFINE f == Frame(<<>>, "root", <<>>, Local, 0, mode.localManifest)
<1>1. TypeOK' /\ Going /\ TypeOK
  BY BeginTypes DEF IInv, Begin
<1>2. manifests = {} /\ stack = <<>> /\ read = {} /\ edges = {} /\ ret = "none"
  BY <1>1 DEF Begin, Going, InWorld, EdgesDown, Working
<1>3. UNCHANGED given /\ UNCHANGED <<edges, late, imported>> /\ world' = world
  BY SameWorld DEF Begin
<1>4. f.c = <<>> /\ f.key = <<>> /\ f.i = 0 /\ f.j = 0 /\ f.at = 0
  BY DEF Frame
<1>5. f \in Begun
  <2>1. mode.localManifest \in BOOLEAN /\ 0 \in Revision /\ "root" \in File
    BY <1>1, LoaderAssumption DEF TypeOK, IsMode, Revision, File
  <2>2. Local \in Ref /\ <<>> \in {<<>>} \cup Checkout /\ <<>> \in {<<>>} \cup Remotes \X File
    BY DEF Ref
  <2>3. QED
    BY <2>1, <2>2 DEF Frame, Begun
<1> HIDE DEF f
<1>6. Enter(f, <<>>)
  BY DEF Begin, f
<1>7. CASE IsThere(f) /\ Read(f, <<>>)
  <2>1. stack' = Append(<<>>, f) /\ manifests' = {Node(f)} /\ read' = {<<f.c, f.file, f.at>>} /\ ret' = ret
    BY <1>2, <1>7 DEF Read, Node
  <2>2. Len(stack') = 1 /\ stack'[1] = f
    <3>1. f \in Call /\ <<>> \in Seq(Call)
      BY <1>5, <1>7, BegunCall
    <3>2. QED
      BY <2>1, <3>1, PushedStack
  <2>3. RefsStay'
    BY <1>3, <1>4, <1>7, <2>1, <2>2 DEF RefsStay, IsThere, FilesAt, IsRoot
  <2>4. StackOrder'
    BY <1>4, <2>1, <2>2 DEF StackOrder, Node
  <2>5. EdgesDown'
    BY <1>2, <1>3 DEF EdgesDown
  <2>6. NoCircle'
    BY <1>2, <1>3 DEF NoCircle
  <2>7. Loaded' = {}
    BY <2>1, <2>2 DEF Loaded, Node
  <2>8. Progress'
    <3>1. \A k \in 1..Len(stack') :
            Followed(read', stack'[k].c, Manifest(stack'[k]), stack'[k].i, stack'[k].j)
      BY <1>4, <2>2 DEF Followed
    <3>2. QED
      BY <1>3, <2>7, <3>1, ProgressNext
  <2>9. InWorld'
    <3> DEFINE y == <<f.c, f.file, f.at>>
    <3>1. IsThere(FileOf(y)) /\ <<y[1], y[2]>> \in manifests'
      BY <1>7, <2>1 DEF IsThere, FilesAt, IsRoot, FileOf, Frame, Node
    <3>2. \A x \in read' : x = y
      BY <2>1
    <3>3. manifests' # {}
      BY <2>1
    <3> HIDE DEF y
    <3>4. \A x \in read' : <<x[1], x[2]>> \in manifests' /\ IsThere(FileOf(x))
      BY <3>1, <3>2
    <3>5. \A x : IsThere(FileOf(x))' = IsThere(FileOf(x))
      BY <1>3 DEF IsThere, FilesAt, IsRoot, FileOf, Frame
    <3>6. QED
      BY <3>3, <3>4, <3>5 DEF InWorld
  <2>10. OneRevision'
    BY <2>1 DEF OneRevision
  <2>11. QED
    BY <1>1, <1>2, <2>1, <2>3, <2>4, <2>5, <2>6, <2>8, <2>9, <2>10
       DEF IInv, Going, CycleReported, Complete
<1>8. CASE \E kind \in {"missing", "lock", "override"} : Stop(kind)
  <2>1. ret' \notin {"none", "ok", "cycle"} /\ read' = read
    BY <1>8 DEF Stop
  <2>2. QED
    BY <1>1, <1>2, <2>1 DEF IInv, OneRevision, CycleReported, Complete, Working
<1>9. QED
  <2>1. ~IsCycle(f)
    BY <1>2 DEF IsCycle
  <2>2. QED
    BY <1>2, <1>6, <1>7, <1>8, <2>1 DEF Enter

-----------------------------------------------------------------------------
(* The projects of a manifest are collected. *)

\* A call of load returns, with the projects of its manifest.
Return ==
  LET m == Manifest(Top) IN
  /\ Working /\ stack # <<>> /\ Top.i = Len(m.imports) /\ Top.j = Len(m.locals)
  /\ stack' = Front(stack)
  /\ DOMAIN projects' = DOMAIN projects \cup {<<n, Depth(Top)>> : n \in DOMAIN m.projects}
  /\ \A p \in DOMAIN projects : projects'[p] = projects[p]
  /\ \A n \in DOMAIN m.projects : LET p == <<n, Depth(Top)>> IN
       p \notin DOMAIN projects /\ projects'[p] = Wanted(OverrideOf(n), m.projects[n], PinOf(p))
  /\ UNCHANGED <<given, tip, checkouts, manifests, cached, imported, locks, projectOverrides, importOverrides, ret, read,
                 edges, late, faults>>

LEMMA CollectReturns ==
  ASSUME Collect
  PROVE  \/ Failing /\ UNCHANGED <<given, tip, faults>>
         \/ Return
<1> DEFINE m == Manifest(Top)
           depth == Depth(Top)
           pinned(n) == PinOf(<<n, depth>>)
           rev(n) == RevisionIn(n, m.projects[n], pinned(n))
           wrong ==
             {<<n, "override">> : n \in DOMAIN m.projects \cap DOMAIN importOverrides \cap DOMAIN projectOverrides}
               \cup {<<n, "revision">> : n \in {x \in DOMAIN m.projects : pinned(x) \notin {NoRev, rev(x)}}}
               \cup {<<n, "duplicate">> : n \in {x \in DOMAIN m.projects : <<x, depth>> \in DOMAIN projects}}
               \cup {<<n, "hook">> : n \in m.hooks \ DOMAIN m.projects}
               \cup {<<n, "package">> : n \in {x \in DOMAIN m.packages : m.packages[x] > 1 \/ x \in PackagesSoFar}}
           new == [x \in {<<n, depth>> : n \in DOMAIN m.projects} |-> rev(x[1])]
<1>1. CASE wrong # {} /\ \E w \in wrong : Fail(w[2])
  <2>1. {"override", "revision", "duplicate", "hook", "package"} \subseteq Result \ {"none", "ok", "cycle"}
    BY DEF Result
  <2>2. PICK w \in wrong : Fail(w[2])
    BY <1>1
  <2>3. w[2] \in {"override", "revision", "duplicate", "hook", "package"}
    <3>1. CASE \E n : w = <<n, "override">> \/ w = <<n, "revision">> \/ w = <<n, "duplicate">>
                  \/ w = <<n, "hook">> \/ w = <<n, "package">>
      BY <3>1
    <3>2. QED
      BY <3>1
  <2>4. QED
    BY <2>1, <2>2, <2>3 DEF Collect, Failing
<1>2. CASE /\ wrong = {} /\ projects' = Over(new, projects) /\ stack' = Front(stack)
           /\ UNCHANGED <<checkouts, manifests, cached, imported, locks, projectOverrides, importOverrides, ret, read,
                          edges, late>>
  <2>1. \A n \in DOMAIN m.projects : <<n, depth>> \notin DOMAIN projects
    BY <1>2
  <2>2. DOMAIN projects' = DOMAIN projects \cup {<<n, depth>> : n \in DOMAIN m.projects}
    BY <1>2 DEF Over
  <2>3. \A p \in DOMAIN projects : projects'[p] = projects[p]
    BY <1>2, <2>1 DEF Over
  <2>4. \A n \in DOMAIN m.projects : projects'[<<n, depth>>] = rev(n)
    BY <1>2 DEF Over
  <2>5. \A n \in DOMAIN m.projects : rev(n) = Wanted(OverrideOf(n), m.projects[n], PinOf(<<n, depth>>))
    BY DEF RevisionIn, Wanted, FirstOf
  <2>6. /\ Working /\ stack # <<>> /\ Top.i = Len(m.imports) /\ Top.j = Len(m.locals)
        /\ UNCHANGED <<given, tip, faults>>
    BY DEF Collect
  <2>7. Return
    BY <1>2, <2>1, <2>2, <2>3, <2>4, <2>5, <2>6 DEF Return
  <2>8. QED
    BY <2>7
<1>3. QED
  BY <1>1, <1>2 DEF Collect

LEMMA ReturnTypes ==
  ASSUME TypeOK, RefsStay, Collect, Return
  PROVE  TypeOK'
<1> DEFINE m == Manifest(Top)
<1>1. stack' \in Seq(Call) /\ UNCHANGED given
  BY PoppedStack DEF Return, TypeOK
<1>2. world' = world /\ mode' = mode /\ Remotes' = Remotes /\ Checkout' = Checkout /\ Call' = Call
  BY <1>1, SameWorld
<1>3. /\ tip' = tip /\ known' = known /\ tree' = tree /\ cached' = cached /\ imported' = imported /\ locks' = locks
      /\ projectOverrides' = projectOverrides /\ importOverrides' = importOverrides /\ ret' = ret /\ faults' = faults
  BY DEF Return, checkouts
<1>4. IsMap(projects')
  <2>1. IsManifest(m, Remotes)
    BY TopThere DEF Return
  <2>2. projects' = [p \in DOMAIN projects' |-> projects'[p]]
    BY DEF Collect, Return, Over, Fail, maps, TypeOK, IsMap
  <2>3. \A p \in DOMAIN projects' : projects'[p] \in Nat
    <3>1. \A p : PinOf(p) \in Nat
      BY DEF PinOf, TypeOK, IsMap, NoRev
    <3>2. \A n : OverrideOf(n) \in Nat \cup {-1}
      BY DEF OverrideOf, TypeOK, IsMap
    <3>3. \A n \in DOMAIN m.projects : m.projects[n] \in Nat
      BY <2>1 DEF IsManifest, IsMap
    <3>4. \A n \in DOMAIN m.projects : Wanted(OverrideOf(n), m.projects[n], PinOf(<<n, Depth(Top)>>)) \in Nat
      BY <3>1, <3>2, <3>3 DEF Wanted, FirstOf, NoRev
    <3>5. \A p \in DOMAIN projects : projects[p] \in Nat
      BY DEF TypeOK, IsMap
    <3>6. QED
      BY <3>4, <3>5 DEF Return
  <2>4. QED
    BY <2>2, <2>3 DEF IsMap
<1>5. QED
  BY <1>1, <1>2, <1>3, <1>4 DEF TypeOK

LEMMA ReturnKeeps ==
  ASSUME IInv, Collect, Return
  PROVE  IInv'
<1> DEFINE n == Len(stack)
           t == Node(Top)
<1>1. TypeOK /\ OneRevision /\ Going
  BY DEF IInv, Return
<1>2. TypeOK'
  BY <1>1, ReturnTypes DEF Going
<1>3. /\ UNCHANGED <<given, manifests, cached, imported, projectOverrides, importOverrides, ret, read, edges, late>>
      /\ known' = known /\ tree' = tree /\ world' = world
  BY SameWorld DEF Return, checkouts
<1>4. /\ n \in Nat \ {0} /\ Top = stack[n] /\ n \in 1..n
      /\ Len(stack') = n - 1 /\ \A k \in 1..(n - 1) : stack'[k] = stack[k] /\ k \in 1..n
  <2>1. n \in Nat \ {0} /\ Top = stack[n] /\ stack' = Front(stack)
    BY <1>1, TopCall DEF Return, TypeOK
  <2>2. Len(stack') = n - 1 /\ \A k \in 1..(n - 1) : stack'[k] = stack[k]
    BY <1>1, <2>1, PoppedStack DEF Return, TypeOK
  <2>3. n \in 1..n /\ \A k \in 1..(n - 1) : k \in 1..n
    BY <2>1
  <2>4. QED
    BY <2>1, <2>2, <2>3
<1>5. RefsStay'
  BY <1>1, <1>3, <1>4 DEF Going, RefsStay, IsThere, FilesAt, IsRoot, At, IsOld
<1>6. StackOrder'
  <2>1. \A k \in 1..(n - 1) :
          /\ Node(stack[k]) \in manifests
          /\ stack[k].key # <<>> => stack[k].c # <<>> /\ stack[k].key = <<stack[k].c[1], stack[k].file>>
          /\ k < n - 1 => <<Node(stack[k]), Node(stack[k + 1])>> \in edges
    <3>1. \A k \in 1..(n - 1) : k \in 1..Len(stack) /\ (k < n - 1 => k < Len(stack))
      BY <1>4
    <3>2. \A k \in 1..Len(stack) :
            /\ Node(stack[k]) \in manifests
            /\ stack[k].key # <<>> => stack[k].c # <<>> /\ stack[k].key = <<stack[k].c[1], stack[k].file>>
            /\ k < Len(stack) => <<Node(stack[k]), Node(stack[k + 1])>> \in edges
      BY <1>1 DEF Going, StackOrder
    <3> QED BY <3>1, <3>2
  <2>2. \A k, l \in 1..(n - 1) : Node(stack[k]) = Node(stack[l]) => k = l
    BY <1>1, <1>4, StackDistinct DEF Going
  <2>3. \A m \in manifests : \E x \in read : m = <<x[1], x[2]>>
    BY <1>1 DEF Going, StackOrder
  <2>4. \A k \in 1..Len(stack') :
          /\ Node(stack'[k]) \in manifests
          /\ stack'[k].key # <<>> => stack'[k].c # <<>> /\ stack'[k].key = <<stack'[k].c[1], stack'[k].file>>
          /\ k < Len(stack') => <<Node(stack'[k]), Node(stack'[k + 1])>> \in edges
    <3> SUFFICES ASSUME NEW k \in 1..(n - 1)
                 PROVE  /\ Node(stack'[k]) \in manifests
                        /\ stack'[k].key # <<>> =>
                             stack'[k].c # <<>> /\ stack'[k].key = <<stack'[k].c[1], stack'[k].file>>
                        /\ k < n - 1 => <<Node(stack'[k]), Node(stack'[k + 1])>> \in edges
      BY <1>4
    <3>1. stack'[k] = stack[k] /\ (k < n - 1 => stack'[k + 1] = stack[k + 1])
      BY <1>4
    <3>2. QED
      BY <2>1, <3>1
  <2>5. \A k, l \in 1..Len(stack') : Node(stack'[k]) = Node(stack'[l]) => k = l
    BY <1>4, <2>2
  <2>6. QED
    BY <1>3, <2>3, <2>4, <2>5 DEF StackOrder, Node
<1>7. Loaded' = Loaded \cup {t} /\ t \in manifests /\ t \notin Loaded
  <2>1. \A k \in 1..n : Node(stack[k]) = t => k = n
    BY <1>1, <1>4, StackDistinct DEF Going
  <2>2. t \in manifests /\ t \notin Loaded
    BY <1>1, <1>4, StackDistinct DEF Going, Loaded
  <2>3. \A m : m \in Loaded' <=> m \in manifests /\ \A k \in 1..(n - 1) : Node(stack[k]) # m
    BY <1>3, <1>4 DEF Loaded, Node
  <2>4. \A m : m \in Loaded <=> m \in manifests /\ \A k \in 1..n : Node(stack[k]) # m
    BY DEF Loaded
  <2>5. \A k \in 1..n : k = n \/ k \in 1..(n - 1)
    BY <1>4
  <2>6. \A m : m \in Loaded' <=> m \in Loaded \/ m = t
    BY <1>4, <2>1, <2>2, <2>3, <2>4, <2>5
  <2>7. QED
    BY <2>2, <2>6
<1>8. \A e \in edges : e[1] = t => e[2] \in Loaded
  BY <1>1, <1>4 DEF Going, EdgesDown
<1>9. EdgesDown'
  <2> SUFFICES ASSUME NEW e \in edges
               PROVE  /\ e[1] \in manifests
                      /\ e[1] \in Loaded' => e[2] \in Loaded'
                      /\ \A k \in 1..(n - 1) :
                           e[1] = Node(stack[k]) => e[2] \in Loaded' \/ (k < n - 1 /\ e[2] = Node(stack[k + 1]))
    <3>1. edges' = edges /\ manifests' = manifests /\ Len(stack') = n - 1
      BY <1>3, <1>4
    <3>2. \A k \in 1..(n - 1) : Node(stack'[k]) = Node(stack[k]) /\ (k < n - 1 => Node(stack'[k + 1]) = Node(stack[k + 1]))
      BY <1>4
    <3> QED BY <3>1, <3>2 DEF EdgesDown
  <2>1. e[1] \in manifests /\ (e[1] \in Loaded => e[2] \in Loaded)
    BY <1>1 DEF Going, EdgesDown
  <2>2. ASSUME NEW k \in 1..(n - 1), e[1] = Node(stack[k])
        PROVE  e[2] \in Loaded' \/ (k < n - 1 /\ e[2] = Node(stack[k + 1]))
    <3>1. e[2] \in Loaded \/ e[2] = Node(stack[k + 1])
      BY <1>1, <1>4, <2>2 DEF Going, EdgesDown
    <3>2. k < n - 1 \/ k + 1 = n
      BY <1>4
    <3>3. QED
      BY <1>4, <1>7, <3>1, <3>2
  <2>3. QED
    BY <1>7, <1>8, <2>1, <2>2
<1>10. NoCircle'
  <2> SUFFICES ASSUME NEW S \in SUBSET Loaded', S # {}
               PROVE  \E m \in S : \A e \in edges : e[1] = m => e[2] \notin S
    BY <1>3 DEF NoCircle
  <2>1. CASE S = {t}
    BY <1>7, <1>8, <2>1
  <2>2. CASE S # {t}
    <3>1. S \ {t} \in SUBSET Loaded /\ S \ {t} # {}
      BY <1>7, <2>2
    <3>2. PICK m \in S \ {t} : \A e \in edges : e[1] = m => e[2] \notin S \ {t}
      BY <1>1, <3>1 DEF Going, NoCircle
    <3>3. \A e \in edges : e[1] = m => e[2] \in Loaded
      BY <1>1, <3>1 DEF Going, EdgesDown
    <3>4. QED
      BY <1>7, <3>2, <3>3
  <2>3. QED
    BY <2>1, <2>2
<1>11. Progress'
  <2>1. \A k \in 1..Len(stack') :
          Followed(read', stack'[k].c, Manifest(stack'[k]), stack'[k].i, stack'[k].j)
    BY <1>1, <1>3, <1>4 DEF Going, Progress
  <2>2. ASSUME NEW x \in read', <<x[1], x[2]>> \in Loaded'
        PROVE  /\ Followed(read', x[1], Manifest(FileOf(x)), Len(Manifest(FileOf(x)).imports),
                           Len(Manifest(FileOf(x)).locals))
               /\ \A m \in DOMAIN Manifest(FileOf(x)).projects : LET p == <<m, Depth(FileOf(x))>> IN
                    /\ p \in DOMAIN projects'
                    /\ p \notin late' =>
                         projects'[p] = Wanted(OverrideOf(m)', Manifest(FileOf(x)).projects[m], PinOf(p)')
    <3> DEFINE M == Manifest(FileOf(x))
               d == Depth(FileOf(x))
    <3>1. \A m, p : OverrideOf(m)' = OverrideOf(m) /\ PinOf(p)' = PinOf(p)
      BY <1>3 DEF OverrideOf, PinOf
    <3>2. CASE <<x[1], x[2]>> \in Loaded
      <4>1. Followed(read', x[1], M, Len(M.imports), Len(M.locals)) /\ Gathered(M, d)
        BY <1>1, <1>3, <3>2 DEF Going, Progress
      <4> HIDE DEF M, d
      <4>2. \A m \in DOMAIN M.projects : LET p == <<m, d>> IN
              /\ p \in DOMAIN projects'
              /\ p \notin late' => projects'[p] = Wanted(OverrideOf(m)', M.projects[m], PinOf(p)')
        BY <1>3, <3>1, <4>1 DEF Gathered, Return
      <4>3. QED
        BY <4>1, <4>2 DEF M, d
    <3>3. CASE <<x[1], x[2]>> = t
      <4>1. x[1] = Top.c /\ x[2] = Top.file
        BY <3>3 DEF Node
      <4>2. <<Top.c, Top.file, Top.at>> \in read
        BY <1>1, TopThere DEF Going, Return
      <4>3. x[3] = Top.at
        BY <1>1, <1>3, <4>1, <4>2 DEF OneRevision
      <4>4. M = Manifest(Top) /\ d = Depth(Top)
        BY <4>1, <4>3 DEF Manifest, FilesAt, IsRoot, FileOf, Frame, Depth
      <4> HIDE DEF M, d
      <4>5. Followed(read', x[1], M, Len(M.imports), Len(M.locals))
        BY <1>1, <1>3, <1>4, <4>1, <4>4 DEF Going, Progress, Return
      <4>6. \A m \in DOMAIN M.projects : LET p == <<m, d>> IN
              /\ p \in DOMAIN projects'
              /\ p \notin late' => projects'[p] = Wanted(OverrideOf(m)', M.projects[m], PinOf(p)')
        BY <3>1, <4>4 DEF Return
      <4>7. QED
        BY <4>5, <4>6 DEF M, d
    <3>4. QED
      BY <1>7, <2>2, <3>2, <3>3
  <2>3. QED
    BY <1>3, <2>1, <2>2, ProgressNext
<1>12. InWorld'
  <2>1. \A x : IsThere(FileOf(x))' = IsThere(FileOf(x))
    BY <1>3 DEF IsThere, FilesAt, IsRoot, FileOf, Frame
  <2>2. QED
    BY <1>1, <1>3, <1>7, <2>1 DEF Going, InWorld
<1>13. QED
  BY <1>1, <1>2, <1>3, <1>5, <1>6, <1>9, <1>10, <1>11, <1>12
     DEF IInv, Going, OneRevision, CycleReported, Complete, Return, Working

-----------------------------------------------------------------------------
(* Lockfiles are enforced, and others push. *)

\* Completeness after a step.
LEMMA CompleteNext ==
  ASSUME UNCHANGED <<given, read, late, imported, locks, projectOverrides, importOverrides>>,
         ret' = "ok" =>
           \A x \in read : LET m == Manifest(FileOf(x))
                               d == Depth(FileOf(x)) IN
             /\ Followed(read, x[1], m, Len(m.imports), Len(m.locals))
             /\ \A n \in DOMAIN m.projects : LET p == <<n, d>> IN
                  /\ p \in DOMAIN projects'
                  /\ p \notin late =>
                       projects'[p] = FirstOf(IF OverrideOf(n) = -1 THEN m.projects[n] ELSE OverrideOf(n), PinOf(p),
                                              IF d = 0 /\ n \in DOMAIN locks THEN locks[n] ELSE NoRev)
  PROVE  Complete'
<1>1. world' = world
  BY SameWorld
<1>2. \A y : Manifest(FileOf(y))' = Manifest(FileOf(y)) /\ Depth(FileOf(y))' = Depth(FileOf(y))
  BY <1>1 DEF Manifest, FilesAt, IsRoot, FileOf, Frame, Depth
<1>3. \A n, p : OverrideOf(n)' = OverrideOf(n) /\ PinOf(p)' = PinOf(p)
  BY DEF OverrideOf, PinOf
<1>4. QED
  BY <1>2, <1>3 DEF Complete, Followed

LEMMA FinishKeeps ==
  ASSUME IInv, Finish
  PROVE  IInv'
<1> DEFINE locked == {p \in DOMAIN projects : p[2] = 0 /\ p[1] \in DOMAIN locks}
           clash == {p \in locked : projects[p] \notin {NoRev, locks[p[1]]}}
<1>1. TypeOK /\ OneRevision /\ Going /\ stack = <<>>
  BY DEF IInv, Finish
<1>2. /\ ret' = IF clash # {} THEN "lock" ELSE "ok"
      /\ projects' = [p \in DOMAIN projects |-> IF p \in locked /\ projects[p] = NoRev THEN locks[p[1]] ELSE projects[p]]
      /\ UNCHANGED <<given, tip, known, tree, stack, manifests, cached, imported, locks, projectOverrides,
                     importOverrides, read, edges, late, faults>>
  BY DEF Finish, checkouts
<1>3. TypeOK'
  <2>1. world' = world /\ mode' = mode /\ Remotes' = Remotes /\ Checkout' = Checkout /\ Call' = Call
    BY <1>2, SameWorld
  <2>2. IsMap(projects')
    BY <1>1, <1>2 DEF TypeOK, IsMap
  <2>3. ret' \in Result
    BY <1>2 DEF Result
  <2>4. QED
    BY <1>1, <1>2, <2>1, <2>2, <2>3 DEF TypeOK
<1>4. OneRevision'
  BY <1>1, <1>2 DEF OneRevision
<1>5. Loaded = manifests
  BY <1>1, EmptySeq DEF Loaded
<1>6. CycleReported'
  <2> SUFFICES ASSUME NEW S \in SUBSET {x[1] : x \in edges}, S # {}, \A n \in S : \E x \in edges : x[1] = n /\ x[2] \in S
               PROVE  FALSE
    BY <1>2 DEF CycleReported, Circular
  <2>1. S \in SUBSET Loaded
    BY <1>1, <1>5 DEF Going, EdgesDown
  <2>2. PICK n \in S : \A e \in edges : e[1] = n => e[2] \notin S
    BY <1>1, <2>1 DEF Going, NoCircle
  <2>3. QED
    BY <2>2
<1>7. Complete'
  <2> SUFFICES ASSUME NEW x \in read, ret' = "ok"
               PROVE  LET m == Manifest(FileOf(x))
                          d == Depth(FileOf(x)) IN
                 /\ Followed(read, x[1], m, Len(m.imports), Len(m.locals))
                 /\ \A n \in DOMAIN m.projects : LET p == <<n, d>> IN
                      /\ p \in DOMAIN projects'
                      /\ p \notin late =>
                           projects'[p] = FirstOf(IF OverrideOf(n) = -1 THEN m.projects[n] ELSE OverrideOf(n), PinOf(p),
                                                  IF d = 0 /\ n \in DOMAIN locks THEN locks[n] ELSE NoRev)
    BY <1>2, CompleteNext
  <2> DEFINE m == Manifest(FileOf(x))
             d == Depth(FileOf(x))
  <2>1. <<x[1], x[2]>> \in Loaded
    BY <1>1, <1>5 DEF Going, InWorld
  <2>2. Followed(read, x[1], m, Len(m.imports), Len(m.locals)) /\ Gathered(m, d)
    BY <1>1, <2>1 DEF Going, Progress
  <2> HIDE DEF m, d
  <2>3. ASSUME NEW n \in DOMAIN m.projects, NEW p, p = <<n, d>>
        PROVE  /\ p \in DOMAIN projects'
               /\ p \notin late =>
                    projects'[p] = FirstOf(IF OverrideOf(n) = -1 THEN m.projects[n] ELSE OverrideOf(n), PinOf(p),
                                           IF d = 0 /\ n \in DOMAIN locks THEN locks[n] ELSE NoRev)
    <3>1. p[1] = n /\ p[2] = d
      BY <2>3
    <3>2. p \in DOMAIN projects /\ (p \notin late => projects[p] = Wanted(OverrideOf(n), m.projects[n], PinOf(p)))
      BY <2>2, <2>3 DEF Gathered
    <3>3. projects'[p] = IF d = 0 /\ n \in DOMAIN locks /\ projects[p] = NoRev THEN locks[n] ELSE projects[p]
      BY <1>2, <3>1, <3>2
    <3>4. QED
      BY <1>2, <3>2, <3>3 DEF Wanted, FirstOf
  <2>4. QED
    BY <2>2, <2>3 DEF m, d
<1>8. QED
  BY <1>2, <1>3, <1>4, <1>6, <1>7 DEF IInv, Working

\* Nothing but the branches of the repositories changes.
Others == <<known, tree, stack, manifests, cached, imported, projects, locks, projectOverrides, importOverrides, ret, read,
            edges, late, faults>>

LEMMA OthersKeep ==
  ASSUME IInv, UNCHANGED <<given, Others>>, tip' \in [Remotes -> Revision]
  PROVE  IInv'
<1>1. UNCHANGED Others /\ UNCHANGED given
  OBVIOUS
<1>2. /\ UNCHANGED <<given, known, tree, stack, manifests, cached, imported, projects, locks, projectOverrides,
                     importOverrides, ret, read, edges, late, faults>>
      /\ TypeOK
  BY DEF Others, IInv
<1>3. world' = world /\ mode' = mode /\ Remotes' = Remotes /\ Checkout' = Checkout /\ Call' = Call
  BY <1>2, SameWorld
<1>4. OneRevision'
  BY <1>2 DEF IInv, OneRevision
<1>5. TypeOK'
  BY <1>2, <1>3 DEF TypeOK
<1>6. \A g : Manifest(g)' = Manifest(g) /\ IsThere(g)' = IsThere(g)
  BY <1>3 DEF Manifest, IsThere, FilesAt, IsRoot
<1>7. CycleReported'
  BY <1>2 DEF IInv, CycleReported, Circular, Unrooted
<1>8. Complete'
  BY <1>2, CompleteNext DEF IInv, Complete, Followed
<1>9. ASSUME Going
      PROVE  Going'
  <2>1. RefsStay'
    BY <1>2, <1>3, <1>9 DEF Going, RefsStay, IsThere, FilesAt, IsRoot, At, IsOld
  <2>2. StackOrder' /\ Loaded' = Loaded
    BY <1>2, <1>9 DEF Going, StackOrder, Node, Loaded
  <2>3. EdgesDown' /\ NoCircle'
    BY <1>2, <1>9, <2>2 DEF Going, EdgesDown, NoCircle, Node
  <2>4. Progress'
    <3>1. \A n, p : OverrideOf(n)' = OverrideOf(n) /\ PinOf(p)' = PinOf(p)
      BY <1>2 DEF OverrideOf, PinOf
    <3>2. QED
      BY <1>2, <1>9, <2>2, <3>1, ProgressNext DEF Going, Progress, Gathered
  <2>5. InWorld'
    BY <1>2, <1>6, <1>9 DEF Going, InWorld, IsThere, FilesAt, IsRoot
  <2>6. QED
    BY <2>1, <2>2, <2>3, <2>4, <2>5 DEF Going
<1>10. QED
  BY <1>2, <1>4, <1>5, <1>7, <1>8, <1>9 DEF IInv, Working

LEMMA PushKeeps ==
  ASSUME IInv, Push
  PROVE  IInv'
<1>1. PICK r \in DOMAIN tip : tip[r] < MaxPushes /\ tip' = [tip EXCEPT ![r] = @ + 1]
  BY DEF Push
<1>2. tip' \in [Remotes -> Revision]
  BY <1>1, LoaderAssumption DEF IInv, TypeOK, Revision
<1>3. UNCHANGED <<given, Others>>
  BY DEF Push, checkouts, maps, Others
<1>4. QED
  BY <1>2, <1>3, OthersKeep

-----------------------------------------------------------------------------
(* The theorems. *)

LEMMA InitIInv == Init => IInv
<1> SUFFICES ASSUME Init
             PROVE  IInv
  OBVIOUS
<1>1. TypeOK
  BY InitTypeOK
<1>2. stack = <<>> /\ manifests = {} /\ read = {} /\ edges = {} /\ ret = "none" /\ Len(stack) = 0
  BY EmptySeq DEF Init
<1>3. RefsStay /\ StackOrder /\ EdgesDown
  BY <1>2 DEF RefsStay, StackOrder, EdgesDown
<1>4. NoCircle /\ Progress /\ InWorld
  BY <1>2 DEF NoCircle, Progress, InWorld
<1>5. QED
  BY <1>1, <1>2, <1>3, <1>4 DEF IInv, Going, OneRevision, CycleReported, Complete

LEMMA StepIInv == IInv /\ [Next]_vars => IInv'
<1> SUFFICES ASSUME IInv, [Next]_vars
             PROVE  IInv'
  OBVIOUS
<1>1. CASE Begin
  BY <1>1, BeginKeeps
<1>2. CASE Import
  <2>1. TypeOK /\ RefsStay
    BY <1>2 DEF IInv, Going, Import
  <2>2. CASE Failing /\ UNCHANGED <<given, tip>> /\ faults' \in 0..MaxFaults
    BY <2>2, FailKeeps
  <2>3. CASE \E f : Follow(f, "i") /\ (Enter(f, Advance("i")) \/ Stop("conflict"))
    BY <2>3, FollowKeeps
  <2>4. QED
    BY <1>2, <2>1, <2>2, <2>3, ImportFollows
<1>3. CASE LocalImport
  <2>1. TypeOK /\ RefsStay
    BY <1>3 DEF IInv, Going, LocalImport
  <2>2. PICK f : Follow(f, "j") /\ Enter(f, Advance("j"))
    BY <1>3, <2>1, LocalImportFollows DEF FollowAndEnter
  <2>3. QED
    BY <2>2, FollowKeeps
<1>4. CASE Collect
  <2>1. CASE Failing /\ UNCHANGED <<given, tip, faults>>
    <3>1. faults' \in 0..MaxFaults
      BY <2>1 DEF IInv, TypeOK
    <3>2. QED
      BY <2>1, <3>1, FailKeeps
  <2>2. CASE Return
    BY <1>4, <2>2, ReturnKeeps
  <2>3. QED
    BY <1>4, <2>1, <2>2, CollectReturns
<1>5. CASE Finish
  BY <1>5, FinishKeeps
<1>6. CASE Push
  BY <1>6, PushKeeps
<1>7. CASE UNCHANGED vars
  <2>1. UNCHANGED <<given, Others>> /\ tip' = tip
    BY <1>7 DEF vars, given, Others
  <2>2. QED
    BY <2>1, OthersKeep DEF IInv, TypeOK
<1>8. QED
  BY <1>1, <1>2, <1>3, <1>4, <1>5, <1>6, <1>7 DEF Next, Step, Returned

LEMMA IInvHolds == Spec => []IInv
<1>1. Init => IInv
  BY InitIInv
<1>2. IInv /\ [Next]_vars => IInv'
  BY StepIInv
<1>3. QED
  BY <1>1, <1>2, PTL DEF Spec

\* The variables have their types: above all, every file on the stack of load is read at a
\* revision, whatever the manifests say, and load returns with one of its results.
THEOREM TypeCorrect == Spec => []TypeOK
<1>1. IInv => TypeOK
  BY DEF IInv
<1>2. QED
  BY <1>1, IInvHolds, PTL

\* readManifest reads all files of a checkout at one revision, whatever the manifests import,
\* however often, and whatever is pushed while load runs.
THEOREM ReadAtOneRevision == Spec => []OneRevision
<1>1. IInv => OneRevision
  BY DEF IInv
<1>2. QED
  BY <1>1, IInvHolds, PTL

\* loadNoCycles: manifests of any number that import each other in a circle of any length do
\* not load; and what is reported as a cycle is one.
THEOREM CirclesAreReported == Spec => []CycleReported
<1>1. IInv => CycleReported
  BY DEF IInv
<1>2. QED
  BY <1>1, IInvHolds, PTL

\* load returns without an error only with all projects of all files that are imported, at
\* the revisions that overrides, imports and lockfiles say.
THEOREM SuccessIsComplete == Spec => []Complete
<1>1. IInv => Complete
  BY DEF IInv
<1>2. QED
  BY <1>1, IInvHolds, PTL
-----------------------------------------------------------------------------
(***************************************************************************)
(* Packages and their locks.                                               *)
(***************************************************************************)
\* A key is an expanded name and a version; the lock of a tag is the instance of the tag.
LocksInOrder ==
  \A k \in DOMAIN lock :
    /\ k = <<k[1], k[2]>>
    /\ k[2] # "latest" => lock[k].id = <<k[2], 0>>

\* The locks that a resolve leaves for what can be read and what is in the manifests.
Covered(l) == \A p \in Readable(manifest) : \A n \in Expand(p) : <<n, p.version>> \in DOMAIN l
InManifest(l) == \A k \in DOMAIN l : \E p \in manifest : k[1] \in Expand(p) /\ k[2] = p.version

LocksInv ==
  /\ LocksInOrder
  /\ last.cmd = "resolve" /\ last.ok /\ ~HiddenVersion => Covered(lock) /\ InManifest(lock)
  /\ last \in [cmd : {"none", "resolve", "fetch", "snapshot", "checkout"}, ok : BOOLEAN]

\* The locks a resolve keeps are of the manifests, and it resolves the others.
Sound(todo, kept) ==
  /\ todo \subseteq manifest /\ kept \subseteq DOMAIN lock
  /\ \A k \in kept : \E p \in manifest : k[1] \in Expand(p) /\ k[2] = p.version
  /\ \A p \in manifest : p \in todo \/ \A n \in Expand(p) : <<n, p.version>> \in kept

LEMMA ResolveSound ==
  ASSUME LocksInOrder, NEW full,
         NEW todo, todo = IF Partial(full) THEN UNION {Named(n) : n \in Changed} ELSE manifest,
         NEW kept, kept = IF Partial(full) THEN {k \in DOMAIN lock : k[1] \notin Changed} ELSE {}
  PROVE  Sound(todo, kept)
<1>1. CASE ~Partial(full)
  BY <1>1 DEF Sound
<1>2. CASE Partial(full)
  <2>1. todo \subseteq manifest /\ kept \subseteq DOMAIN lock
    BY <1>2 DEF Named
  <2>2. ASSUME NEW k \in kept PROVE \E p \in manifest : k[1] \in Expand(p) /\ k[2] = p.version
    <3>1. k \in DOMAIN lock /\ k[1] \in PackageNames /\ k[1] \notin Changed
      BY <1>2 DEF Partial
    <3>2. {p.version : p \in Named(k[1])} = LockedVersions(k[1])
      BY <3>1 DEF Changed
    <3>3. k[2] \in LockedVersions(k[1])
      BY <3>1 DEF LockedVersions
    <3> QED BY <3>2, <3>3 DEF Named
  <2>3. ASSUME NEW p \in manifest, p \notin todo, NEW n \in Expand(p) PROVE <<n, p.version>> \in kept
    <3>1. p \in Named(n) /\ n \in PackageNames
      BY DEF Named, PackageNames
    <3>2. n \notin Changed
      BY <1>2, <2>3, <3>1
    <3>3. p.version \in LockedVersions(n)
      BY <3>1, <3>2 DEF Changed
    <3>4. PICK k \in DOMAIN lock : k[1] = n /\ k[2] = p.version
      BY <3>3 DEF LockedVersions
    <3>5. k = <<n, p.version>>
      BY <3>4 DEF LocksInOrder
    <3> QED BY <1>2, <3>2, <3>4, <3>5
  <2> QED BY <2>1, <2>2, <2>3 DEF Sound
<1> QED BY <1>1, <1>2

\* The keys after a resolve: no package hidden, none is missing.
LEMMA KeysFound ==
  ASSUME NEW todo, NEW kept, Sound(todo, kept)
  PROVE  /\ \A p \in Readable(manifest) : \A n \in Expand(p) : <<n, p.version>> \in Found(todo) \cup kept
         /\ \A k \in Found(todo) \cup kept : \E p \in manifest : k[1] \in Expand(p) /\ k[2] = p.version
         /\ ~HiddenVersion => \A x \in Keyed(todo) : <<x[1], x[2].version>> \in Found(todo) \cup kept
<1>1. ASSUME NEW p \in Readable(manifest), NEW n \in Expand(p)
      PROVE  <<n, p.version>> \in Found(todo) \cup kept
  <2>1. p \in manifest
    BY DEF Readable
  <2>2. CASE p \in todo
    <3>1. p \in Readable(todo)
      BY <2>2 DEF Readable, Sound
    <3> QED BY <3>1 DEF Found
  <2> QED BY <2>1, <2>2 DEF Sound
<1>2. ASSUME NEW k \in Found(todo) \cup kept
      PROVE  \E p \in manifest : k[1] \in Expand(p) /\ k[2] = p.version
  <2>1. CASE k \in kept BY <2>1 DEF Sound
  <2>2. CASE k \in Found(todo)
    <3>1. PICK p \in Readable(todo) : \E n \in Expand(p) : k = <<n, p.version>>
      BY <2>2 DEF Found
    <3>2. p \in manifest
      BY DEF Readable, Sound
    <3> QED BY <3>1, <3>2
  <2> QED BY <2>1, <2>2
<1>3. ASSUME ~HiddenVersion, NEW x \in Keyed(todo) PROVE <<x[1], x[2].version>> \in Found(todo) \cup kept
  <2>1. PICK p \in Several(todo) : \E n \in Expand(p) : x = <<n, p>>
    BY DEF Keyed
  <2>2. p \in Readable(manifest)
    <3>1. PICK q \in todo, r \in todo : q.name = p.name /\ r.name = p.name /\ q.version # r.version
      BY DEF Several
    <3>2. q \in manifest /\ r \in manifest /\ p \in manifest
      BY DEF Sound, Several
    <3> QED BY <1>3, <3>1, <3>2 DEF HiddenVersion
  <2> QED BY <1>1, <2>1, <2>2
<1> QED BY <1>1, <1>2, <1>3

LEMMA ResolvedRight ==
  ASSUME LocksInOrder, NEW todo, NEW kept, Sound(todo, kept), lock' = Resolved(todo, kept)
  PROVE  /\ LocksInOrder'
         /\ ~HiddenVersion => Covered(lock') /\ InManifest(lock')
<1> DEFINE all == Found(todo) \cup kept
           locks1 == [k \in all |-> IF k \in kept THEN lock[k] ELSE [id |-> Instance(k[2]), path |-> ""]]
           for(k) == {x \in Keyed(todo) : <<x[1], x[2].version>> = k}
           named == [k \in DOMAIN locks1 |->
                       IF for(k) = {} THEN locks1[k] ELSE [id |-> locks1[k].id, path |-> (CHOOSE x \in for(k) : TRUE)[2].path]]
           lost == \E x \in Keyed(todo) : <<x[1], x[2].version>> \notin DOMAIN locks1
<1>1. lock' = IF lost THEN NoLock ELSE named
  BY DEF Resolved
<1>2. DOMAIN locks1 = all /\ DOMAIN named = all
  OBVIOUS
<1>3. ASSUME NEW k \in all PROVE k = <<k[1], k[2]>>
  <2>1. CASE k \in kept BY <2>1 DEF Sound, LocksInOrder
  <2>2. CASE k \in Found(todo) BY <2>2 DEF Found
  <2> QED BY <2>1, <2>2
<1>4. ASSUME NEW k \in all, k[2] # "latest" PROVE named[k].id = <<k[2], 0>>
  <2>1. locks1[k].id = <<k[2], 0>>
    <3>1. CASE k \in kept BY <1>4, <3>1 DEF Sound, LocksInOrder
    <3>2. CASE k \notin kept BY <1>4, <3>2 DEF Instance
    <3> QED BY <3>1, <3>2
  <2> QED BY <2>1
<1>5. LocksInOrder'
  <2>1. CASE lost BY <1>1, <2>1 DEF LocksInOrder, NoLock
  <2>2. CASE ~lost
    <3>1. lock' = named BY <1>1, <2>2
    <3> HIDE DEF named, all
    <3> QED BY <3>1, <1>2, <1>3, <1>4 DEF LocksInOrder
  <2> QED BY <2>1, <2>2
<1>6. ASSUME ~HiddenVersion PROVE Covered(lock') /\ InManifest(lock')
  <2>1. ~lost
    BY <1>2, <1>6, KeysFound
  <2>2. DOMAIN lock' = all
    BY <1>1, <1>2, <2>1
  <2> QED BY <2>2, KeysFound DEF Covered, InManifest
<1> QED BY <1>5, <1>6

\* What a fetch does, if it succeeds.
LEMMA FetchEnds ==
  ASSUME NEW cmd, NEW pinned, NEW versions, NEW usingSnapshot,
         FetchPackages(cmd, pinned, versions, usingSnapshot)
  PROVE  /\ \E ok \in BOOLEAN : Ended(cmd, ok)
         /\ last'.ok /\ pinned # {} =>
              /\ usingSnapshot \/ ~versions \/ \A x \in Mine(pinned) : ~Missing(x)
              /\ installed' = Ensured(Mine(pinned), versions, usingSnapshot)
              /\ flags' = Flagged({x[1] : x \in pinned}, {x[1] : x \in pinned})
<1>1. CASE pinned = {}
  BY <1>1 DEF FetchPackages
<1>2. CASE pinned # {} /\ Ended(cmd, FALSE)
  BY <1>2 DEF Ended
<1>3. CASE pinned # {} /\ ~Ended(cmd, FALSE)
  <2>1. /\ Ended(cmd, TRUE) /\ (usingSnapshot \/ ~versions \/ \A x \in Mine(pinned) : ~Missing(x))
        /\ installed' = Ensured(Mine(pinned), versions, usingSnapshot)
        /\ flags' = Flagged({x[1] : x \in pinned}, {x[1] : x \in pinned})
    BY <1>3, ZenonT(60) DEF FetchPackages
  <2> QED BY <2>1
<1> QED BY <1>1, <1>2, <1>3

LEMMA InitLocks == PackagesInit => LocksInv
BY DEF PackagesInit, LocksInv, LocksInOrder, NoLock

LEMMA StepLocks == LocksInv /\ [PackagesNext]_packageVars => LocksInv'
<1> SUFFICES ASSUME LocksInv, [PackagesNext]_packageVars PROVE LocksInv' OBVIOUS
<1>1. ASSUME NEW full \in BOOLEAN, NEW floating \in BOOLEAN, Resolve(full, floating) PROVE LocksInv'
  <2>1. manifest' = manifest /\ access' = access
    BY <1>1 DEF Resolve
  <2>2. HiddenVersion' = HiddenVersion /\ Readable(manifest)' = Readable(manifest)
    BY <2>1 DEF HiddenVersion, Readable
  <2>3. CASE Ended("resolve", FALSE) /\ UNCHANGED lock
    BY <2>3 DEF LocksInv, LocksInOrder, Ended
  <2>4. CASE ~(Ended("resolve", FALSE) /\ UNCHANGED lock)
    <3>1. PICK todo, kept : /\ todo = IF Partial(full) THEN UNION {Named(n) : n \in Changed} ELSE manifest
                            /\ kept = IF Partial(full) THEN {k \in DOMAIN lock : k[1] \notin Changed} ELSE {}
                            /\ lock' = Resolved(todo, kept) /\ Ended("resolve", TRUE)
      BY <1>1, <2>4 DEF Resolve
    <3>2. LocksInOrder' /\ (~HiddenVersion => Covered(lock') /\ InManifest(lock'))
      BY <3>1, ResolveSound, ResolvedRight DEF LocksInv
    <3> QED BY <2>1, <2>2, <3>1, <3>2 DEF LocksInv, Ended, Covered, InManifest
  <2> QED BY <2>3, <2>4
<1>2. CASE Fetch \/ CheckoutSnapshot
  <2>1. PICK cmd \in {"fetch", "checkout"}, ok \in BOOLEAN : last' = [cmd |-> cmd, ok |-> ok]
    BY <1>2, FetchEnds DEF Fetch, CheckoutSnapshot, Ended
  <2>2. lock' = lock
    BY <1>2 DEF Fetch, CheckoutSnapshot
  <2> QED BY <2>1, <2>2 DEF LocksInv, LocksInOrder
<1>3. CASE CreateSnapshot
  BY <1>3 DEF CreateSnapshot, Ended, LocksInv, LocksInOrder
<1>4. CASE Edit
  BY <1>4 DEF Edit, LocksInv, LocksInOrder
<1>5. CASE MoveRef \/ UNCHANGED packageVars
  BY <1>5 DEF MoveRef, packageVars, LocksInv, LocksInOrder, HiddenVersion, Readable, Covered, InManifest
<1> QED BY <1>1, <1>2, <1>3, <1>4, <1>5 DEF PackagesNext

\* Whatever the manifests, edits and earlier lockfiles: the lockfile that a resolve leaves is
\* that of the manifests, with the instance a tag is.
THEOREM LocksFitManifests == PackagesSpec => []LocksMatch
<1>1. LocksInv => LocksMatch
  BY DEF LocksInv, LocksInOrder, LocksMatch, Covered, InManifest, Instance
<1> QED BY <1>1, InitLocks, StepLocks, PTL DEF PackagesSpec

-----------------------------------------------------------------------------
\* No two packages of a manifest have one path.
PathsApart == \A m \in Manifests : \A p, q \in m : p.path = q.path => p = q

\* A package with its instances, at most one of a name.
IsPinned(x) == x = <<x[1], x[2]>> /\ \A i, j \in x[2] : i = <<i[1], i[2]>> /\ (i[1] = j[1] => i = j)
ArePinned(pinned) ==
  /\ \A x \in pinned : IsPinned(x)
  /\ \A x, y \in pinned : x[1].path = y[1].path => x = y

\* What was fetched is there, from the manifest or from the snapshot.
Installed(pinned, inst, fl) ==
  \A x \in pinned : \A i \in x[2] :
    i[1] \in ExpandOn(x[1], {Host}) /\ x[1] \in DOMAIN fl /\ fl[x[1]] =>
      x[1].path \in DOMAIN inst /\ inst[x[1].path] = i

InstalledInv ==
  /\ manifest \in Manifests
  /\ ArePinned(snapshot)
  /\ last.cmd = "fetch" /\ last.ok => Installed(WithInstances(manifest), installed, flags)
  /\ last.cmd = "checkout" /\ last.ok => Installed(snapshot, installed, flags)

LEMMA OneNameHere ==
  ASSUME NEW p, NEW n \in ExpandOn(p, {Host}) PROVE NameHere(p) = n
<1>1. \A m \in ExpandOn(p, {Host}) : m = n
  BY DEF ExpandOn
<1> QED BY <1>1 DEF NameHere

LEMMA ManifestPinned ==
  ASSUME PathsApart, manifest \in Manifests PROVE ArePinned(WithInstances(manifest))
<1>1. ASSUME NEW p \in manifest PROVE IsPinned(<<p, Instances(p)>>)
  <2> DEFINE lockedId(n) == lock[<<n, p.version>>].id
  <2>1. ASSUME NEW i \in Instances(p) PROVE i = <<i[1], i[2]>> /\ i[2] = lockedId(i[1])
    <3>1. PICK n \in Expand(p) : i = <<n, lockedId(n)>>
      BY DEF Instances
    <3> HIDE DEF lockedId
    <3> QED BY <3>1
  <2> HIDE DEF lockedId
  <2>2. ASSUME NEW i \in Instances(p), NEW j \in Instances(p)
        PROVE  i = <<i[1], i[2]>> /\ (i[1] = j[1] => i = j)
    <3>1. i = <<i[1], lockedId(i[1])>> /\ j = <<j[1], lockedId(j[1])>>
      BY <2>1
    <3> QED BY <2>1, <3>1
  <2> DEFINE x == <<p, Instances(p)>>
  <2>3. x[1] = p /\ x[2] = Instances(p)
    OBVIOUS
  <2> QED BY <2>2, <2>3 DEF IsPinned
<1>2. ASSUME NEW p \in manifest, NEW q \in manifest, p.path = q.path
      PROVE  <<p, Instances(p)>> = <<q, Instances(q)>>
  BY <1>2 DEF PathsApart
<1> QED BY <1>1, <1>2 DEF ArePinned, WithInstances

\* cipd puts what is pinned at its path.
LEMMA EnsuredRight ==
  ASSUME NEW pinned, ArePinned(pinned), NEW versions, NEW usingSnapshot,
         usingSnapshot \/ (versions /\ \A x \in Mine(pinned) : ~Missing(x)),
         NEW x \in Mine(pinned), NEW i \in x[2], i[1] \in ExpandOn(x[1], {Host})
  PROVE  LET inst == Ensured(Mine(pinned), versions, usingSnapshot) IN
         x[1].path \in DOMAIN inst /\ inst[x[1].path] = i
<1> DEFINE inst == Ensured(Mine(pinned), versions, usingSnapshot)
<1>1. x \in pinned /\ IsPinned(x)
  BY DEF Mine, ArePinned
<1>2. NameHere(x[1]) = i[1]
  BY OneNameHere
<1>3. InstanceOf(x, versions, usingSnapshot) = i[2]
  <2>1. CASE usingSnapshot
    <3>1. InstanceOf(x, versions, usingSnapshot) = Declared(x[1], x[2])
      BY <2>1 DEF InstanceOf
    <3> DEFINE of == {j \in x[2] : j[1] \in ExpandOn(x[1], {Host})}
    <3>2. i \in of OBVIOUS
    <3>3. ASSUME NEW j \in of PROVE j = i
      <4>1. j[1] = i[1] BY OneNameHere
      <4> QED BY <4>1, <1>1 DEF IsPinned
    <3>4. (CHOOSE j \in of : TRUE) = i BY <3>2, <3>3
    <3> QED BY <3>1, <3>2, <3>4 DEF Declared
  <2>2. CASE ~usingSnapshot
    <3>1. InstanceOf(x, versions, usingSnapshot) = (CHOOSE j \in x[2] : j[1] = NameHere(x[1]))[2]
      BY <2>2 DEF InstanceOf
    <3>2. \A j \in x[2] : j[1] = NameHere(x[1]) => j = i
      BY <1>1, <1>2 DEF IsPinned
    <3>3. (CHOOSE j \in x[2] : j[1] = NameHere(x[1])) = i
      BY <1>2, <3>2
    <3> QED BY <3>1, <3>3
  <2> QED BY <2>1, <2>2
<1>4. \A y \in Mine(pinned) : y[1].path = x[1].path => y = x
  BY <1>1 DEF Mine, ArePinned
<1>5. (CHOOSE y \in Mine(pinned) : y[1].path = x[1].path) = x
  BY <1>4
<1>6. x[1].path \in DOMAIN inst /\ inst[x[1].path] = <<NameHere(x[1]), InstanceOf(x, versions, usingSnapshot)>>
  BY <1>5 DEF Ensured
<1>7. i = <<i[1], i[2]>>
  BY <1>1 DEF IsPinned
<1> QED BY <1>2, <1>3, <1>6, <1>7

LEMMA FetchRight ==
  ASSUME NEW cmd, NEW pinned, ArePinned(pinned), NEW versions, NEW usingSnapshot,
         usingSnapshot \/ versions \/ \A x \in pinned : x[2] = {},
         FetchPackages(cmd, pinned, versions, usingSnapshot), last'.ok
  PROVE  Installed(pinned, installed', flags')
<1> SUFFICES ASSUME NEW x \in pinned, NEW i \in x[2], i[1] \in ExpandOn(x[1], {Host}),
                    x[1] \in DOMAIN flags', flags'[x[1]]
             PROVE  x[1].path \in DOMAIN installed' /\ installed'[x[1].path] = i
  BY DEF Installed
<1>1. pinned # {} /\ (usingSnapshot \/ versions)
  OBVIOUS
<1>2. /\ usingSnapshot \/ \A y \in Mine(pinned) : ~Missing(y)
      /\ installed' = Ensured(Mine(pinned), versions, usingSnapshot)
      /\ flags' = Flagged({y[1] : y \in pinned}, {y[1] : y \in pinned})
  <2>1. last'.ok /\ pinned # {} =>
          /\ usingSnapshot \/ ~versions \/ \A y \in Mine(pinned) : ~Missing(y)
          /\ installed' = Ensured(Mine(pinned), versions, usingSnapshot)
          /\ flags' = Flagged({y[1] : y \in pinned}, {y[1] : y \in pinned})
    BY FetchEnds
  <2> QED BY <1>1, <2>1
<1>3. x \in Mine(pinned)
  BY <1>2 DEF Mine, Flagged
<1>4. usingSnapshot \/ (versions /\ \A y \in Mine(pinned) : ~Missing(y))
  BY <1>1, <1>2
<1>5. LET inst == Ensured(Mine(pinned), versions, usingSnapshot) IN
      x[1].path \in DOMAIN inst /\ inst[x[1].path] = i
  BY <1>3, <1>4, EnsuredRight
<1> QED BY <1>2, <1>5

LEMMA StepInstalled ==
  PathsApart /\ InstalledInv /\ [PackagesNext]_packageVars => InstalledInv'
<1> SUFFICES ASSUME PathsApart, InstalledInv, [PackagesNext]_packageVars PROVE InstalledInv' OBVIOUS
<1>1. ASSUME NEW full \in BOOLEAN, NEW floating \in BOOLEAN, Resolve(full, floating) PROVE InstalledInv'
  BY <1>1 DEF Resolve, Ended, InstalledInv
<1>2. CASE Fetch
  <2>1. UNCHANGED <<manifest, access, lockfile, lock, snapshot>> /\ WithInstances(manifest)' = WithInstances(manifest)
    BY <1>2 DEF Fetch, WithInstances, Instances
  <2>2. ArePinned(WithInstances(manifest))
    BY ManifestPinned DEF InstalledInv
  <2>3. lockfile \/ \A x \in WithInstances(manifest) : x[2] = {}
    BY DEF WithInstances, Instances
  <2>4. FetchPackages("fetch", WithInstances(manifest), lockfile, FALSE)
    BY <1>2 DEF Fetch
  <2>5. \E ok \in BOOLEAN : Ended("fetch", ok)
    BY <2>4, FetchEnds
  <2>6. last'.ok => Installed(WithInstances(manifest), installed', flags')
    BY <2>2, <2>3, <2>4, FetchRight
  <2> QED BY <2>1, <2>5, <2>6 DEF InstalledInv, Ended
<1>3. CASE CheckoutSnapshot
  <2>1. UNCHANGED <<manifest, snapshot>>
    BY <1>3 DEF CheckoutSnapshot
  <2>2. FetchPackages("checkout", snapshot, FALSE, TRUE)
    BY <1>3 DEF CheckoutSnapshot
  <2>3. \E ok \in BOOLEAN : Ended("checkout", ok)
    BY <2>2, FetchEnds
  <2>4. last'.ok => Installed(snapshot, installed', flags')
    BY <2>2, FetchRight DEF InstalledInv
  <2> QED BY <2>1, <2>3, <2>4 DEF InstalledInv, Ended
<1>4. CASE CreateSnapshot
  <2>1. ArePinned(WithInstances(manifest))
    BY ManifestPinned DEF InstalledInv
  <2> QED BY <1>4, <2>1 DEF CreateSnapshot, Ended, InstalledInv
<1>5. CASE Edit
  BY <1>5 DEF Edit, InstalledInv
<1>6. CASE MoveRef \/ UNCHANGED packageVars
  <2>1. UNCHANGED <<manifest, lockfile, lock, snapshot, installed, flags, last>>
    BY <1>6 DEF MoveRef, packageVars
  <2>2. WithInstances(manifest)' = WithInstances(manifest)
    BY <2>1 DEF WithInstances, Instances
  <2> QED BY <2>1, <2>2 DEF InstalledInv
<1> QED BY <1>1, <1>2, <1>3, <1>4, <1>5, <1>6 DEF PackagesNext

\* However refs move, manifests are edited and access changes: what a fetch, or a checkout of a snapshot, has
\* put at the path of a package is the instance that the lockfile, or the snapshot, says,
\* if no two packages of a manifest have one path.
THEOREM PinsAreInstalled == PathsApart => (PackagesSpec => []PinnedInstalled)
<1> SUFFICES ASSUME PathsApart PROVE PackagesSpec => []PinnedInstalled OBVIOUS
<1>1. PackagesInit => InstalledInv
  BY DEF PackagesInit, InstalledInv, ArePinned
<1>2. InstalledInv => PinnedInstalled
  BY DEF InstalledInv, Installed, PinnedInstalled
<1> QED BY <1>1, <1>2, StepInstalled, PTL DEF PackagesSpec
==============================================================================
