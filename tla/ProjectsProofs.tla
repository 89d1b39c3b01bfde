--------------------------- MODULE ProjectsProofs ---------------------------
(* Proofs about SyncProject, SubmoduleTree and DiffCmd. *)
EXTENDS SyncProject, SubmoduleTree, DiffCmd, FiniteSetTheorems, TLAPS

-----------------------------------------------------------------------------
(* The inductive invariant. *)

Updating == cmd.name = "update"

\* What the command saw: a branch it is on, at its tip; no branch tracks itself.
Seen ==
  /\ DOMAIN seen.tip \subseteq Branches
  /\ Current # "none" => Current \in DOMAIN seen.tip /\ seen.head.at = seen.tip[Current]
  /\ \A b \in Branches : track[b] # b

\* The changes that b may get: those of the branches it tracks.
Changes(u) == IF u \in DOMAIN seen.tip THEN Range(seen.tip[u].own) ELSE {}
Gained(b) == UNION {Changes(u) : u \in Tracked(b)}

\* A branch the command has not come to, or may not move, is where it was; one that
\* tracks none keeps its changes as they are, and all keep theirs and get no others
\* but of the branches they track.
Moved ==
  Updating =>
    /\ DOMAIN tip = DOMAIN seen.tip
    /\ pc \in {"start", "merge"} => tip = seen.tip
    /\ \A b \in DOMAIN seen.tip :
         /\ b \in queue \/ b \notin MayMove => tip[b] = seen.tip[b]
         /\ Tracking(b) = "none" =>
              /\ Range(tip[b].own) = Changes(b)
              /\ seen.tip[b].base <= tip[b].base
         /\ Changes(b) \subseteq Range(tip[b].own)
         /\ Range(tip[b].own) \subseteq Changes(b) \cup Gained(b)

\* Where a command can be, and what it knows there.
Stage ==
  /\ pc = "start" =>
       /\ head = seen.head /\ tip = seen.tip
       /\ ret = "none" /\ queue = {}
  /\ pc \in {"merge", "loop", "restore", "panicked"} =>
       Updating /\ config # "noUpdate" /\ ~dirty /\ ~cmd.snapshot
  /\ pc = "merge" =>
       /\ head = seen.head /\ ret = "none" /\ queue = {}
       /\ Current # "none" /\ Tracking(Current) # "none" /\ ~cmd.all
  /\ pc = "loop" => ret = "none" /\ queue \subseteq Considered
  /\ pc = "delete" => cmd.name = "clean"
  /\ pc = "restore" \/ (pc = "done" /\ Updating) => queue = {}
  /\ pc \in {"loop", "restore"} =>
       home = IF ~cmd.all THEN "none" ELSE IF Current = "none" THEN "JIRI_HEAD" ELSE Current

\* Without -rebase-all the project stays on its branch, unless its rebase has stopped.
OnIt ==
  pc \in {"loop", "restore"} /\ ~cmd.all =>
    /\ Current # "none"
    /\ ret # "error" => head = OnBranch(Current) \/ (failed /\ midway = "stopped")

\* A branch that was to be brought forward is one of the next, or it was, unless there
\* was a failure.
Forward(b) ==
  IF Tracking(b) = "none" THEN IsAncestor(Upstream(target), tip[b])
  ELSE \E u \in Tracked(b) : Ends(u) /\ HasAllOf(tip[b], SeenAt(u))
BroughtOn ==
  Updating /\ pc \in {"loop", "restore", "done"} /\ ret # "error" /\ ~failed =>
    \A b \in MayMove : b \in queue \/ Forward(b)

\* A clean that goes on has reset the checkout, and has still to delete what there is.
CleanedUp ==
  cmd.name = "clean" =>
    /\ pc \in {"start", "delete", "done"}
    /\ pc # "start" /\ config # "noUpdate" =>
         /\ head.at = Upstream(target) /\ ~untracked
         /\ Differs => ~dirty /\ head.branch = "none"
    /\ pc = "delete" => config # "noUpdate" /\ cmd.all /\ queue = DOMAIN tip /\ ret = "none"
    /\ pc = "done" /\ ret = "nil" /\ config # "noUpdate" =>
         IF cmd.all THEN DOMAIN tip = {} ELSE tip = seen.tip

IInv ==
  TypeOK /\ Seen /\ Moved /\ Stage /\ OnIt /\ BroughtOn /\ CleanedUp /\ UpdateRestores
-----------------------------------------------------------------------------
(* Revisions. *)

\* What is kept of a sequence are all its elements but those to be left out: the places
\* of the kept elements count them off.
LEMMA WithoutRange ==
  ASSUME NEW T, NEW s \in Seq(T), NEW S
  PROVE  /\ Without(s, S) \in Seq(T)
         /\ Range(Without(s, S)) = Range(s) \ S
<1> DEFINE K == Kept(s, S)
           n == Cardinality(K)
           At(i) == {j \in K : j <= i}
           f == [i \in K |-> Cardinality(At(i))]
           Pick(k) == CHOOSE i \in K : PlaceOf(s, S, i) = k
<1>1. K \subseteq 1..Len(s) /\ K \subseteq DOMAIN s
  BY DEF Kept
<1>2. IsFiniteSet(K) /\ n \in Nat
  <2>1. Len(s) \in Int /\ K \in SUBSET (1..Len(s))
    BY <1>1
  <2>2. IsFiniteSet(1..Len(s))
    BY <2>1, FS_Interval
  <2>3. IsFiniteSet(K)
    BY <2>1, <2>2, FS_Subset
  <2> QED BY <2>3, FS_CardinalityType
<1>3. \A i \in K : IsFiniteSet(At(i)) /\ f[i] \in 1..n
  <2> SUFFICES ASSUME NEW i \in K PROVE IsFiniteSet(At(i)) /\ Cardinality(At(i)) \in 1..n
    OBVIOUS
  <2>1. At(i) \in SUBSET K
    OBVIOUS
  <2>2. IsFiniteSet(At(i)) /\ Cardinality(At(i)) <= n /\ Cardinality(At(i)) \in Nat
    BY <2>1, <1>2, FS_Subset, FS_CardinalityType
  <2>3. i \in At(i)
    BY <1>1
  <2>4. Cardinality(At(i)) # 0
    BY <2>2, <2>3, FS_EmptySet
  <2> QED BY <2>2, <2>4, <1>2
<1>4. \A i, j \in K : f[i] = f[j] => i = j
  <2>1. ASSUME NEW i \in K, NEW j \in K, i < j, f[i] = f[j] PROVE FALSE
    <3>1. At(i) \in SUBSET At(j)
      BY <2>1, <1>1
    <3>2. At(i) = At(j)
      BY <3>1, <1>3, <2>1, FS_Subset
    <3>3. j \in At(j) /\ j \notin At(i)
      BY <1>1, <2>1
    <3> QED BY <3>2, <3>3
  <2>2. \A i, j \in K : i < j \/ j < i \/ i = j
    BY <1>1
  <2> HIDE DEF f, K
  <2> QED BY <2>1, <2>2
<1>5. f \in Injection(K, 1..n)
  BY <1>3, <1>4 DEF Injection, IsInjective
<1>6. f \in Surjection(K, 1..n)
  <2>1. IsFiniteSet(1..n) /\ Cardinality(1..n) = n
    BY <1>2, FS_Interval
  <2> QED BY <1>5, <2>1, FS_Injection
<1>7. \A k \in 1..n : \E i \in K : PlaceOf(s, S, i) = k
  <2>1. \A k \in 1..n : \E i \in K : f[i] = k
    BY <1>6 DEF Surjection
  <2> QED BY <2>1 DEF PlaceOf
<1>8. \A k \in 1..n : Pick(k) \in K /\ PlaceOf(s, S, Pick(k)) = k
  BY <1>7
<1>9. Without(s, S) = [k \in 1..n |-> s[Pick(k)]]
  BY DEF Without
<1>10. \A k \in 1..n : s[Pick(k)] \in Range(s) \ S /\ s[Pick(k)] \in T
  <2>1. \A i \in K : s[i] \in Range(s) /\ s[i] \notin S /\ s[i] \in T
    BY DEF Kept, Range
  <2> HIDE DEF K, Pick, n
  <2> QED BY <2>1, <1>8
<1>11. \A i \in K : f[i] \in 1..n /\ Pick(f[i]) = i
  <2> SUFFICES ASSUME NEW i \in K PROVE f[i] \in 1..n /\ Pick(f[i]) = i
    OBVIOUS
  <2>1. f[i] \in 1..n
    BY <1>3
  <2>2. Pick(f[i]) \in K /\ f[Pick(f[i])] = f[i]
    BY <2>1, <1>8 DEF PlaceOf
  <2> QED BY <2>1, <2>2, <1>4
<1>12. \A x \in Range(s) \ S : \E k \in 1..n : s[Pick(k)] = x
  <2> SUFFICES ASSUME NEW i \in DOMAIN s, s[i] \notin S
               PROVE  \E k \in 1..n : s[Pick(k)] = s[i]
    BY DEF Range
  <2>1. i \in K
    BY DEF Kept
  <2> QED BY <2>1, <1>11
<1> HIDE DEF K, n, Pick
<1>13. Without(s, S) \in Seq(T)
  BY <1>9, <1>10, <1>2
<1>14. Range(Without(s, S)) = {s[Pick(k)] : k \in 1..n}
  BY <1>9 DEF Range
<1> QED BY <1>13, <1>14, <1>10, <1>12

LEMMA ConcatRange ==
  ASSUME NEW T, NEW s \in Seq(T), NEW t \in Seq(T)
  PROVE  s \o t \in Seq(T) /\ Range(s \o t) = Range(s) \cup Range(t)
<1>1. Range(s) \cup Range(t) \subseteq Range(s \o t)
  <2>1. \A i \in DOMAIN s : i \in DOMAIN (s \o t) /\ (s \o t)[i] = s[i]
    OBVIOUS
  <2>2. \A i \in DOMAIN t : Len(s) + i \in DOMAIN (s \o t) /\ (s \o t)[Len(s) + i] = t[i]
    OBVIOUS
  <2> QED BY <2>1, <2>2 DEF Range
<1>2. Range(s \o t) \subseteq Range(s) \cup Range(t)
  <2> SUFFICES ASSUME NEW i \in DOMAIN (s \o t) PROVE (s \o t)[i] \in Range(s) \cup Range(t)
    BY DEF Range
  <2>1. CASE i \in DOMAIN s
    BY <2>1 DEF Range
  <2>2. CASE i \notin DOMAIN s
    <3>1. i - Len(s) \in DOMAIN t /\ (s \o t)[i] = t[i - Len(s)]
      BY <2>2
    <3> QED BY <3>1 DEF Range
  <2> QED BY <2>1, <2>2
<1> QED BY <1>1, <1>2

\* A rebased branch is based where the other is, with the changes of both.
LEMMA RebasedIs ==
  ASSUME NEW x \in Revs, NEW y \in Revs
  PROVE  /\ Rebased(x, y) \in Revs
         /\ Rebased(x, y).base = y.base
         /\ Range(Rebased(x, y).own) = Range(y.own) \cup Range(x.own)
<1> DEFINE w == Without(x.own, Range(y.own))
<1>1. w \in Seq(Branches) /\ Range(w) = Range(x.own) \ Range(y.own)
  BY WithoutRange DEF Revs
<1>2. y.own \o w \in Seq(Branches) /\ Range(y.own \o w) = Range(y.own) \cup Range(w)
  BY <1>1, ConcatRange DEF Revs
<1> QED BY <1>1, <1>2 DEF Rebased, Rev, Revs

\* A revision has all that its ancestors have.
LEMMA AncestorHas ==
  ASSUME NEW x \in Revs, NEW y \in Revs, IsAncestor(x, y)
  PROVE  HasAllOf(y, x)
<1>1. CASE x.own = <<>> /\ x.base <= y.base
  BY <1>1 DEF HasAllOf, Range
<1>2. CASE x.base = y.base /\ IsPrefix(x.own, y.own)
  <2>1. x.own \in Seq(Branches) /\ y.own \in Seq(Branches) /\ x.base \in Nat
    BY SyncProjectAssumption DEF Revs
  <2>2. \A i \in DOMAIN x.own : i \in DOMAIN y.own /\ x.own[i] = y.own[i]
    BY <1>2, <2>1 DEF IsPrefix
  <2> QED BY <1>2, <2>1, <2>2 DEF HasAllOf, Range
<1> QED BY <1>1, <1>2 DEF IsAncestor
-----------------------------------------------------------------------------
(* What a step does not change. *)

LEMMA Rigid ==
  ASSUME UNCHANGED fixedVars
  PROVE  /\ Updating' = Updating /\ Current' = Current /\ Considered' = Considered
         /\ \A b : Tracking(b)' = Tracking(b)
         /\ \A b : SeenAt(b)' = SeenAt(b)
         /\ \A b : Ends(b)' = Ends(b)
         /\ \A b : Tracked(b)' = Tracked(b)
         /\ \A b : Changes(b)' = Changes(b)
         /\ \A b : Gained(b)' = Gained(b)
         /\ dirty' = dirty => MayMove' = MayMove
<1> USE DEF fixedVars
<1>1. Updating' = Updating /\ Current' = Current /\ Considered' = Considered
  BY DEF Updating, Current, Considered
<1>2. \A b : Tracking(b)' = Tracking(b)
  BY DEF Tracking
<1>3. \A b : SeenAt(b)' = SeenAt(b)
  BY DEF SeenAt
<1>4. \A b : Ends(b)' = Ends(b)
  BY <1>1, <1>2 DEF Ends
<1>5. \A b : Tracked(b)' = Tracked(b)
  BY <1>2, <1>4 DEF Tracked, Upstreams
<1>6. \A b : Changes(b)' = Changes(b)
  BY DEF Changes
<1>7. \A b : Gained(b)' = Gained(b)
  BY <1>5, <1>6 DEF Gained
<1>8. dirty' = dirty => MayMove' = MayMove
  <2> SUFFICES ASSUME dirty' = dirty PROVE MayMove' = MayMove
    OBVIOUS
  <2> DEFINE M == {b \in DOMAIN seen.tip :
                     /\ b = Current \/ cmd.all
                     /\ Tracking(b) # "none" \/ cmd.untracked}
  <2>1. M' = M
    <3>1. M' = {b \in DOMAIN seen.tip :
                  /\ b = Current' \/ cmd.all
                  /\ Tracking(b)' # "none" \/ cmd.untracked}
      OBVIOUS
    <3> QED BY <3>1, <1>1, <1>2
  <2>2. MayMove = IF config # "" \/ dirty \/ cmd.snapshot \/ cmd.name = "clean" THEN {} ELSE M
    BY DEF MayMove
  <2>3. MayMove' = IF config # "" \/ dirty \/ cmd.snapshot \/ cmd.name = "clean" THEN {} ELSE M'
    BY DEF MayMove
  <2> HIDE DEF M
  <2> QED BY <2>1, <2>2, <2>3
<1> QED BY <1>1, <1>2, <1>3, <1>4, <1>5, <1>6, <1>7, <1>8

\* What may be moved is looked at.
LEMMA MovesLookedAt ==
  ASSUME Seen
  PROVE  MayMove \subseteq Considered /\ MayMove \subseteq DOMAIN seen.tip
BY SyncProjectAssumption DEF MayMove, Considered, Seen

\* A branch the command is about to rebase is one it may move.
LEMMA WantedMoves ==
  ASSUME TypeOK, Seen, Updating, config \notin {"noUpdate", "noRebase"}, ~dirty, ~cmd.snapshot,
         NEW b \in Considered, Wanted(b)
  PROVE  b \in MayMove
<1>1. config = "" /\ cmd.name # "clean"
  BY DEF TypeOK, Updating
<1>2. b \in DOMAIN seen.tip /\ (b = Current \/ cmd.all)
  BY DEF Considered, Seen
<1>3. Tracking(b) # "none" \/ cmd.untracked
  BY DEF Wanted
<1> QED BY <1>1, <1>2, <1>3 DEF MayMove

\* The end of a chain has the changes it had, and is based where it was or later.
LEMMA RootIs ==
  ASSUME TypeOK, Seen, Moved, Updating,
         NEW b \in DOMAIN seen.tip, Tracking(b) # "none", ~IsCircular(b)
  PROVE  LET u == Root(b) IN
         /\ u \in Tracked(b) /\ Ends(u)
         /\ Now(u) \in Revs /\ SeenAt(u) \in Revs
         /\ Range(Now(u).own) = Changes(u) /\ Range(SeenAt(u).own) = Changes(u)
         /\ SeenAt(u).base <= Now(u).base
<1> DEFINE u == Root(b)
<1>1. u \in Tracked(b) /\ Ends(u)
  BY DEF IsCircular, Root
<1>2. u \in Upstreams
  BY <1>1 DEF Tracked
<1>3. CASE u = "origin"
  <2>1. Now(u) = Upstream(Top) /\ SeenAt(u) = Upstream(Top)
    BY <1>3 DEF Now, SeenAt
  <2>2. Upstream(Top) \in Revs /\ Upstream(Top).own = <<>> /\ Upstream(Top).base \in Nat
    BY SyncProjectAssumption DEF Upstream, Rev, Revs
  <2>3. Changes(u) = {}
    BY <1>3, SyncProjectAssumption DEF Changes, Seen
  <2>4. Range(<<>>) = {}
    BY DEF Range
  <2> QED BY <1>1, <2>1, <2>2, <2>3, <2>4
<1>4. CASE u \in DOMAIN seen.tip
  <2>1. u # "origin"
    BY <1>4, SyncProjectAssumption DEF Seen
  <2>2. Now(u) = tip[u] /\ SeenAt(u) = seen.tip[u]
    BY <2>1 DEF Now, SeenAt
  <2>3. tip[u] \in Revs /\ seen.tip[u] \in Revs
    BY <1>4 DEF TypeOK, Moved
  <2>4. Range(seen.tip[u].own) = Changes(u)
    BY <1>4 DEF Changes
  <2>5. Range(tip[u].own) = Changes(u) /\ seen.tip[u].base <= tip[u].base
    <3>1. CASE Tracking(u) = "none"
      BY <1>4, <3>1 DEF Moved
    <3>2. CASE u \notin Considered
      <4>1. tip[u] = seen.tip[u]
        BY <3>2, <1>4, MovesLookedAt DEF Moved
      <4>2. seen.tip[u].base \in Int
        BY <2>3, SyncProjectAssumption DEF Revs
      <4> QED BY <4>1, <4>2, <2>4
    <3> QED BY <3>1, <3>2, <1>1 DEF Ends
  <2> QED BY <1>1, <2>2, <2>3, <2>4, <2>5
<1> QED BY <1>2, <1>3, <1>4 DEF Upstreams

\* What a rebase leaves of a branch and gives to it.
LEMMA RebaseKeeps ==
  ASSUME TypeOK, Seen, Moved, Updating,
         NEW b \in DOMAIN seen.tip, tip[b] = seen.tip[b], ~IsCircular(b), Wanted(b)
  PROVE  LET x == Rebased(tip[b], Onto(b)) IN
         /\ Onto(b) \in Revs /\ x \in Revs
         /\ Tracking(b) = "none" =>
              /\ Range(x.own) = Changes(b)
              /\ seen.tip[b].base <= x.base
              /\ IsAncestor(Upstream(target), x)
         /\ Tracking(b) # "none" => \E u \in Tracked(b) : Ends(u) /\ HasAllOf(x, SeenAt(u))
         /\ Changes(b) \subseteq Range(x.own)
         /\ Range(x.own) \subseteq Changes(b) \cup Gained(b)
<1> DEFINE x == Rebased(tip[b], Onto(b))
<1>1. tip[b] \in Revs /\ Range(tip[b].own) = Changes(b)
  BY DEF TypeOK, Changes
<1>2. CASE Tracking(b) = "none"
  <2>1. Onto(b) = Upstream(target) /\ target \in 0..Top /\ Top \in Nat
    BY <1>2, SyncProjectAssumption DEF Onto, TypeOK
  <2>2. Onto(b) \in Revs /\ Onto(b).own = <<>> /\ Onto(b).base = target
    BY <2>1 DEF Upstream, Rev, Revs
  <2>3. x \in Revs /\ x.base = target /\ Range(x.own) = Range(Onto(b).own) \cup Changes(b)
    BY <2>2, <1>1, RebasedIs
  <2>4. Range(Onto(b).own) = {}
    BY <2>2 DEF Range
  <2>5. IsAncestor(Upstream(target), x)
    BY <2>1, <2>3 DEF IsAncestor, Upstream, Rev
  <2>6. seen.tip[b].base <= target
    BY <1>1, <1>2, <2>1 DEF Wanted, HasHead, IsAncestor, Upstream, Rev, Revs
  <2> QED BY <1>2, <2>2, <2>3, <2>4, <2>5, <2>6
<1>3. CASE Tracking(b) # "none"
  <2> DEFINE u == Root(b)
  <2>1. /\ u \in Tracked(b) /\ Ends(u)
        /\ Now(u) \in Revs /\ SeenAt(u) \in Revs
        /\ Range(Now(u).own) = Changes(u) /\ Range(SeenAt(u).own) = Changes(u)
        /\ SeenAt(u).base <= Now(u).base
    BY <1>3, RootIs
  <2>2. Onto(b) = Now(u)
    BY <1>3 DEF Onto
  <2> HIDE DEF u
  <2>3. x \in Revs /\ x.base = Now(u).base /\ Range(x.own) = Changes(u) \cup Changes(b)
    <3>1. /\ Onto(b) \in Revs /\ Onto(b).base = Now(u).base
          /\ Range(Onto(b).own) = Changes(u)
      BY <2>1, <2>2
    <3> QED BY <3>1, <1>1, RebasedIs
  <2>4. HasAllOf(x, SeenAt(u))
    BY <2>1, <2>3 DEF HasAllOf
  <2>5. Changes(u) \subseteq Gained(b)
    BY <2>1 DEF Gained
  <2> QED BY <1>3, <2>1, <2>2, <2>3, <2>4, <2>5
<1> QED BY <1>2, <1>3
-----------------------------------------------------------------------------
(* The invariant holds at first, and every step keeps it. *)

LEMMA InitInv == Init => IInv
<1> SUFFICES ASSUME Init PROVE IInv
  OBVIOUS
<1>1. PICK S \in SUBSET Branches :
       /\ track \in [Branches -> {"origin", "none"} \cup S]
       /\ \A b \in Branches : track[b] # b /\ (b \notin S => track[b] = "none")
       /\ tip \in [S -> Tips(S)]
       /\ \A b \in S : tip[b].own \in {<<>>, <<b>>, <<track[b], b>>}
       /\ head \in Heads(S)
  BY DEF Init
<1>2. tip \in [S -> Revs]
  <2>1. ASSUME NEW n \in Bases,
               NEW s \in {<<>>} \cup {<<b>> : b \in S} \cup (S \X S)
        PROVE  Rev(n, s) \in Revs
    <3>1. n \in 0..Top
      BY SyncProjectAssumption
    <3>2. s \in Seq(Branches)
      <4>1. CASE s = <<>>
        BY <4>1
      <4>2. CASE s \in {<<b>> : b \in S}
        BY <4>2
      <4>3. CASE s \in S \X S
        <5>1. PICK b \in S, c \in S : s = <<b, c>>
          BY <4>3
        <5>2. <<b, c>> \in Seq(Branches)
          OBVIOUS
        <5> QED BY <5>1, <5>2
      <4> QED BY <2>1, <4>1, <4>2, <4>3
    <3> QED BY <3>1, <3>2 DEF Rev, Revs
  <2> QED BY <1>1, <2>1 DEF Tips
<1>3. head \in [branch : Branches \cup {"none"}, at : Revs]
  <2>1. ASSUME NEW n \in Bases PROVE Detached(n) \in [branch : Branches \cup {"none"}, at : Revs]
    BY SyncProjectAssumption DEF Detached, Upstream, Rev, Revs
  <2>2. ASSUME NEW b \in S
        PROVE  [branch |-> b, at |-> tip[b]] \in [branch : Branches \cup {"none"}, at : Revs]
    BY <1>2
  <2> QED BY <1>1, <2>1, <2>2 DEF Heads, OnBranch
<1>4. head.branch # "none" => head.branch \in S /\ head.at = tip[head.branch]
  BY <1>1, SyncProjectAssumption DEF Heads, OnBranch, Detached
<1>5. seen.tip = tip /\ seen.head = head /\ DOMAIN tip = S
  BY <1>2 DEF Init
<1>6. TypeOK
  <2>1. tip \in [DOMAIN tip -> Revs] /\ seen.tip \in [DOMAIN seen.tip -> Revs]
    BY <1>2, <1>5
  <2>2. track \in [Branches -> {"origin", "none"} \cup Branches]
    BY <1>1
  <2>3. DOMAIN tip \subseteq Branches /\ {head, seen.head} \subseteq [branch : Branches \cup {"none"}, at : Revs]
    BY <1>3, <1>5
  <2>4. /\ dirty \in BOOLEAN /\ untracked \in BOOLEAN /\ config \in {"", "noUpdate", "noRebase"}
        /\ target \in Targets /\ cmd \in Commands /\ midway = "no" /\ failed = FALSE
        /\ pc = "start" /\ queue = {} /\ home = "none" /\ ret = "none" /\ faults = 0
    BY DEF Init
  <2> QED BY <2>1, <2>2, <2>3, <2>4 DEF TypeOK
<1>7. Seen
  BY <1>1, <1>4, <1>5 DEF Seen, Current
<1>8. Moved
  <2>1. ASSUME NEW b \in DOMAIN seen.tip PROVE seen.tip[b].base <= tip[b].base
    <3>1. tip[b].base \in Int
      BY <1>2, <1>5, SyncProjectAssumption DEF Revs
    <3> QED BY <3>1, <1>5
  <2> QED BY <2>1, <1>5 DEF Moved, Changes, Init
<1>9. Stage /\ OnIt /\ BroughtOn /\ CleanedUp /\ UpdateRestores
  BY <1>5 DEF Init, Stage, OnIt, BroughtOn, CleanedUp, UpdateRestores, Updated
<1> QED BY <1>6, <1>7, <1>8, <1>9 DEF IInv

LEMMA SeenKept == Seen /\ UNCHANGED fixedVars => Seen'
BY Rigid DEF Seen, fixedVars

\* The branches are as they were, and no more of them count as looked at.
LEMMA MovedKept ==
  ASSUME Moved, Seen, UNCHANGED fixedVars, tip' = tip, dirty' = dirty,
         pc' \notin {"start", "merge"} \/ pc \in {"start", "merge"},
         \A b \in queue' : tip[b] = seen.tip[b]
  PROVE  Moved'
<1>1. Updating' = Updating /\ MayMove' = MayMove /\ seen' = seen
  BY Rigid DEF fixedVars
<1>2. /\ \A b : Tracking(b)' = Tracking(b)
      /\ \A b : Changes(b)' = Changes(b)
      /\ \A b : Gained(b)' = Gained(b)
  BY Rigid
<1>3. ASSUME Updating, NEW b \in DOMAIN seen.tip
      PROVE  b \in queue' \/ b \notin MayMove => tip[b] = seen.tip[b]
  BY <1>3 DEF Moved
<1> QED BY <1>1, <1>2, <1>3 DEF Moved

LEMMA DetachedType ==
  \A n \in Targets : Detached(n) \in [branch : Branches \cup {"none"}, at : Revs]
<1> SUFFICES ASSUME NEW n \in Targets
             PROVE  Detached(n) \in [branch : Branches \cup {"none"}, at : Revs]
  OBVIOUS
<1>1. n \in 0..Top /\ <<>> \in Seq(Branches)
  BY SyncProjectAssumption
<1> QED BY <1>1 DEF Detached, Upstream, Rev, Revs

LEMMA StartKeeps ==
  ASSUME IInv, Start
  PROVE  IInv'
<1>1. TypeOK /\ Seen /\ Moved /\ Stage
  BY DEF IInv
<1>2. /\ UNCHANGED fixedVars /\ UNCHANGED repoVars /\ Updating /\ pc = "start"
      /\ tip = seen.tip /\ head = seen.head /\ queue = {} /\ ret = "none"
  BY <1>1 DEF Start, Stage, Updating
<1>3. /\ Updating' = Updating /\ Current' = Current /\ Considered' = Considered /\ MayMove' = MayMove
      /\ \A b : Tracking(b)' = Tracking(b)
  BY <1>2, Rigid DEF repoVars
<1>4. Considered \subseteq DOMAIN seen.tip
  BY <1>1 DEF Considered, Seen
<1>5. TypeOK'
  <2>1. home' \in Branches \cup {"JIRI_HEAD", "none"}
    BY <1>1, <1>4 DEF Start, Loop, Return, TypeOK, Seen
  <2>2. queue' \subseteq Branches
    BY <1>1, <1>4 DEF Start, Loop, Return, TypeOK, Seen
  <2>3. pc' \in {"merge", "loop", "done"} /\ ret' \in {"none", "nil"} /\ failed' \in BOOLEAN
        /\ midway' = midway /\ faults' = faults
    BY <1>1, <1>2 DEF Start, Loop, Return, TypeOK
  <2> QED BY <1>1, <1>2, <2>1, <2>2, <2>3 DEF TypeOK, fixedVars, repoVars
<1>6. Seen'
  BY <1>1, <1>2, SeenKept
<1>7. Moved'
  BY <1>1, <1>2, MovedKept DEF repoVars
<1>8. Stage'
  BY <1>1, <1>2, <1>3 DEF Stage, Start, Loop, Return, Updating, fixedVars, repoVars
<1>9. OnIt'
  <2>1. Current # "none" => head = OnBranch(Current)
    BY <1>1, <1>2 DEF Seen, OnBranch, TypeOK, Current
  <2> QED BY <1>1, <1>2, <1>3, <2>1 DEF OnIt, OnBranch, Start, Loop, Return, fixedVars, repoVars
<1>10. BroughtOn'
  <2>1. CASE pc' = "loop"
    <3>1. queue' = Considered
      BY <1>2, <2>1 DEF Start, Loop, Return
    <3> QED BY <1>1, <1>3, <3>1, MovesLookedAt DEF BroughtOn
  <2>2. CASE pc' # "loop"
    <3>1. pc' = "merge" \/ MayMove = {}
      BY <1>2, <2>2 DEF Start, Loop, Return, MayMove
    <3> QED BY <1>3, <2>2, <3>1 DEF BroughtOn
  <2> QED BY <2>1, <2>2
<1>11. CleanedUp'
  BY <1>2, <1>3 DEF CleanedUp, Updating, fixedVars
<1>12. UpdateRestores'
  BY <1>2 DEF UpdateRestores, Updated, Start, Loop, Return, fixedVars, repoVars
<1> QED BY <1>5, <1>6, <1>7, <1>8, <1>9, <1>10, <1>11, <1>12 DEF IInv

LEMMA CheckoutHeadKeeps ==
  ASSUME IInv, CheckoutHead
  PROVE  IInv'
<1>1. TypeOK /\ Seen /\ Moved /\ Stage
  BY DEF IInv
<1>2. /\ UNCHANGED fixedVars /\ tip' = tip /\ dirty' = dirty /\ untracked' = untracked
      /\ Updating /\ pc = "start" /\ tip = seen.tip /\ queue = {} /\ ret = "none"
      /\ config # "noUpdate" /\ ~dirty /\ (Current = "none" \/ cmd.snapshot)
  BY <1>1 DEF CheckoutHead, Stage, Updating
<1>3. /\ Updating' = Updating /\ Current' = Current /\ Considered' = Considered /\ MayMove' = MayMove
      /\ \A b : Tracking(b)' = Tracking(b)
  BY <1>2, Rigid
<1>4. Considered \subseteq DOMAIN seen.tip
  BY <1>1 DEF Considered, Seen
<1>5. \/ pc' = "done" /\ ret' = "nil" /\ queue' = queue /\ home' = home /\ (cmd.snapshot \/ ~cmd.all)
      \/ pc' = "loop" /\ ret' = ret /\ queue' = Considered /\ home' = "JIRI_HEAD"
         /\ ~cmd.snapshot /\ cmd.all
  BY DEF CheckoutHead, Return, Loop
<1>6. (head' = Detached(target) /\ failed' = failed) \/ (head' = head /\ failed' = TRUE)
  BY DEF CheckoutHead
<1>7. TypeOK'
  <2>1. Detached(target) \in [branch : Branches \cup {"none"}, at : Revs]
    BY <1>1, DetachedType DEF TypeOK
  <2>2. midway' = midway /\ faults' = faults
    BY DEF CheckoutHead, Return, Loop
  <2>3. queue' \subseteq Branches /\ pc' \in {"done", "loop"} /\ ret' \in {"none", "nil"}
        /\ home' \in Branches \cup {"JIRI_HEAD", "none"}
    BY <1>1, <1>2, <1>4, <1>5 DEF TypeOK, Seen
  <2>4. {head', seen.head} \subseteq [branch : Branches \cup {"none"}, at : Revs] /\ failed' \in BOOLEAN
    BY <1>1, <1>6, <2>1 DEF TypeOK
  <2> QED BY <1>1, <1>2, <2>2, <2>3, <2>4 DEF TypeOK, fixedVars
<1>8. Seen'
  BY <1>1, <1>2, SeenKept
<1>9. Moved'
  BY <1>1, <1>2, <1>5, MovedKept
<1>10. Stage'
  BY <1>2, <1>3, <1>5 DEF Stage, fixedVars
<1>11. OnIt'
  BY <1>2, <1>3, <1>5 DEF OnIt, fixedVars
<1>12. BroughtOn'
  <2>1. CASE pc' = "loop"
    BY <2>1, <1>1, <1>3, <1>5, MovesLookedAt DEF BroughtOn
  <2>2. CASE pc' = "done"
    <3>1. MayMove = {}
      <4>1. cmd.snapshot \/ (~cmd.all /\ Current \notin DOMAIN seen.tip)
        BY <1>1, <1>2, <1>5, <2>2, SyncProjectAssumption DEF Seen
      <4> QED BY <4>1 DEF MayMove
    <3> QED BY <1>3, <3>1 DEF BroughtOn
  <2> QED BY <2>1, <2>2, <1>5
<1>13. CleanedUp'
  BY <1>2, <1>3 DEF CleanedUp, Updating, fixedVars
<1>14. UpdateRestores'
  BY <1>2, <1>3, <1>5, <1>6 DEF UpdateRestores, Updated, Detached, fixedVars
<1> QED BY <1>7, <1>8, <1>9, <1>10, <1>11, <1>12, <1>13, <1>14 DEF IInv

LEMMA MergeKeeps ==
  ASSUME IInv, Merge
  PROVE  IInv'
<1> DEFINE c == Current
           u == Tracking(c)
           mine == tip[c]
<1>1. TypeOK /\ Seen /\ Moved /\ Stage
  BY DEF IInv
<1>2. /\ UNCHANGED fixedVars /\ dirty' = dirty /\ untracked' = untracked
      /\ pc = "merge" /\ pc' = "done" /\ ret' = "nil" /\ queue' = queue /\ home' = home
      /\ midway' = midway /\ faults' = faults
      /\ Updating /\ config # "noUpdate" /\ ~dirty /\ ~cmd.snapshot /\ ~cmd.all
      /\ tip = seen.tip /\ head = seen.head /\ queue = {} /\ c # "none" /\ u # "none"
  BY <1>1 DEF Merge, Stage, Moved, Return
<1>3. /\ Updating' = Updating /\ Current' = Current /\ Considered' = Considered /\ MayMove' = MayMove
      /\ \A b : Tracking(b)' = Tracking(b)
      /\ \A b : SeenAt(b)' = SeenAt(b)
      /\ \A b : Ends(b)' = Ends(b)
      /\ \A b : Tracked(b)' = Tracked(b)
      /\ \A b : Changes(b)' = Changes(b)
      /\ \A b : Gained(b)' = Gained(b)
  BY <1>2, Rigid
<1>4. c \in DOMAIN seen.tip /\ c \in Branches /\ head = OnBranch(c)
  BY <1>1, <1>2 DEF Seen, TypeOK, OnBranch, Current
<1>5. Considered = {c}
  BY <1>2 DEF Considered
<1>6. u \in Upstreams /\ u # c /\ Ends(u) /\ u \in Tracked(c)
  <2>1. u \in Upstreams
    BY <1>2 DEF Tracking, Upstreams
  <2>2. u # c
    BY <1>1, <1>2, <1>4 DEF Tracking, Seen
  <2>3. Ends(u)
    BY <2>2, <1>5 DEF Ends
  <2> QED BY <1>2, <2>1, <2>2, <2>3 DEF Tracked
<1>7. Now(u) = SeenAt(u) /\ Now(u) \in Revs /\ Range(Now(u).own) \subseteq Gained(c)
  <2>1. CASE u = "origin"
    <3>1. Now(u) = Upstream(Top) /\ SeenAt(u) = Upstream(Top)
      BY <2>1 DEF Now, SeenAt
    <3>2. Upstream(Top) \in Revs /\ Range(Upstream(Top).own) = {}
      BY SyncProjectAssumption DEF Upstream, Rev, Revs, Range
    <3> QED BY <3>1, <3>2
  <2>2. CASE u # "origin"
    <3>1. u \in DOMAIN seen.tip
      BY <1>6, <2>2 DEF Upstreams
    <3>2. Now(u) = seen.tip[u] /\ SeenAt(u) = seen.tip[u]
      BY <1>2, <2>2 DEF Now, SeenAt
    <3>3. seen.tip[u] \in Revs
      BY <3>1, <1>1 DEF TypeOK
    <3>4. Changes(u) = Range(seen.tip[u].own) /\ Changes(u) \subseteq Gained(c)
      BY <3>1, <1>6 DEF Changes, Gained
    <3> QED BY <3>2, <3>3, <3>4
  <2> QED BY <2>1, <2>2
<1>8. mine \in Revs /\ mine = seen.tip[c] /\ Range(mine.own) = Changes(c)
  BY <1>1, <1>2, <1>4 DEF TypeOK, Changes
<1> DEFINE Stay == tip' = tip /\ head' = head
           Go == /\ tip' = [tip EXCEPT ![c] = Now(u)]
                 /\ head' = [branch |-> c, at |-> Now(u)]
                 /\ config # "noRebase" /\ HasAllOf(Now(u), mine) /\ failed' = failed
<1>9. Go \/ (Stay /\ failed' \in BOOLEAN)
  BY <1>1, <1>7, <1>8, AncestorHas DEF Merge, TypeOK
<1>10. Stay /\ ~failed' => config = "noRebase" \/ HasAllOf(mine, SeenAt(u))
  <2>1. HasAllOf(mine, mine)
    <3>1. mine.base \in Int
      BY <1>8, SyncProjectAssumption DEF Revs
    <3> QED BY <3>1 DEF HasAllOf
  <2>2. ASSUME Stay, ~failed', config # "noRebase", SeenAt(u) # mine
        PROVE  HasAllOf(mine, SeenAt(u))
    <3>1. tip' # [tip EXCEPT ![c] = Now(u)]
      BY <2>2, <1>1, <1>2, <1>4, <1>7 DEF TypeOK
    <3>2. IsAncestor(Now(u), mine)
      BY <2>2, <3>1, <1>8 DEF Merge
    <3> QED BY <3>2, <1>7, <1>8, AncestorHas
  <2> QED BY <2>1, <2>2
<1>11. Go => /\ tip' \in [DOMAIN tip -> Revs] /\ head' \in [branch : Branches \cup {"none"}, at : Revs]
             /\ tip'[c] = Now(u) /\ \A b \in DOMAIN tip : b # c => tip'[b] = tip[b]
  <2>1. tip \in [DOMAIN tip -> Revs] /\ c \in DOMAIN tip /\ c \in Branches /\ Now(u) \in Revs
    BY <1>1, <1>2, <1>4, <1>7 DEF TypeOK
  <2> HIDE DEF c, u
  <2> QED BY <2>1
<1>12. Go => c \in MayMove
  <2>1. config = "" \/ config = "noRebase"
    BY <1>1, <1>2 DEF TypeOK
  <2> QED BY <2>1, <1>2, <1>4 DEF MayMove, Updating
<1>13. Range(mine.own) \subseteq Range(Now(u).own) \/ ~Go
  BY DEF HasAllOf
<1> HIDE DEF c, u, mine, Stay, Go
<1>14. TypeOK'
  <2>1. tip' \in [DOMAIN tip' -> Revs] /\ DOMAIN tip' = DOMAIN tip
        /\ head' \in [branch : Branches \cup {"none"}, at : Revs] /\ failed' \in BOOLEAN
    BY <1>1, <1>9, <1>11 DEF TypeOK, Stay, Go
  <2> QED BY <2>1, <1>1, <1>2 DEF TypeOK, fixedVars
<1>15. Seen'
  BY <1>1, <1>2, SeenKept
<1>16. Moved'
  <2>1. CASE Stay
    BY <2>1, <1>1, <1>2, MovedKept DEF Stay
  <2>2. CASE Go
    <3>1. DOMAIN tip' = DOMAIN seen.tip
      BY <1>2, <1>11, <2>2
    <3>2. ASSUME NEW b \in DOMAIN seen.tip
          PROVE  /\ b \notin MayMove => tip'[b] = seen.tip[b]
                 /\ Tracking(b) = "none" =>
                      /\ Range(tip'[b].own) = Changes(b)
                      /\ seen.tip[b].base <= tip'[b].base
                 /\ Changes(b) \subseteq Range(tip'[b].own)
                 /\ Range(tip'[b].own) \subseteq Changes(b) \cup Gained(b)
      <4>1. CASE b = c
        <5>1. tip'[b] = Now(u) /\ Tracking(b) # "none" /\ b \in MayMove
          BY <4>1, <1>2, <1>11, <1>12, <2>2 DEF u
        <5> QED BY <4>1, <5>1, <1>7, <1>8, <1>13, <2>2
      <4>2. CASE b # c
        <5>1. tip'[b] = tip[b]
          BY <4>2, <1>2, <1>11, <2>2
        <5> QED BY <5>1, <1>1, <1>2 DEF Moved
      <4> QED BY <4>1, <4>2
    <3> QED BY <1>2, <1>3, <3>1, <3>2 DEF Moved, fixedVars
  <2> QED BY <2>1, <2>2, <1>9
<1>17. Stage'
  BY <1>2, <1>3 DEF Stage
<1>18. OnIt'
  BY <1>2 DEF OnIt
<1>19. BroughtOn'
  <2> SUFFICES ASSUME ~failed', NEW b \in MayMove
               PROVE  Forward(b)'
    BY <1>3 DEF BroughtOn
  <2>1. config = "" /\ b = c
    BY <1>2 DEF MayMove, c
  <2>2. HasAllOf(tip'[c], SeenAt(u))
    <3>1. CASE Stay
      BY <3>1, <1>10, <2>1 DEF Stay, mine
    <3>2. CASE Go
      <4>1. Now(u).base \in Int
        BY <1>7, SyncProjectAssumption DEF Revs
      <4> QED BY <3>2, <4>1, <1>7, <1>11 DEF HasAllOf
    <3> QED BY <3>1, <3>2, <1>9
  <2> QED BY <2>1, <2>2, <1>2, <1>3, <1>6 DEF Forward, HasAllOf, u
<1>20. CleanedUp'
  BY <1>2, <1>3 DEF CleanedUp, Updating, fixedVars
<1>21. UpdateRestores'
  <2>1. head' = [branch |-> c, at |-> tip'[c]]
    BY <1>4, <1>9, <1>11 DEF Stay, Go, OnBranch
  <2> QED BY <2>1, <1>2, <1>3 DEF UpdateRestores, Updated, OnBranch, fixedVars, c
<1> QED BY <1>14, <1>15, <1>16, <1>17, <1>18, <1>19, <1>20, <1>21 DEF IInv

\* A step of the loop leaves the branch as it is or rebases it; it goes on or ends.
LEMMA BranchKeeps ==
  ASSUME IInv, NEW b \in Branches, Branch(b)
  PROVE  IInv'
<1>1. TypeOK /\ Seen /\ Moved /\ Stage /\ OnIt /\ BroughtOn
  BY DEF IInv
<1>2. /\ UNCHANGED fixedVars /\ dirty' = dirty /\ untracked' = untracked
      /\ pc = "loop" /\ ret = "none" /\ b \in queue /\ home' = home
      /\ Updating /\ config # "noUpdate" /\ ~dirty /\ ~cmd.snapshot
      /\ queue \subseteq Considered
  BY <1>1 DEF Branch, IsFirst, Stage, TryRebase, Next1, EndLoop
<1>3. /\ Updating' = Updating /\ Current' = Current /\ Considered' = Considered /\ MayMove' = MayMove
      /\ \A c : Tracking(c)' = Tracking(c)
      /\ \A c : SeenAt(c)' = SeenAt(c)
      /\ \A c : Ends(c)' = Ends(c)
      /\ \A c : Tracked(c)' = Tracked(c)
      /\ \A c : Changes(c)' = Changes(c)
      /\ \A c : Gained(c)' = Gained(c)
  BY <1>2, Rigid
<1>4. b \in Considered /\ b \in DOMAIN seen.tip /\ DOMAIN tip = DOMAIN seen.tip /\ tip[b] = seen.tip[b]
  BY <1>1, <1>2 DEF Considered, Seen, Moved
<1> DEFINE x == Rebased(tip[b], Onto(b))
           On == pc' = "loop" /\ ret' = "none" /\ queue' = queue \ {b}
           Off == pc' = "restore" /\ queue' = {}
           Stays == tip' = tip /\ (head' = head \/ head' = OnBranch(b))
           Goes == /\ ~IsCircular(b) /\ Wanted(b) /\ config # "noRebase"
                   /\ tip' = [tip EXCEPT ![b] = x] /\ head' = [branch |-> b, at |-> x]
<1>5. /\ failed' \in BOOLEAN /\ midway' \in {"no", "stopped", "stuck"} /\ faults' \in Nat
      /\ \/ /\ On /\ Stays /\ midway' = midway
            /\ failed' = TRUE \/ (failed' = failed /\ ~IsCircular(b) /\ ~Wanted(b))
         \/ Off /\ Stays /\ ret' = "nil" /\ config = "noRebase" /\ midway' = midway /\ failed' = failed
         \/ On /\ Goes /\ failed' = failed
         \/ /\ tip' = tip /\ head' = [branch |-> "none", at |-> Onto(b)]
            /\ ~IsCircular(b) /\ Wanted(b)
            /\ (Off /\ ret' = "error") \/ (On /\ failed' = TRUE /\ midway' = "stopped")
  <2>1. failed \in BOOLEAN /\ midway \in {"no", "stopped", "stuck"} /\ faults \in Nat
    BY <1>1 DEF TypeOK
  <2>2. CASE IsCircular(b) /\ failed' = TRUE /\ Next1(b) /\ UNCHANGED <<tip, head>>
    BY <2>1, <2>2, <1>2 DEF Next1
  <2>3. CASE ~IsCircular(b) /\ ~Wanted(b) /\ Next1(b) /\ UNCHANGED <<tip, head, failed>>
    BY <2>1, <2>3, <1>2 DEF Next1
  <2>4. CASE /\ config = "noRebase"
             /\ EndLoop("nil") /\ UNCHANGED <<tip, head, midway, failed>>
    BY <2>1, <2>4 DEF EndLoop
  <2>5. CASE ~IsCircular(b) /\ Wanted(b) /\ config # "noRebase" /\ TryRebase(b, Onto(b))
    <3>1. CASE RebaseOn(b, Onto(b)) /\ Next1(b) /\ UNCHANGED failed
      BY <2>1, <2>5, <3>1, <1>2 DEF RebaseOn, Next1
    <3>2. CASE failed' = TRUE /\ Next1(b) /\ UNCHANGED <<tip, head>>
      BY <2>1, <3>2, <1>2 DEF Next1
    <3>3. CASE head' = OnBranch(b) /\ failed' = TRUE /\ Next1(b) /\ UNCHANGED tip
      BY <2>1, <3>3, <1>2 DEF Next1
    <3>4. CASE /\ faults' = faults + 1
               /\ StopAt(Onto(b)) /\ midway' = "stuck"
               /\ pc' = "restore" /\ ret' = "error" /\ queue' = {}
               /\ UNCHANGED <<home, failed>>
      BY <2>1, <2>5, <3>4 DEF StopAt
    <3>5. CASE /\ StopAt(Onto(b)) /\ midway' = "stopped"
               /\ failed' = TRUE /\ queue' = queue \ {b}
               /\ UNCHANGED <<pc, home, ret, faults>>
      BY <2>1, <2>5, <3>5, <1>2 DEF StopAt
    <3> QED BY <2>5, <3>1, <3>2, <3>3, <3>4, <3>5 DEF TryRebase
  <2> QED BY <2>2, <2>3, <2>4, <2>5 DEF Branch
<1>6. ~IsCircular(b) /\ Wanted(b) =>
         /\ Onto(b) \in Revs /\ x \in Revs
         /\ Tracking(b) = "none" =>
              /\ Range(x.own) = Changes(b)
              /\ seen.tip[b].base <= x.base
              /\ IsAncestor(Upstream(target), x)
         /\ Tracking(b) # "none" => \E u \in Tracked(b) : Ends(u) /\ HasAllOf(x, SeenAt(u))
         /\ Changes(b) \subseteq Range(x.own)
         /\ Range(x.own) \subseteq Changes(b) \cup Gained(b)
  BY <1>1, <1>2, <1>4, RebaseKeeps
<1>7. Goes => /\ tip' \in [DOMAIN tip -> Revs] /\ tip'[b] = x
              /\ \A c \in DOMAIN tip : c # b => tip'[c] = tip[c]
  <2>1. tip \in [DOMAIN tip -> Revs] /\ b \in DOMAIN tip
    BY <1>1, <1>4 DEF TypeOK
  <2>2. Goes => x \in Revs
    BY <1>6
  <2> HIDE DEF x
  <2> QED BY <2>1, <2>2
<1>8. Goes => b \in MayMove
  BY <1>1, <1>2, <1>4, WantedMoves
<1>9. OnBranch(b) \in [branch : Branches \cup {"none"}, at : Revs] /\ tip[b] \in Revs
  BY <1>1, <1>4 DEF OnBranch, TypeOK
<1> HIDE DEF x
<1>10. TypeOK'
  <2>1. tip' \in [DOMAIN tip' -> Revs] /\ DOMAIN tip' = DOMAIN tip
    BY <1>1, <1>5, <1>7 DEF TypeOK
  <2>2. head' \in [branch : Branches \cup {"none"}, at : Revs]
    <3>1. head \in [branch : Branches \cup {"none"}, at : Revs]
      BY <1>1 DEF TypeOK
    <3>2. Goes => head' \in [branch : Branches \cup {"none"}, at : Revs]
      BY <1>6
    <3>3. ~IsCircular(b) /\ Wanted(b) =>
             [branch |-> "none", at |-> Onto(b)] \in [branch : Branches \cup {"none"}, at : Revs]
      BY <1>6
    <3> QED BY <1>5, <1>9, <3>1, <3>2, <3>3
  <2>3. queue' \subseteq Branches /\ pc' \in {"loop", "restore"} /\ ret' \in {"none", "nil", "error"}
    BY <1>1, <1>5 DEF TypeOK
  <2> QED BY <2>1, <2>2, <2>3, <1>1, <1>2, <1>5 DEF TypeOK, fixedVars
<1>11. Seen'
  BY <1>1, <1>2, SeenKept
<1>12. Moved'
  <2>1. CASE tip' = tip
    <3>1. queue' \subseteq queue /\ pc' \in {"loop", "restore"}
      BY <1>5
    <3>2. \A c \in queue' : tip[c] = seen.tip[c]
      BY <3>1, <1>1, <1>2, <1>4 DEF Moved, Considered, Seen
    <3> QED BY <2>1, <3>1, <3>2, <1>1, <1>2, MovedKept
  <2>2. CASE On /\ Goes
    <3>1. DOMAIN tip' = DOMAIN seen.tip
      BY <1>4, <1>7, <2>2
    <3>2. ASSUME NEW c \in DOMAIN seen.tip
          PROVE  /\ c \in queue' \/ c \notin MayMove => tip'[c] = seen.tip[c]
                 /\ Tracking(c) = "none" =>
                      /\ Range(tip'[c].own) = Changes(c)
                      /\ seen.tip[c].base <= tip'[c].base
                 /\ Changes(c) \subseteq Range(tip'[c].own)
                 /\ Range(tip'[c].own) \subseteq Changes(c) \cup Gained(c)
      <4>1. CASE c = b
        <5>1. tip'[c] = x /\ c \notin queue' /\ c \in MayMove
          BY <4>1, <1>7, <1>8, <2>2
        <5> QED BY <4>1, <5>1, <1>6, <2>2
      <4>2. CASE c # b
        <5>1. tip'[c] = tip[c] /\ (c \in queue' => c \in queue)
          BY <4>2, <1>4, <1>7, <2>2
        <5> QED BY <5>1, <1>1, <1>2 DEF Moved
      <4> QED BY <4>1, <4>2
    <3> QED BY <1>2, <1>3, <2>2, <3>1, <3>2 DEF Moved, fixedVars
  <2> QED BY <2>1, <2>2, <1>5
<1>13. Stage'
  BY <1>1, <1>2, <1>3, <1>5 DEF Stage, fixedVars
<1>14. OnIt'
  <2> SUFFICES ASSUME ~cmd.all
               PROVE  /\ Current # "none"
                      /\ ret' # "error" => \/ head' = [branch |-> Current, at |-> tip'[Current]]
                                          \/ (failed' /\ midway' = "stopped")
    BY <1>2, <1>3 DEF OnIt, OnBranch, fixedVars
  <2>1. /\ Current # "none" /\ b = Current
        /\ head = OnBranch(Current) \/ (failed /\ midway = "stopped")
    BY <1>1, <1>2, <1>4 DEF OnIt, Considered
  <2> QED BY <2>1, <1>5, <1>7 DEF OnBranch
<1>15. BroughtOn'
  <2> SUFFICES ASSUME ret' # "error", ~failed', NEW c \in MayMove
               PROVE  c \in queue' \/ Forward(c)'
    BY <1>3 DEF BroughtOn
  <2>1. config = "" /\ c \in DOMAIN seen.tip
    BY DEF MayMove
  <2>2. CASE On /\ Stays /\ failed' = failed /\ ~IsCircular(b) /\ ~Wanted(b)
    <3>1. CASE c = b
      <4>1. CASE Tracking(b) = "none"
        <5>1. IsAncestor(Upstream(target), tip[b])
          BY <4>1, <2>2, <1>4, <3>1, <1>2 DEF Wanted, HasHead, MayMove
        <5> QED BY <5>1, <4>1, <3>1, <2>2, <1>2, <1>3 DEF Forward, fixedVars, IsAncestor, Upstream, Rev
      <4>2. CASE Tracking(b) # "none"
        <5>1. Root(b) \in Tracked(b) /\ Ends(Root(b)) /\ SeenAt(Root(b)) = tip[b]
          BY <4>2, <2>2, <1>1, <1>2, <1>4, RootIs DEF Wanted
        <5>2. HasAllOf(tip[b], tip[b])
          <6>1. tip[b].base \in Int
            BY <1>9, SyncProjectAssumption DEF Revs
          <6> QED BY <6>1 DEF HasAllOf
        <5> QED BY <5>1, <5>2, <4>2, <3>1, <2>2, <1>3 DEF Forward, HasAllOf
      <4> QED BY <4>1, <4>2
    <3>2. CASE c # b
      <4>1. c \in queue \/ Forward(c)
        BY <1>1, <1>2, <2>2 DEF BroughtOn
      <4> QED BY <4>1, <3>2, <2>2, <1>2, <1>3
             DEF Forward, HasAllOf, fixedVars, IsAncestor, Upstream, Rev
    <3> QED BY <3>1, <3>2
  <2>3. CASE On /\ Goes /\ failed' = failed
    <3>1. CASE c = b
      BY <3>1, <2>3, <1>2, <1>3, <1>6, <1>7
         DEF Forward, HasAllOf, fixedVars, IsAncestor, Upstream, Rev
    <3>2. CASE c # b
      <4>1. (c \in queue \/ Forward(c)) /\ tip'[c] = tip[c]
        BY <1>1, <1>2, <1>4, <1>7, <2>1, <2>3, <3>2 DEF BroughtOn
      <4> QED BY <4>1, <3>2, <2>3, <1>2, <1>3
             DEF Forward, HasAllOf, fixedVars, IsAncestor, Upstream, Rev
    <3> QED BY <3>1, <3>2
  <2> QED BY <2>1, <2>2, <2>3, <1>5
<1>16. CleanedUp' /\ UpdateRestores'
  BY <1>2, <1>3, <1>5 DEF CleanedUp, UpdateRestores, Updating, Updated, fixedVars
<1> QED BY <1>10, <1>11, <1>12, <1>13, <1>14, <1>15, <1>16 DEF IInv

LEMMA LoopEndsKeeps ==
  ASSUME IInv, LoopEnds
  PROVE  IInv'
<1>1. TypeOK /\ Seen /\ Moved /\ Stage /\ OnIt /\ BroughtOn
  BY DEF IInv
<1>2. /\ UNCHANGED fixedVars /\ UNCHANGED repoVars /\ UNCHANGED <<midway, failed, home, faults>>
      /\ pc = "loop" /\ pc' = "restore" /\ ret = "none" /\ ret' = "nil" /\ queue = {} /\ queue' = {}
      /\ Updating /\ config # "noUpdate" /\ ~dirty /\ ~cmd.snapshot
  BY <1>1 DEF LoopEnds, EndLoop, Stage
<1>3. /\ Updating' = Updating /\ Current' = Current /\ MayMove' = MayMove
      /\ \A c : Tracking(c)' = Tracking(c)
      /\ \A c : SeenAt(c)' = SeenAt(c)
      /\ \A c : Ends(c)' = Ends(c)
      /\ \A c : Tracked(c)' = Tracked(c)
  BY <1>2, Rigid DEF repoVars
<1>4. TypeOK'
  BY <1>1, <1>2 DEF TypeOK, fixedVars, repoVars
<1>5. Seen'
  BY <1>1, <1>2, SeenKept
<1>6. Moved'
  BY <1>1, <1>2, MovedKept DEF repoVars
<1>7. Stage'
  BY <1>1, <1>2, <1>3 DEF Stage, fixedVars, repoVars
<1>8. OnIt'
  BY <1>1, <1>2, <1>3 DEF OnIt, OnBranch, fixedVars, repoVars
<1>9. BroughtOn'
  BY <1>1, <1>2, <1>3
     DEF BroughtOn, Forward, HasAllOf, IsAncestor, Upstream, Rev, fixedVars, repoVars
<1>10. CleanedUp' /\ UpdateRestores'
  BY <1>2, <1>3 DEF CleanedUp, UpdateRestores, Updating, Updated, fixedVars
<1> QED BY <1>4, <1>5, <1>6, <1>7, <1>8, <1>9, <1>10 DEF IInv

LEMMA RestoreKeeps ==
  ASSUME IInv, Restore
  PROVE  IInv'
<1>1. TypeOK /\ Seen /\ Moved /\ Stage /\ OnIt /\ BroughtOn
  BY DEF IInv
<1>2. /\ UNCHANGED fixedVars /\ UNCHANGED <<tip, dirty, untracked, queue, home, midway, failed, ret, faults>>
      /\ pc = "restore" /\ pc' \in {"done", "panicked"} /\ queue = {}
      /\ Updating /\ config # "noUpdate" /\ ~dirty /\ ~cmd.snapshot
  BY <1>1 DEF Restore, Stage
<1>3. /\ Updating' = Updating /\ Current' = Current /\ MayMove' = MayMove
      /\ \A c : Tracking(c)' = Tracking(c)
      /\ \A c : SeenAt(c)' = SeenAt(c)
      /\ \A c : Ends(c)' = Ends(c)
      /\ \A c : Tracked(c)' = Tracked(c)
  BY <1>2, Rigid
<1>4. /\ home = IF ~cmd.all THEN "none" ELSE IF Current = "none" THEN "JIRI_HEAD" ELSE Current
      /\ Current # "none" => Current \in DOMAIN tip /\ Current \in Branches /\ Current # "JIRI_HEAD"
  BY <1>1, <1>2, SyncProjectAssumption DEF Stage, Seen, Moved
<1>5. \/ home = "none" /\ head' = head
      \/ home # "none" /\ pc' = "panicked" /\ head' = head
      \/ home = "JIRI_HEAD" /\ head' = Detached(target)
      \/ home \in Branches /\ head' = OnBranch(home)
  BY DEF Restore
<1>6. TypeOK'
  <2>1. head' \in [branch : Branches \cup {"none"}, at : Revs]
    <3>1. head \in [branch : Branches \cup {"none"}, at : Revs]
      BY <1>1 DEF TypeOK
    <3>2. Detached(target) \in [branch : Branches \cup {"none"}, at : Revs]
      BY <1>1, DetachedType DEF TypeOK
    <3>3. ASSUME home \in Branches PROVE OnBranch(home) \in [branch : Branches \cup {"none"}, at : Revs]
      <4>1. home = Current /\ Current # "none"
        BY <1>4, <3>3, SyncProjectAssumption
      <4>2. tip[home] \in Revs
        BY <4>1, <1>1, <1>4 DEF TypeOK
      <4> QED BY <3>3, <4>2 DEF OnBranch
    <3> QED BY <1>5, <3>1, <3>2, <3>3
  <2> QED BY <2>1, <1>1, <1>2 DEF TypeOK, fixedVars
<1>7. Seen'
  BY <1>1, <1>2, SeenKept
<1>8. Moved'
  BY <1>1, <1>2, MovedKept
<1>9. Stage' /\ OnIt' /\ CleanedUp'
  BY <1>1, <1>2, <1>3 DEF Stage, OnIt, CleanedUp, Updating, fixedVars
<1>10. BroughtOn'
  BY <1>1, <1>2, <1>3
     DEF BroughtOn, Forward, HasAllOf, IsAncestor, Upstream, Rev, fixedVars
<1>11. UpdateRestores'
  <2> SUFFICES ASSUME pc' = "done", ret = "nil"
               PROVE  IF Current # "none"
                      THEN head' = OnBranch(Current) \/ (failed /\ ~cmd.all /\ midway = "stopped")
                      ELSE head' = Detached(target)
    BY <1>2, <1>3 DEF UpdateRestores, Updated, OnBranch, Detached, Upstream, Rev, fixedVars
  <2>1. CASE ~cmd.all
    BY <2>1, <1>1, <1>2, <1>4, <1>5, SyncProjectAssumption DEF OnIt
  <2>2. CASE cmd.all
    BY <2>2, <1>4, <1>5, SyncProjectAssumption
  <2> QED BY <2>1, <2>2
<1> QED BY <1>6, <1>7, <1>8, <1>9, <1>10, <1>11 DEF IInv

\* The steps of a clean.
LEMMA ResetKeeps ==
  ASSUME IInv, Reset
  PROVE  IInv'
<1>1. TypeOK /\ Seen /\ Stage
  BY DEF IInv
<1>2. /\ UNCHANGED fixedVars /\ tip' = tip /\ failed' = failed /\ cmd.name = "clean" /\ ~Updating
      /\ pc = "start" /\ tip = seen.tip /\ head = seen.head /\ ret = "none"
  BY <1>1 DEF Reset, Stage, Updating
<1>3. \/ config = "noUpdate" /\ Return("nil") /\ UNCHANGED <<head, dirty, untracked>>
      \/ /\ config # "noUpdate" /\ untracked' = FALSE
         /\ IF Differs THEN head' = Detached(target) /\ dirty' = FALSE ELSE UNCHANGED <<head, dirty>>
         /\ \/ cmd.all /\ pc' = "delete" /\ queue' = DOMAIN tip /\ UNCHANGED <<home, midway, ret, faults>>
            \/ ~cmd.all /\ Return("nil")
  BY DEF Reset, Existing
<1>4. TypeOK'
  <2>1. head' \in [branch : Branches \cup {"none"}, at : Revs]
    BY <1>1, <1>3, DetachedType DEF TypeOK
  <2>2. dirty' \in BOOLEAN /\ untracked' \in BOOLEAN /\ queue' \subseteq Branches
        /\ pc' \in {"delete", "done"} /\ ret' \in {"none", "nil", "error"}
        /\ UNCHANGED <<home, midway, faults>>
    BY <1>1, <1>3 DEF TypeOK, Return
  <2> QED BY <2>1, <2>2, <1>1, <1>2 DEF TypeOK, fixedVars
<1>5. Seen'
  BY <1>1, <1>2, SeenKept
<1>6. ~Updating' /\ cmd' = cmd /\ config' = config /\ target' = target /\ seen' = seen
  BY <1>2, Rigid DEF fixedVars
<1>7. Moved' /\ OnIt' /\ BroughtOn' /\ UpdateRestores' /\ Stage'
  BY <1>2, <1>3, <1>6 DEF Moved, OnIt, BroughtOn, UpdateRestores, Updated, Stage, Updating, Return
<1>8. CleanedUp'
  <2>1. config # "noUpdate" =>
          /\ head'.at = Upstream(target) /\ ~untracked'
          /\ Differs => ~dirty' /\ head'.branch = "none"
    BY <1>2, <1>3 DEF Differs, Detached
  <2> QED BY <2>1, <1>2, <1>3, <1>6 DEF CleanedUp, Return, Differs, Upstream, Rev
<1> QED BY <1>4, <1>5, <1>7, <1>8 DEF IInv

LEMMA DeleteBranchKeeps ==
  ASSUME IInv, NEW b \in Branches, DeleteBranch(b)
  PROVE  IInv'
<1>1. TypeOK /\ Seen /\ Stage /\ CleanedUp
  BY DEF IInv
<1>2. /\ UNCHANGED fixedVars /\ UNCHANGED <<head, dirty, untracked, failed>>
      /\ pc = "delete" /\ cmd.name = "clean" /\ ~Updating
  BY <1>1, SyncProjectAssumption DEF DeleteBranch, Stage, Updating, TypeOK
<1>3. /\ config # "noUpdate" /\ cmd.all /\ queue = DOMAIN tip /\ ret = "none"
      /\ head.at = Upstream(target) /\ ~untracked
  BY <1>1, <1>2 DEF CleanedUp
<1>4. \/ Return("error") /\ tip' = tip
      \/ tip' = [c \in DOMAIN tip \ {b} |-> tip[c]] /\ Next1(b)
  BY DEF DeleteBranch, Existing
<1>5. TypeOK'
  <2>1. tip' \in [DOMAIN tip' -> Revs] /\ DOMAIN tip' \subseteq Branches
    BY <1>1, <1>4 DEF TypeOK
  <2>2. queue' \subseteq Branches /\ pc' \in {"delete", "done"} /\ ret' \in {"none", "error"}
        /\ UNCHANGED <<home, midway, faults>>
    BY <1>1, <1>2, <1>3, <1>4 DEF TypeOK, Return, Next1
  <2> QED BY <2>1, <2>2, <1>1, <1>2 DEF TypeOK, fixedVars
<1>6. Seen'
  BY <1>1, <1>2, SeenKept
<1>7. ~Updating' /\ cmd' = cmd /\ config' = config /\ target' = target /\ seen' = seen
  BY <1>2, Rigid DEF fixedVars
<1>8. Moved' /\ OnIt' /\ BroughtOn' /\ UpdateRestores' /\ Stage'
  BY <1>2, <1>4, <1>7
     DEF Moved, OnIt, BroughtOn, UpdateRestores, Updated, Stage, Updating, Return, Next1
<1>9. CleanedUp'
  <2>1. Differs => ~dirty /\ head.branch = "none"
    BY <1>1, <1>2, <1>3 DEF CleanedUp
  <2> QED BY <2>1, <1>2, <1>3, <1>4, <1>7 DEF CleanedUp, Return, Next1, Differs, Upstream, Rev
<1> QED BY <1>5, <1>6, <1>8, <1>9 DEF IInv

LEMMA DeletesEndKeeps ==
  ASSUME IInv, DeletesEnd
  PROVE  IInv'
<1>1. TypeOK /\ Seen /\ Stage /\ CleanedUp
  BY DEF IInv
<1>2. /\ UNCHANGED fixedVars /\ UNCHANGED repoVars /\ UNCHANGED <<failed, queue, home, midway, faults>>
      /\ pc = "delete" /\ cmd.name = "clean" /\ ~Updating /\ pc' = "done" /\ ret' = "nil" /\ queue = {}
  BY <1>1, SyncProjectAssumption DEF DeletesEnd, Return, Stage, Updating, TypeOK, CleanedUp
<1>3. TypeOK'
  BY <1>1, <1>2 DEF TypeOK, fixedVars, repoVars
<1>4. Seen'
  BY <1>1, <1>2, SeenKept
<1>5. ~Updating' /\ cmd' = cmd /\ config' = config /\ target' = target /\ seen' = seen
  BY <1>2, Rigid DEF fixedVars
<1>6. Moved' /\ OnIt' /\ BroughtOn' /\ UpdateRestores' /\ Stage'
  BY <1>2, <1>5 DEF Moved, OnIt, BroughtOn, UpdateRestores, Updated, Stage, Updating
<1>7. CleanedUp'
  BY <1>1, <1>2, <1>5 DEF CleanedUp, repoVars, Differs, Upstream, Rev
<1> QED BY <1>3, <1>4, <1>6, <1>7 DEF IInv

LEMMA StutterKeeps ==
  ASSUME IInv, UNCHANGED vars
  PROVE  IInv'
<1>1. UNCHANGED fixedVars /\ UNCHANGED repoVars
      /\ UNCHANGED <<pc, queue, home, midway, failed, ret, faults>>
  BY DEF vars, fixedVars, repoVars
<1>2. /\ Updating' = Updating /\ Current' = Current /\ Considered' = Considered /\ MayMove' = MayMove
      /\ \A c : Tracking(c)' = Tracking(c)
      /\ \A c : SeenAt(c)' = SeenAt(c)
      /\ \A c : Ends(c)' = Ends(c)
      /\ \A c : Tracked(c)' = Tracked(c)
      /\ \A c : Changes(c)' = Changes(c)
      /\ \A c : Gained(c)' = Gained(c)
  BY <1>1, Rigid DEF repoVars
<1>3. TypeOK' /\ Seen'
  <2>1. TypeOK /\ Seen
    BY DEF IInv
  <2>2. TypeOK'
    BY <1>1, <2>1 DEF TypeOK, fixedVars, repoVars
  <2>3. Seen'
    BY <1>1, <2>1, SeenKept
  <2> QED BY <2>2, <2>3
<1>4. Moved'
  BY <1>1, <1>2 DEF IInv, Moved, fixedVars, repoVars
<1>5. Stage' /\ OnIt'
  BY <1>1, <1>2 DEF IInv, Stage, OnIt, OnBranch, fixedVars, repoVars
<1>6. BroughtOn'
  BY <1>1, <1>2
     DEF IInv, BroughtOn, Forward, HasAllOf, IsAncestor, Upstream, Rev, fixedVars, repoVars
<1>7. CleanedUp' /\ UpdateRestores'
  BY <1>1, <1>2
     DEF IInv, CleanedUp, Differs, UpdateRestores, Updated, OnBranch, Detached, Upstream, Rev, fixedVars, repoVars
<1> QED BY <1>3, <1>4, <1>5, <1>6, <1>7 DEF IInv

LEMMA NextKeeps == IInv /\ [Next]_vars => IInv'
<1> SUFFICES ASSUME IInv, [Next]_vars PROVE IInv'
  OBVIOUS
<1>1. CASE Start BY <1>1, StartKeeps
<1>2. CASE CheckoutHead BY <1>2, CheckoutHeadKeeps
<1>3. CASE Merge BY <1>3, MergeKeeps
<1>4. ASSUME NEW b \in Branches, Branch(b) PROVE IInv' BY <1>4, BranchKeeps
<1>5. CASE LoopEnds BY <1>5, LoopEndsKeeps
<1>6. CASE Restore BY <1>6, RestoreKeeps
<1>7. CASE Reset BY <1>7, ResetKeeps
<1>8. ASSUME NEW b \in Branches, DeleteBranch(b) PROVE IInv' BY <1>8, DeleteBranchKeeps
<1>9. CASE DeletesEnd BY <1>9, DeletesEndKeeps
<1>10. CASE UNCHANGED vars BY <1>10, StutterKeeps
<1> QED BY <1>1, <1>2, <1>3, <1>4, <1>5, <1>6, <1>7, <1>8, <1>9, <1>10 DEF Next, Step, Finished

LEMMA InvHolds == Spec => []IInv
BY InitInv, NextKeeps, PTL DEF Spec
-----------------------------------------------------------------------------
\* The variables keep to their types.
THEOREM TypeCorrect == Spec => []TypeOK
<1>1. IInv => TypeOK
  BY DEF IInv
<1> QED BY <1>1, InvHolds, PTL

\* syncProjectMaster moves no branch but those its flags let it, and a rebase neither
\* loses a change of a branch nor gives it one of a branch it does not track.
THEOREM UpdateKeepsBranches == Spec => []BranchesKept
<1>1. IInv => BranchesKept
  <2> SUFFICES ASSUME IInv, Updating PROVE LeftAlone /\ OwnChanges
    BY DEF BranchesKept, LeftAlone, OwnChanges, Updating
  <2>1. Moved /\ Seen
    BY DEF IInv
  <2>2. LeftAlone
    BY <2>1 DEF LeftAlone, Moved, Updating
  <2>3. ASSUME NEW b \in DOMAIN seen.tip
        PROVE  Gained(b) \subseteq
                 UNION {Range(seen.tip[u].own) : u \in Tracked(b) \cap DOMAIN seen.tip}
    BY DEF Gained, Changes
  <2>4. ASSUME NEW b \in DOMAIN seen.tip
        PROVE  /\ b \in DOMAIN tip
               /\ Range(seen.tip[b].own) \subseteq Range(tip[b].own)
               /\ Range(tip[b].own) \subseteq Range(seen.tip[b].own) \cup Gained(b)
    BY <2>1 DEF Moved, Changes
  <2>5. OwnChanges
    BY <2>3, <2>4 DEF OwnChanges
  <2> QED BY <2>2, <2>5
<1> QED BY <1>1, InvHolds, PTL

\* An update that succeeds ends where it began, or at JIRI_HEAD, or counts a failure, and is
\* left in the middle of a rebase only without -rebase-all; resetLocalProject leaves JIRI_HEAD,
\* no untracked file, uncommitted changes at JIRI_HEAD only, and deletes all branches or
\* leaves all as they are.
THEOREM HeadIsRestored == Spec => []HeadRestored
<1>1. IInv => CleanRestores
  BY DEF IInv, CleanRestores, CleanedUp, Cleaned
<1>2. IInv => UpdateRestores
  BY DEF IInv
<1>3. IInv => HeadRestored
  BY <1>1, <1>2 DEF HeadRestored
<1> QED BY <1>3, InvHolds, PTL

\* An update that succeeds without a failure has brought forward all it was to.
THEOREM UpdateBringsForward == Spec => []UpToDate
<1>1. IInv => UpToDate
  BY DEF IInv, UpToDate, BroughtOn, Forward, Stage, Updated, Updating
<1> QED BY <1>1, InvHolds, PTL

-----------------------------------------------------------------------------
(* SubmoduleTree: the order of paths, and the invariant of the tree. *)

\* The paths; what it is to be a prefix of one, element by element.
PathSeq == Seq(STRING)

LEMMA PrefixIs ==
  ASSUME NEW s \in PathSeq, NEW t \in PathSeq
  PROVE  IsPrefix(s, t) <=> Len(s) <= Len(t) /\ \A i \in 1..Len(s) : s[i] = t[i]
<1>1. CASE Len(s) <= Len(t)
  <2> DEFINE u == SubSeq(s, 1, Len(s))
             v == SubSeq(t, 1, Len(s))
  <2>1. /\ u \in PathSeq /\ Len(u) = Len(s) /\ \A i \in 1..Len(s) : u[i] = s[i]
        /\ v \in PathSeq /\ Len(v) = Len(s) /\ \A i \in 1..Len(s) : v[i] = t[i]
    BY <1>1 DEF PathSeq
  <2>2. u = v <=> \A i \in 1..Len(s) : u[i] = v[i]
    <3> HIDE DEF u, v
    <3> QED BY <2>1 DEF PathSeq
  <2> QED BY <1>1, <2>1, <2>2 DEF IsPrefix
<1> QED BY <1>1 DEF IsPrefix

LEMMA SeqSame ==
  ASSUME NEW s \in PathSeq, NEW t \in PathSeq, Len(s) = Len(t), \A i \in 1..Len(s) : s[i] = t[i]
  PROVE  s = t
BY DEF PathSeq

LEMMA PrefixSelf == ASSUME NEW s \in PathSeq PROVE IsPrefix(s, s)
BY PrefixIs DEF PathSeq

\* To be a prefix is an order on paths.
LEMMA PrefixTrans ==
  ASSUME NEW s \in PathSeq, NEW t \in PathSeq, NEW u \in PathSeq, IsPrefix(s, t), IsPrefix(t, u)
  PROVE  IsPrefix(s, u)
<1>1. Len(s) \in Nat /\ Len(t) \in Nat /\ Len(u) \in Nat
  BY DEF PathSeq
<1> QED BY <1>1, PrefixIs

LEMMA PrefixBoth ==
  ASSUME NEW s \in PathSeq, NEW t \in PathSeq, IsPrefix(s, t), IsPrefix(t, s)
  PROVE  s = t
<1>1. Len(s) \in Nat /\ Len(t) \in Nat
  BY DEF PathSeq
<1>2. Len(s) = Len(t) /\ \A i \in 1..Len(s) : s[i] = t[i]
  BY <1>1, PrefixIs
<1> QED BY <1>2, SeqSame

\* The operators of the community modules agree on what the prefixes of a path are.
LEMMA PrefixesAre ==
  ASSUME NEW s \in PathSeq, NEW t \in PathSeq
  PROVE  t \in Prefixes(s) <=> IsPrefix(t, s)
<1>0. Len(s) \in Nat /\ Len(t) \in Nat
  BY DEF PathSeq
<1>1. ASSUME NEW l \in 0..Len(s), t = SubSeq(s, 1, l)
      PROVE  IsPrefix(t, s)
  <2>1. l <= Len(s) /\ Len(t) = l /\ \A i \in 1..l : t[i] = s[i]
    BY <1>0, <1>1 DEF PathSeq
  <2> QED BY <2>1, PrefixIs
<1>2. ASSUME IsPrefix(t, s)
      PROVE  t = SubSeq(s, 1, Len(t)) /\ Len(t) \in 0..Len(s)
  <2> DEFINE u == SubSeq(s, 1, Len(t))
  <2>1. Len(t) <= Len(s) /\ \A i \in 1..Len(t) : t[i] = s[i]
    BY <1>2, PrefixIs
  <2>2. u \in PathSeq /\ Len(u) = Len(t) /\ \A i \in 1..Len(t) : u[i] = s[i]
    BY <1>0, <2>1 DEF PathSeq
  <2>3. t = u
    <3> HIDE DEF u
    <3> QED BY <2>1, <2>2, SeqSame
  <2> QED BY <1>0, <2>1, <2>3
<1> QED BY <1>1, <1>2 DEF Prefixes

LEMMA PrefixesSeq == ASSUME NEW s \in PathSeq PROVE Prefixes(s) \subseteq PathSeq
<1>1. ASSUME NEW l \in 0..Len(s) PROVE SubSeq(s, 1, l) \in PathSeq
  BY DEF PathSeq
<1> QED BY <1>1 DEF Prefixes

\* The entries put into the tree so far, and those that are still in it.
InTree == Entries \ todo
Placed == InTree \ dropped

\* The nodes with a project are those of the kept ones, each at its path.
NodesRight ==
  /\ DOMAIN tree \subseteq PathSeq
  /\ \A k \in Placed : path[k] \in DOMAIN tree /\ tree[path[k]] = k
  /\ \A q \in DOMAIN tree : tree[q] # NoProject => tree[q] \in Placed /\ path[tree[q]] = q

\* No kept one is nested under another; a dropped one below the root is nested under
\* a kept one, and came later if at the same path.
KeptApart == \A j, k \in Placed : j # k => ~IsPrefix(path[j], path[k])
Covers(c, j) == IsPrefix(path[c], path[j]) /\ (path[c] = path[j] => c < j)
DroppedCovered == \A j \in InTree \cap dropped : path[j] # <<>> => \E c \in Placed : Covers(c, j)

TreeTypes ==
  /\ Entries \subseteq Keys /\ todo \subseteq Entries /\ dropped \subseteq InTree
  /\ path \in [Entries -> Paths]
  /\ redirectRoot \in BOOLEAN
  /\ result \in {"running", "ok", "error"}
  /\ \A j \in InTree, k \in todo : j < k

Submodule(k) == [project |-> k, path |-> path[k]]
Written ==
  result = "ok" =>
    /\ todo = {}
    /\ modules = Mirror \cup {Submodule(k) : k \in Placed}
    /\ Mirror # {} => \A k \in Entries : path[k] # MirrorPath

TreeInv ==
  /\ TreeTypes /\ NodesRight /\ KeptApart /\ DroppedCovered /\ Written
  /\ \A k \in Placed : path[k] # <<>>

LEMMA TreeInit == GenerateSubmoduleTree => TreeInv
<1> SUFFICES ASSUME GenerateSubmoduleTree PROVE TreeInv
  OBVIOUS
<1>1. PICK K \in SUBSET Keys : path \in [K -> Paths] /\ todo = K
  BY DEF GenerateSubmoduleTree
<1>2. Entries = K /\ InTree = {} /\ Placed = {}
  BY <1>1 DEF Entries, InTree, Placed
<1>3. DOMAIN tree = {} /\ dropped = {} /\ result = "running" /\ redirectRoot \in BOOLEAN
  BY DEF GenerateSubmoduleTree
<1> QED BY <1>1, <1>2, <1>3 DEF TreeInv, TreeTypes, NodesRight, KeptApart, DroppedCovered, Written

\* What the prefixes are of the paths of the entries.
LEMMA PathFacts ==
  ASSUME TreeTypes, NEW k \in Entries
  PROVE  path[k] \in PathSeq /\ k \in Nat /\ k # NoProject
BY TreeAssumption DEF TreeTypes, PathSeq, NoProject

\* A path is not taken when no kept project is at it or above it.
LEMMA TakenIs ==
  ASSUME TreeInv, NEW k \in Entries
  PROVE  Taken(path[k]) <=> \E c \in Placed : IsPrefix(path[c], path[k])
<1>0. path[k] \in PathSeq /\ \A c \in Placed : path[c] \in PathSeq /\ c # NoProject /\ path[c] # <<>>
  BY PathFacts DEF TreeInv, Placed, InTree
<1>1. ASSUME NEW q \in NodesTo(path[k]) \cap DOMAIN tree, tree[q] # NoProject
      PROVE  tree[q] \in Placed /\ IsPrefix(path[tree[q]], path[k])
  <2>1. tree[q] \in Placed /\ path[tree[q]] = q /\ q \in PathSeq
    BY <1>1 DEF TreeInv, NodesRight
  <2>2. q \in Prefixes(path[k])
    BY DEF NodesTo
  <2> QED BY <1>0, <2>1, <2>2, PrefixesAre
<1>2. ASSUME NEW c \in Placed, IsPrefix(path[c], path[k])
      PROVE  path[c] \in NodesTo(path[k]) \cap DOMAIN tree /\ tree[path[c]] # NoProject
  <2>1. path[c] \in Prefixes(path[k])
    BY <1>0, <1>2, PrefixesAre
  <2> QED BY <1>0, <2>1 DEF NodesTo, TreeInv, NodesRight
<1> QED BY <1>1, <1>2 DEF Taken

\* What prune drops are the kept projects under the path.
LEMMA PrunedIs ==
  ASSUME TreeInv, NEW p \in PathSeq
  PROVE  Pruned(p) = {c \in Placed : IsStrictPrefix(p, path[c])}
<1>1. ASSUME NEW c \in Pruned(p)
      PROVE  c \in Placed /\ IsStrictPrefix(p, path[c])
  <2>1. PICK q \in Below(p) : c = tree[q] /\ c # NoProject
    BY DEF Pruned
  <2> QED BY <2>1 DEF Below, TreeInv, NodesRight
<1>2. ASSUME NEW c \in Placed, IsStrictPrefix(p, path[c])
      PROVE  c \in Pruned(p)
  <2>1. path[c] \in Below(p) /\ tree[path[c]] = c
    BY <1>2 DEF Below, TreeInv, NodesRight
  <2>2. c # NoProject
    BY PathFacts DEF TreeInv, Placed, InTree
  <2> QED BY <2>1, <2>2 DEF Pruned
<1> QED BY <1>1, <1>2

\* The entry that is added is the next one in the order of keys.
LEMMA AddTypes ==
  ASSUME TreeInv, NEW k \in todo, add(k)
  PROVE  /\ TreeTypes' /\ InTree' = InTree \cup {k} /\ k \in Entries /\ k \notin InTree
         /\ Entries' = Entries /\ path' = path
<1>1. /\ Entries' = Entries /\ path' = path /\ todo' = todo \ {k}
      /\ UNCHANGED <<redirectRoot, modules, result>>
  BY DEF add, Entries
<1>2. /\ Entries \subseteq Keys /\ todo \subseteq Entries /\ dropped \subseteq InTree
      /\ \A j \in InTree, i \in todo : j < i
  BY DEF TreeInv, TreeTypes
<1>3. k \in Entries /\ k \notin InTree /\ InTree' = InTree \cup {k}
  BY <1>1, <1>2 DEF InTree
<1>4. \A j \in todo \ {k} : k < j
  <2>1. \A j \in todo : k <= j /\ j \in Nat
    BY <1>2, TreeAssumption DEF add
  <2> QED BY <2>1
<1>5. dropped' \subseteq InTree'
  <2>1. path[k] \in PathSeq
    BY <1>3, PathFacts DEF TreeInv
  <2>2. Pruned(path[k]) \subseteq InTree
    BY <2>1, PrunedIs DEF Placed
  <2> QED BY <1>2, <1>3, <2>2 DEF add
<1> QED BY <1>1, <1>2, <1>3, <1>4, <1>5 DEF TreeInv, TreeTypes

\* An entry at the root, or under another one, changes no node.
LEMMA AddDropped ==
  ASSUME TreeInv, NEW k \in todo, add(k), path[k] = <<>> \/ Taken(path[k])
  PROVE  Placed' = Placed /\ tree' = tree /\ dropped' = dropped \cup {k}
<1>1. tree' = tree /\ dropped' = dropped \cup {k}
  BY DEF add
<1> QED BY <1>1, AddTypes DEF Placed

\* Any other one takes the place of those under it.
LEMMA AddKept ==
  ASSUME TreeInv, NEW k \in todo, add(k), ~(path[k] = <<>> \/ Taken(path[k]))
  PROVE  /\ Placed' = {c \in Placed : ~IsStrictPrefix(path[k], path[c])} \cup {k}
         /\ tree' = Grown(path[k], k)
         /\ dropped' = dropped \cup {c \in Placed : IsStrictPrefix(path[k], path[c])}
<1>1. tree' = Grown(path[k], k) /\ dropped' = dropped \cup Pruned(path[k])
  BY DEF add
<1>2. path[k] \in PathSeq /\ k \notin InTree /\ InTree' = InTree \cup {k} /\ k \notin dropped
  BY AddTypes, PathFacts DEF TreeInv, TreeTypes
<1>3. Pruned(path[k]) = {c \in Placed : IsStrictPrefix(path[k], path[c])}
  BY <1>2, PrunedIs
<1> QED BY <1>1, <1>2, <1>3 DEF Placed

\* The tree has the nodes of those that stay in it.
LEMMA AddNodes ==
  ASSUME TreeInv, NEW k \in todo, add(k)
  PROVE  NodesRight'
<1>0. path' = path /\ k \in Entries /\ path[k] \in PathSeq /\ k # NoProject /\ TreeTypes'
  BY AddTypes, PathFacts DEF TreeInv
<1>1. CASE path[k] = <<>> \/ Taken(path[k])
  BY <1>0, <1>1, AddDropped DEF NodesRight, TreeInv
<1>2. CASE ~(path[k] = <<>> \/ Taken(path[k]))
  <2> DEFINE p == path[k]
  <2>1. /\ Placed' = {c \in Placed : ~IsStrictPrefix(p, path[c])} \cup {k}
        /\ tree' = Grown(p, k)
    BY <1>2, AddKept
  <2>2. /\ DOMAIN tree' = (DOMAIN tree \ Below(p)) \cup NodesTo(p)
        /\ \A q \in DOMAIN tree' :
             tree'[q] = IF q = p THEN k ELSE IF q \in DOMAIN tree THEN tree[q] ELSE NoProject
    BY <2>1 DEF Grown
  <2>3. p \in NodesTo(p) /\ NodesTo(p) \subseteq PathSeq
    <3>1. p \in Prefixes(p) /\ Prefixes(p) \subseteq PathSeq
      BY <1>0, PrefixSelf, PrefixesAre, PrefixesSeq
    <3> QED BY <1>2, <3>1 DEF NodesTo
  <2>4. \A c \in Placed : ~IsPrefix(path[c], p) /\ path[c] # p
    BY <1>0, <1>2, TakenIs, PrefixSelf
  <2>5. DOMAIN tree' \subseteq PathSeq
    BY <2>2, <2>3 DEF TreeInv, NodesRight
  <2>6. ASSUME NEW c \in Placed'
        PROVE  path[c] \in DOMAIN tree' /\ tree'[path[c]] = c
    <3>1. CASE c = k
      BY <2>2, <2>3, <3>1
    <3>2. CASE c # k
      <4>1. c \in Placed /\ ~IsStrictPrefix(p, path[c])
        BY <2>1, <3>2
      <4>2. path[c] \in DOMAIN tree \ Below(p) /\ tree[path[c]] = c
        BY <4>1 DEF TreeInv, NodesRight, Below
      <4> QED BY <2>2, <2>4, <4>1, <4>2
    <3> QED BY <3>1, <3>2
  <2>7. ASSUME NEW q \in DOMAIN tree', tree'[q] # NoProject
        PROVE  tree'[q] \in Placed' /\ path[tree'[q]] = q
    <3>1. CASE q = p
      BY <2>1, <2>2, <3>1
    <3>2. CASE q # p
      <4>1. q \in DOMAIN tree /\ tree'[q] = tree[q]
        BY <2>2, <2>7, <3>2
      <4>2. tree[q] \in Placed /\ path[tree[q]] = q
        BY <2>7, <4>1 DEF TreeInv, NodesRight
      <4>3. q \notin NodesTo(p)
        BY <1>2, <2>7, <4>1 DEF Taken
      <4>4. ~IsStrictPrefix(p, q)
        BY <2>2, <4>1, <4>3 DEF Below
      <4> QED BY <2>1, <4>1, <4>2, <4>4
    <3> QED BY <3>1, <3>2
  <2> QED BY <1>0, <2>5, <2>6, <2>7 DEF NodesRight
<1> QED BY <1>1, <1>2

\* Of those under the new one it is now that one that covers them.
LEMMA AddCovers ==
  ASSUME TreeInv, NEW k \in todo, add(k)
  PROVE  KeptApart' /\ DroppedCovered' /\ (\A c \in Placed : path[c] # <<>>)'
<1>0. /\ path' = path /\ k \in Entries /\ path[k] \in PathSeq /\ k \notin InTree
      /\ InTree' = InTree \cup {k} /\ TreeTypes'
  BY AddTypes, PathFacts DEF TreeInv
<1>K. \A c \in InTree : path[c] \in PathSeq /\ c < k
  BY PathFacts DEF TreeInv, TreeTypes, InTree
<1>1. CASE path[k] = <<>> \/ Taken(path[k])
  <2>1. Placed' = Placed /\ dropped' = dropped \cup {k}
    BY <1>1, AddDropped
  <2>2. ASSUME path[k] # <<>> PROVE \E c \in Placed : Covers(c, k)
    <3>1. PICK c \in Placed : IsPrefix(path[c], path[k])
      BY <1>0, <1>1, <2>2, TakenIs
    <3> QED BY <1>K, <3>1 DEF Covers, Placed
  <2>3. \A c, j : Covers(c, j)' <=> Covers(c, j)
    BY <1>0 DEF Covers
  <2> QED BY <1>0, <2>1, <2>2, <2>3 DEF TreeInv, KeptApart, DroppedCovered
<1>2. CASE ~(path[k] = <<>> \/ Taken(path[k]))
  <2> DEFINE p == path[k]
             Under == {c \in Placed : IsStrictPrefix(p, path[c])}
  <2>1. Placed' = (Placed \ Under) \cup {k} /\ dropped' = dropped \cup Under
    BY <1>2, AddKept
  <2>2. \A c \in Placed : ~IsPrefix(path[c], p) /\ c \in InTree /\ path[c] # p
    BY <1>0, <1>2, TakenIs, PrefixSelf DEF Placed
  <2>3. \A c \in Placed \ Under : ~IsPrefix(p, path[c])
    BY <2>2 DEF IsStrictPrefix
  <2>4. KeptApart'
    BY <1>0, <2>1, <2>2, <2>3 DEF TreeInv, KeptApart
  <2>5. (\A c \in Placed : path[c] # <<>>)'
    BY <1>0, <1>2, <2>1 DEF TreeInv
  <2>6. ASSUME NEW j \in (InTree \cap dropped)', path[j] # <<>>
        PROVE  \E c \in Placed' : Covers(c, j)
    <3>1. CASE j \in Under
      BY <2>1, <2>2, <3>1 DEF Covers, IsStrictPrefix
    <3>2. CASE j \notin Under
      <4>1. j \in InTree \cap dropped
        BY <1>0, <2>1, <2>6, <3>2 DEF TreeInv, TreeTypes
      <4>2. PICK c \in Placed : Covers(c, j)
        BY <2>6, <4>1 DEF TreeInv, DroppedCovered
      <4>3. CASE c \notin Under
        BY <2>1, <4>2, <4>3
      <4>4. CASE c \in Under
        <5>1. IsPrefix(p, path[c]) /\ IsPrefix(path[c], path[j]) /\ p # path[c]
          BY <4>2, <4>4 DEF Covers, IsStrictPrefix
        <5>2. path[c] \in PathSeq /\ path[j] \in PathSeq
          BY <1>K, <2>2, <4>1
        <5>3. IsPrefix(p, path[j])
          BY <1>0, <5>1, <5>2, PrefixTrans
        <5>4. p # path[j]
          BY <1>0, <5>1, <5>2, PrefixBoth
        <5> QED BY <2>1, <5>3, <5>4 DEF Covers
      <4> QED BY <4>3, <4>4
    <3> QED BY <3>1, <3>2
  <2>7. \A c, j : Covers(c, j)' <=> Covers(c, j)
    BY <1>0 DEF Covers
  <2>8. DroppedCovered'
    BY <1>0, <2>6, <2>7 DEF DroppedCovered
  <2> QED BY <2>4, <2>5, <2>8
<1> QED BY <1>1, <1>2

LEMMA WriteSafe == ASSUME TreeInv, writeGitModules PROVE TreeInv'
<1>1. UNCHANGED <<path, redirectRoot, todo, tree, dropped>> /\ todo = {} /\ result' \in {"ok", "error"}
  BY DEF writeGitModules
<1>2. Entries' = Entries /\ InTree' = InTree /\ Placed' = Placed /\ AtRoot' = AtRoot /\ Mirror' = Mirror
  BY <1>1 DEF Entries, InTree, Placed, AtRoot, Mirror
<1>3. TreeTypes'
  BY <1>1, <1>2 DEF TreeInv, TreeTypes
<1>4. NodesRight' /\ KeptApart' /\ (\A k \in Placed : path[k] # <<>>)'
  BY <1>1, <1>2 DEF TreeInv, NodesRight, KeptApart
<1>5. DroppedCovered'
  <2>1. \A c, j : Covers(c, j)' <=> Covers(c, j)
    BY <1>1 DEF Covers
  <2> QED BY <1>1, <1>2, <2>1 DEF TreeInv, DroppedCovered
<1>6. Written'
  <2> SUFFICES ASSUME result' = "ok" PROVE Written'
    BY DEF Written
  <2>1. /\ modules' = Mirror \cup {[project |-> k, path |-> path[k]] : k \in Entries \ dropped}
        /\ ~\E k \in Entries : Mirror # {} /\ path[k] = MirrorPath
    BY DEF writeGitModules
  <2>2. Placed = Entries \ dropped
    BY <1>1 DEF Placed, InTree
  <2>3. \A k : Submodule(k)' = Submodule(k)
    BY <1>1 DEF Submodule
  <2> QED BY <1>1, <1>2, <2>1, <2>2, <2>3 DEF Written, Submodule
<1> QED BY <1>3, <1>4, <1>5, <1>6 DEF TreeInv

LEMMA AddSafe == ASSUME TreeInv, NEW k \in todo, add(k) PROVE TreeInv'
<1>1. TreeTypes' /\ NodesRight' /\ KeptApart' /\ DroppedCovered' /\ (\A c \in Placed : path[c] # <<>>)'
  BY AddTypes, AddNodes, AddCovers
<1>2. Written'
  <2>1. result' = result /\ k \in todo
    BY DEF add
  <2> QED BY <2>1 DEF TreeInv, Written
<1> QED BY <1>1, <1>2 DEF TreeInv

LEMMA TreeStays == ASSUME TreeInv, UNCHANGED treeVars PROVE TreeInv'
<1>1. UNCHANGED <<path, redirectRoot, todo, tree, dropped, modules, result>>
  BY DEF treeVars
<1>2. UNCHANGED <<Entries, InTree, Placed, AtRoot, Mirror>> /\ \A c, j : Covers(c, j)' <=> Covers(c, j)
  BY <1>1 DEF Entries, InTree, Placed, AtRoot, Mirror, Covers
<1> QED BY <1>1, <1>2 DEF TreeInv, TreeTypes, NodesRight, KeptApart, DroppedCovered, Written, Submodule

LEMMA TreeStep == TreeInv /\ [TreeNext]_treeVars => TreeInv'
BY AddSafe, WriteSafe, TreeStays DEF TreeNext

\* No project can be above the mirror of the root: so it is unless the name of the root
\* project has a slash in it.
MirrorAtTop == \A p \in Paths : p # <<>> => ~IsStrictPrefix(p, MirrorPath)

\* What is dropped in the end: if nested under a dropped one, then under a kept one too.
LEMMA DroppedRight ==
  ASSUME TreeInv, todo = {}
  PROVE  dropped = {k \in Entries : path[k] = <<>> \/ Nested(k)}
<1>0. InTree = Entries /\ dropped \subseteq Entries /\ Placed = Entries \ dropped
  BY DEF TreeInv, TreeTypes, InTree, Placed
<1>P. \A k \in Entries : path[k] \in PathSeq /\ k \in Nat
  BY PathFacts DEF TreeInv
<1>1. ASSUME NEW k \in dropped, path[k] # <<>> PROVE Nested(k)
  <2>1. PICK c \in Placed : Covers(c, k)
    BY <1>0, <1>1 DEF TreeInv, DroppedCovered
  <2>2. c # k /\ c \in Entries /\ path[c] # <<>>
    BY <1>0, <2>1 DEF TreeInv
  <2> QED BY <2>1, <2>2 DEF Nested, Covers
<1>2. ASSUME NEW k \in Placed, Nested(k) PROVE FALSE
  <2>1. PICK j \in Entries \ {k} : /\ path[j] # <<>>
                                   /\ IsPrefix(path[j], path[k])
                                   /\ path[j] = path[k] => j < k
    BY <1>2 DEF Nested
  <2>2. CASE j \in Placed
    BY <2>1, <2>2 DEF TreeInv, KeptApart
  <2>3. CASE j \notin Placed
    <3>1. PICK c \in Placed : Covers(c, j)
      BY <1>0, <2>1, <2>3 DEF TreeInv, DroppedCovered
    <3>2. IsPrefix(path[c], path[j]) /\ (path[c] = path[j] => c < j)
      BY <3>1 DEF Covers
    <3>3. IsPrefix(path[c], path[k])
      BY <1>0, <1>P, <2>1, <3>2, PrefixTrans
    <3>4. c # k
      <4> SUFFICES ASSUME c = k PROVE FALSE
        OBVIOUS
      <4>1. path[j] = path[k]
        BY <1>0, <1>P, <2>1, <3>2, PrefixBoth
      <4>2. j < k /\ k < j
        BY <2>1, <3>2, <4>1
      <4> QED BY <1>0, <1>P, <4>2
    <3> QED BY <3>3, <3>4 DEF TreeInv, KeptApart
  <2> QED BY <2>2, <2>3
<1>3. \A k \in Placed : path[k] # <<>>
  BY DEF TreeInv
<1> QED BY <1>0, <1>1, <1>2, <1>3

\* The file has the kept projects, and with -redir-root the one at the root.
LEMMA ModulesRight ==
  ASSUME TreeInv, result = "ok", MirrorAtTop
  PROVE  /\ {m.project : m \in modules} = Entries \ (IF redirectRoot THEN dropped \ AtRoot ELSE dropped)
         /\ \A m, n \in modules : m # n => ~IsPrefix(m.path, n.path) \/ m \in Mirror
<1>0. /\ todo = {} /\ modules = Mirror \cup {Submodule(k) : k \in Placed} /\ Placed = Entries \ dropped
      /\ Mirror # {} => \A k \in Entries : path[k] # MirrorPath
  BY DEF TreeInv, Written, Placed, InTree
<1>1. AtRoot \subseteq Entries
  BY DEF AtRoot
<1> DEFINE Mirrored == IF redirectRoot THEN AtRoot ELSE {}
           OfRoot(k) == [project |-> k, path |-> MirrorPath]
<1>2. Mirror = {OfRoot(k) : k \in Mirrored}
  BY DEF Mirror
<1>3. \A k : /\ OfRoot(k).project = k /\ OfRoot(k).path = MirrorPath
             /\ Submodule(k).project = k /\ Submodule(k).path = path[k]
  BY DEF Submodule
<1>4. {m.project : m \in modules} = Mirrored \cup Placed
  <2> HIDE DEF Mirrored, OfRoot
  <2>1. ASSUME NEW m \in modules PROVE m.project \in Mirrored \cup Placed
    BY <1>0, <1>2, <1>3
  <2>2. ASSUME NEW k \in Mirrored \cup Placed PROVE \E m \in modules : m.project = k
    BY <1>0, <1>2, <1>3
  <2> QED BY <2>1, <2>2
<1>5. Mirrored \cup Placed = Entries \ (IF redirectRoot THEN dropped \ AtRoot ELSE dropped)
  BY <1>0, <1>1
<1>6. ASSUME NEW m \in modules, NEW n \in modules, m # n, m \notin Mirror, IsPrefix(m.path, n.path)
      PROVE  FALSE
  <2>1. PICK k \in Placed : m = Submodule(k)
    BY <1>0, <1>6
  <2>2. path[k] \in Paths /\ path[k] # <<>>
    BY <1>0 DEF TreeInv, TreeTypes
  <2>3. CASE n \in Mirror
    <3>1. n.path = MirrorPath
      BY <1>2, <1>3, <2>3
    <3>2. IsPrefix(path[k], MirrorPath) /\ path[k] # MirrorPath
      BY <1>0, <1>3, <1>6, <2>1, <2>3, <3>1
    <3> QED BY <2>2, <3>2 DEF MirrorAtTop, IsStrictPrefix
  <2>4. CASE n \notin Mirror
    <3>1. PICK j \in Placed : n = Submodule(j)
      BY <1>0, <2>4
    <3>2. j # k /\ IsPrefix(path[k], path[j])
      BY <1>3, <1>6, <2>1, <3>1
    <3> QED BY <3>2 DEF TreeInv, KeptApart
  <2> QED BY <2>3, <2>4
<1> QED BY <1>4, <1>5, <1>6

\* generate-gitmodules leaves out the nested projects and no other, and places no
\* submodule under another.
THEOREM SubmodulesAreRight == MirrorAtTop => (TreeSpec => []TreeRight)
<1> SUFFICES ASSUME MirrorAtTop PROVE TreeSpec => []TreeRight
  OBVIOUS
<1>1. TreeInv => TreeRight
  BY DroppedRight, ModulesRight DEF TreeRight
<1> QED BY TreeInit, TreeStep, <1>1, PTL DEF TreeSpec

-----------------------------------------------------------------------------
(* DiffCmd: the two snapshots, and the walks of the workers. *)

\* A one-to-one image of a finite set has as many elements.
LEMMA SameCount ==
  ASSUME NEW S, NEW T, IsFiniteSet(S), NEW f \in [S -> T],
         \A t \in T : \E s \in S : f[s] = t, \A r, s \in S : f[r] = f[s] => r = s
  PROVE  IsFiniteSet(T) /\ Cardinality(T) = Cardinality(S)
<1>1. f \in Surjection(S, T) /\ f \in Injection(S, T)
  BY DEF Surjection, Injection, IsInjective
<1> QED BY <1>1, FS_Surjection

\* A snapshot by its keys: as many as there are projects.
Snapshot(S) ==
  IsFiniteSet(S) /\ \A p, q \in S : p # q => Key(p) # Key(q) /\ p.path # q.path
KeysOf(S) == {Key(p) : p \in S}

LEMMA ByKeyIs ==
  ASSUME NEW S, Snapshot(S)
  PROVE  /\ DOMAIN ByKey(S) = KeysOf(S)
         /\ IsFiniteSet(KeysOf(S)) /\ Cardinality(KeysOf(S)) = Cardinality(S)
         /\ \A k \in KeysOf(S) : ByKey(S)[k] \in S /\ Key(ByKey(S)[k]) = k
         /\ \A k, l \in KeysOf(S) : ByKey(S)[k].path = ByKey(S)[l].path => k = l
<1>1. DOMAIN ByKey(S) = KeysOf(S)
  BY DEF ByKey, KeysOf
<1>2. \A k \in KeysOf(S) : ByKey(S)[k] \in S /\ Key(ByKey(S)[k]) = k
  <2> TAKE k \in KeysOf(S)
  <2>1. ByKey(S)[k] = CHOOSE p \in S : Key(p) = k
    BY DEF ByKey, KeysOf
  <2>2. \E p \in S : Key(p) = k
    BY DEF KeysOf
  <2> QED BY <2>1, <2>2
<1>3. \A k, l \in KeysOf(S) : ByKey(S)[k].path = ByKey(S)[l].path => k = l
  BY <1>2 DEF Snapshot
<1>4. IsFiniteSet(KeysOf(S)) /\ Cardinality(KeysOf(S)) = Cardinality(S)
  <2> DEFINE f == [p \in S |-> Key(p)]
  <2>1. /\ f \in [S -> KeysOf(S)] /\ \A k \in KeysOf(S) : \E p \in S : f[p] = k
        /\ \A p, q \in S : f[p] = f[q] => p = q
    BY DEF KeysOf, Snapshot
  <2> HIDE DEF f
  <2> QED BY <2>1, SameCount DEF Snapshot
<1> QED BY <1>1, <1>2, <1>3, <1>4

\* What MatchLocalWithRemote makes of a snapshot: the same projects, each under one key.
LEMMA RenamedIs ==
  ASSUME NEW from, NEW to, NEW k, NEW r
  PROVE  r \in Renamed(from, to, k) <=>
           /\ r \in DOMAIN to /\ r \notin DOMAIN from /\ k \notin DOMAIN to
           /\ from[k].path = to[r].path
           /\ from[k].name = to[r].name \/ Normal[from[k].remote] = Normal[to[r].remote]
BY DEF Renamed

LEMMA NewKeyIs ==
  ASSUME NEW from, NEW to, NEW k
  PROVE  \/ Renamed(from, to, k) = {} /\ NewKey(from, to, k) = k
         \/ NewKey(from, to, k) \in Renamed(from, to, k)
BY DEF NewKey

\* No two projects of a snapshot get one key: one key means one path.
LEMMA NewKeyOnce ==
  ASSUME NEW S, NEW to, Snapshot(S), NEW j \in KeysOf(S), NEW k \in KeysOf(S),
         NewKey(ByKey(S), to, j) = NewKey(ByKey(S), to, k)
  PROVE  j = k
<1> DEFINE from == ByKey(S)
<1>1. DOMAIN from = KeysOf(S) /\ \A i, l \in KeysOf(S) : from[i].path = from[l].path => i = l
  BY ByKeyIs
<1> HIDE DEF from
<1>2. NewKey(from, to, j) = NewKey(from, to, k)
  BY DEF from
<1> QED BY <1>1, <1>2, NewKeyIs, RenamedIs

LEMMA MatchedIs ==
  ASSUME NEW S, NEW to, Snapshot(S)
  PROVE  LET from == ByKey(S)
             matched == MatchLocalWithRemote(from, to)
         IN  /\ IsFiniteSet(DOMAIN matched) /\ Cardinality(DOMAIN matched) = Cardinality(S)
             /\ \A n \in DOMAIN matched :
                  \E k \in KeysOf(S) : n = NewKey(from, to, k) /\ matched[n] = from[k]
             /\ \A k \in KeysOf(S) : NewKey(from, to, k) \in DOMAIN matched
<1> DEFINE from == ByKey(S)
           matched == MatchLocalWithRemote(from, to)
           f == [k \in KeysOf(S) |-> NewKey(from, to, k)]
<1>1. DOMAIN from = KeysOf(S) /\ IsFiniteSet(KeysOf(S)) /\ Cardinality(KeysOf(S)) = Cardinality(S)
  BY ByKeyIs
<1>2. \A j, k \in KeysOf(S) : NewKey(from, to, j) = NewKey(from, to, k) => j = k
  BY NewKeyOnce
<1> HIDE DEF from
<1>3. DOMAIN matched = {NewKey(from, to, k) : k \in KeysOf(S)}
  BY <1>1 DEF MatchLocalWithRemote
<1>4. \A n \in DOMAIN matched : \E k \in KeysOf(S) : n = NewKey(from, to, k) /\ matched[n] = from[k]
  <2> TAKE n \in DOMAIN matched
  <2>1. matched[n] = from[CHOOSE k \in KeysOf(S) : NewKey(from, to, k) = n]
    BY <1>1, <1>3 DEF MatchLocalWithRemote
  <2>2. \E k \in KeysOf(S) : NewKey(from, to, k) = n
    BY <1>3
  <2> QED BY <2>1, <2>2
<1>5. /\ f \in [KeysOf(S) -> DOMAIN matched] /\ \A n \in DOMAIN matched : \E k \in KeysOf(S) : f[k] = n
      /\ \A j, k \in KeysOf(S) : f[j] = f[k] => j = k
  <2> HIDE DEF matched
  <2> QED BY <1>2, <1>3
<1> HIDE DEF f, matched
<1>6. IsFiniteSet(DOMAIN matched) /\ Cardinality(DOMAIN matched) = Cardinality(KeysOf(S))
  BY <1>1, <1>5, SameCount
<1>7. \A k \in KeysOf(S) : NewKey(from, to, k) \in DOMAIN matched
  BY <1>3
<1> QED BY <1>1, <1>4, <1>6, <1>7 DEF from, matched

\* The first part of DiffRight, and the count of the projects, for any two snapshots.
NoneTwice(from, to) ==
  \A d \in DOMAIN from \ DOMAIN to, a \in DOMAIN to \ DOMAIN from :
     from[d].path = to[a].path =>
       from[d].name # to[a].name /\ Normal[from[d].remote] # Normal[to[a].remote]

\* What is still deleted and what is still new have nothing in common at one path.
LEMMA MatchedRight ==
  ASSUME NEW S, NEW to, Snapshot(S)
  PROVE  NoneTwice(MatchLocalWithRemote(ByKey(S), to), to)
<1> DEFINE from == ByKey(S)
           matched == MatchLocalWithRemote(from, to)
<1>1. DOMAIN from = KeysOf(S)
  BY ByKeyIs
<1>2. /\ \A n \in DOMAIN matched : \E k \in KeysOf(S) : n = NewKey(from, to, k) /\ matched[n] = from[k]
      /\ \A k \in KeysOf(S) : NewKey(from, to, k) \in DOMAIN matched
  BY MatchedIs
<1> HIDE DEF matched, from
<1>3. ASSUME NEW d \in DOMAIN matched \ DOMAIN to, NEW a \in DOMAIN to \ DOMAIN matched,
             matched[d].path = to[a].path
      PROVE  matched[d].name # to[a].name /\ Normal[matched[d].remote] # Normal[to[a].remote]
  <2>1. PICK k \in KeysOf(S) : d = NewKey(from, to, k) /\ matched[d] = from[k]
    BY <1>2
  <2>2. Renamed(from, to, k) = {} /\ d = k
    BY <2>1, NewKeyIs, RenamedIs
  <2>3. a \notin DOMAIN from
    BY <1>1, <1>2, NewKeyIs, RenamedIs
  <2>4. a \notin Renamed(from, to, k) /\ k \notin DOMAIN to
    BY <2>2
  <2> QED BY <1>3, <2>1, <2>3, <2>4, RenamedIs
<1> QED BY <1>3 DEF NoneTwice, matched, from

\* Two finite sets, and what each has on its own.
LEMMA CountBoth ==
  ASSUME NEW S, NEW T, IsFiniteSet(S), IsFiniteSet(T)
  PROVE  Cardinality(S) + Cardinality(T \ S) = Cardinality(T) + Cardinality(S \ T)
<1>1. IsFiniteSet(S \ T) /\ IsFiniteSet(T \ S) /\ IsFiniteSet(S \cap T)
  BY FS_Subset
<1>2. Cardinality(S) \in Nat /\ Cardinality(T) \in Nat /\ Cardinality(S \ T) \in Nat
      /\ Cardinality(T \ S) \in Nat /\ Cardinality(S \cap T) \in Nat
  BY <1>1, FS_CardinalityType
<1>3. Cardinality(S \ T) = Cardinality(S) - Cardinality(S \cap T)
  BY FS_Difference
<1>4. Cardinality(T \ S) = Cardinality(T) - Cardinality(T \cap S)
  BY FS_Difference
<1>5. Cardinality(T \cap S) = Cardinality(S \cap T)
  <2>1. T \cap S = S \cap T
    OBVIOUS
  <2> QED BY <2>1
<1> DEFINE s == Cardinality(S)
           t == Cardinality(T)
           both == Cardinality(S \cap T)
<1>6. /\ Cardinality(S \ T) = s - both /\ Cardinality(T \ S) = t - both
      /\ s \in Nat /\ t \in Nat /\ both \in Nat
  BY <1>2, <1>3, <1>4, <1>5
<1> HIDE DEF s, t, both
<1>7. s + (t - both) = t + (s - both)
  BY <1>6
<1> QED BY <1>6, <1>7 DEF s, t

\* The projects to report as updated, and the revisions a walk may come to.
ToUpdate == {k \in DOMAIN old \cap DOMAIN new : Changed(old, new, k)}
KnownRevs ==
  {new[k].rev : k \in DOMAIN new} \cup {old[k].rev : k \in DOMAIN old} \cup UNION {history[r] : r \in DOMAIN history}
Tasks == [key : {{k} : k \in ToUpdate}, cls : Seq(KnownRevs), at : KnownRevs, error : BOOLEAN]
UpdatedProjects == [key : ToUpdate, cls : Seq(KnownRevs), error : BOOLEAN, hasMoreCls : BOOLEAN]

\* The snapshots, and what is reported right away.
Compared ==
  /\ \E pair \in Snapshots : /\ first = pair[1] /\ new = ByKey(pair[2])
                             /\ old = MatchLocalWithRemote(ByKey(pair[1]), new)
  /\ history \in Histories
  /\ deleted = DOMAIN old \ DOMAIN new /\ added = DOMAIN new \ DOMAIN old

DiffTypes ==
  /\ updatedKeys \subseteq ToUpdate
  /\ worker \in [Jobs -> Tasks \cup {Idle}]
  /\ updated \in Seq(UpdatedProjects)

\* Every project to report is in one place: still to take, with a worker, or reported.
With(k) == {j \in Jobs : worker[j].key = {k}}
OnePlace ==
  \A k \in ToUpdate :
    /\ k \in updatedKeys \/ With(k) # {} \/ Reports(k) # {}
    /\ k \in updatedKeys => With(k) = {} /\ Reports(k) = {}
    /\ With(k) # {} => Reports(k) = {}
    /\ \A i, j \in With(k) : i = j
    /\ \A i, j \in Reports(k) : i = j

\* How far a worker has come: the changes from the new revision back to the one it is at.
Linked(cls) == \A i \in 2..Len(cls) : history[cls[i - 1]] = {cls[i]}
WalkOf(k, t) ==
  /\ Len(t.cls) <= MaxCls
  /\ t.cls # <<>> => t.cls[1] = new[k].rev
  /\ Linked(t.cls)
  /\ \A i \in 1..Len(t.cls) : t.cls[i] # old[k].rev
  /\ ~t.error /\ withCls => IF t.cls = <<>> THEN t.at = new[k].rev ELSE history[t.cls[Len(t.cls)]] = {t.at}
  /\ ~withCls => t.cls = <<>> /\ ~t.error /\ t.at = old[k].rev
Walks == \A j \in Jobs, k \in ToUpdate : worker[j].key = {k} => WalkOf(k, worker[j])

DiffInv ==
  /\ Compared /\ DiffTypes /\ OnePlace /\ Walks
  /\ \A i \in 1..Len(updated) : Chain(updated[i])

LEMMA SnapshotsAre ==
  ASSUME NEW pair \in Snapshots
  PROVE  Snapshot(pair[1]) /\ Snapshot(pair[2])
BY DiffAssumption DEF Snapshot

LEMMA ComparedRight ==
  ASSUME Compared
  PROVE  /\ NoneTwice(old, new)
         /\ Cardinality(first) + Cardinality(added) = Cardinality(DOMAIN new) + Cardinality(deleted)
<1>1. PICK pair \in Snapshots : /\ first = pair[1] /\ new = ByKey(pair[2])
                                /\ old = MatchLocalWithRemote(ByKey(pair[1]), new)
  BY DEF Compared
<1>2. Snapshot(pair[1]) /\ Snapshot(pair[2])
  BY SnapshotsAre
<1>3. NoneTwice(old, new)
  BY <1>1, <1>2, MatchedRight
<1>4. IsFiniteSet(DOMAIN new)
  BY <1>1, <1>2, ByKeyIs
<1>5. IsFiniteSet(DOMAIN old) /\ Cardinality(DOMAIN old) = Cardinality(first)
  BY <1>1, <1>2, MatchedIs
<1>6. Cardinality(DOMAIN old) + Cardinality(DOMAIN new \ DOMAIN old)
        = Cardinality(DOMAIN new) + Cardinality(DOMAIN old \ DOMAIN new)
  BY <1>4, <1>5, CountBoth
<1> QED BY <1>3, <1>5, <1>6 DEF Compared

\* A busy worker has one of the projects to update, an idle one none.
LEMMA IdleOrTask ==
  ASSUME DiffTypes, NEW j \in Jobs
  PROVE  /\ worker[j] # Idle => /\ worker[j] \in Tasks
                                /\ \E k \in ToUpdate : worker[j].key = {k} /\ KeyOf(worker[j]) = k
         /\ worker[j] = Idle => \A k : worker[j].key # {k}
<1>1. worker[j] \in Tasks \cup {Idle}
  BY DEF DiffTypes
<1>2. ASSUME worker[j] \in Tasks
      PROVE  \E k \in ToUpdate : worker[j].key = {k} /\ KeyOf(worker[j]) = k
  <2>1. PICK k \in ToUpdate : worker[j].key = {k}
    BY <1>2 DEF Tasks
  <2>2. KeyOf(worker[j]) = k
    BY <2>1 DEF KeyOf
  <2> QED BY <2>1, <2>2
<1>3. worker[j] = Idle => \A k : worker[j].key # {k}
  BY DEF Idle
<1> QED BY <1>1, <1>2, <1>3

LEMMA DiffInit == getDiff => DiffInv
<1> SUFFICES ASSUME getDiff PROVE DiffInv
  OBVIOUS
<1>1. PICK pair \in Snapshots :
        LET to == ByKey(pair[2])
            from == MatchLocalWithRemote(ByKey(pair[1]), to)
        IN  /\ first = pair[1] /\ old = from /\ new = to
            /\ history \in Histories /\ withCls \in BOOLEAN
            /\ deleted = DOMAIN from \ DOMAIN to
            /\ added = DOMAIN to \ DOMAIN from
            /\ updatedKeys = {k \in DOMAIN from \cap DOMAIN to : Changed(from, to, k)}
            /\ worker = [j \in Jobs |-> Idle]
            /\ updated = <<>>
  BY DEF getDiff
<1>2. Compared
  BY <1>1 DEF Compared
<1>3. updatedKeys = ToUpdate /\ worker = [j \in Jobs |-> Idle] /\ updated = <<>>
  BY <1>1 DEF ToUpdate
<1>4. DiffTypes
  BY <1>3 DEF DiffTypes
<1>5. \A k : \A j \in Jobs : worker[j].key # {k}
  BY <1>3, <1>4, IdleOrTask
<1>6. \A k : With(k) = {} /\ Reports(k) = {}
  <2>1. DOMAIN updated = {}
    BY <1>3
  <2> QED BY <1>5, <2>1 DEF With, Reports
<1>7. OnePlace
  BY <1>3, <1>6 DEF OnePlace
<1>8. Walks /\ \A i \in 1..Len(updated) : Chain(updated[i])
  BY <1>3, <1>5 DEF Walks
<1> QED BY <1>2, <1>4, <1>7, <1>8 DEF DiffInv

\* What no step changes.
Given == <<first, old, new, history, withCls, deleted, added>>
LEMMA GivenStays ==
  ASSUME UNCHANGED Given
  PROVE  /\ ToUpdate' = ToUpdate /\ KnownRevs' = KnownRevs /\ Tasks' = Tasks /\ UpdatedProjects' = UpdatedProjects
         /\ Compared' = Compared
         /\ \A k, t : WalkOf(k, t)' = WalkOf(k, t)
         /\ \A u : Chain(u)' = Chain(u)
<1>1. UNCHANGED <<first, old, new, history, withCls, deleted, added>>
  BY DEF Given
<1>2. ToUpdate' = ToUpdate /\ KnownRevs' = KnownRevs
  BY <1>1 DEF ToUpdate, KnownRevs
<1> QED BY <1>1, <1>2 DEF Tasks, UpdatedProjects, Compared, WalkOf, Linked, Chain

LEMMA NewRevs == ASSUME NEW k \in ToUpdate PROVE {new[k].rev, old[k].rev} \subseteq KnownRevs
BY DEF ToUpdate, KnownRevs

\* A step of a worker with its project; the others stay as they are.
LEMMA WorkerStep ==
  ASSUME DiffInv, NEW j \in Jobs, NEW t \in Tasks, NEW k \in ToUpdate, t.key = {k}, WalkOf(k, t),
         worker' = [worker EXCEPT ![j] = t], UNCHANGED <<Given, updatedKeys, updated>>,
         worker[j].key = {k}
  PROVE  DiffInv'
<1>1. UNCHANGED Given /\ updatedKeys' = updatedKeys /\ updated' = updated
  OBVIOUS
<1>2. \A i \in Jobs : worker'[i] = IF i = j THEN t ELSE worker[i]
  BY DEF DiffInv, DiffTypes
<1>3. Compared' /\ DiffTypes' /\ (\A i \in 1..Len(updated) : Chain(updated[i]))'
  BY <1>1, GivenStays DEF DiffInv, DiffTypes
<1>4. \A l : With(l)' = With(l) /\ Reports(l)' = Reports(l)
  BY <1>1, <1>2 DEF With, Reports
<1>5. OnePlace'
  BY <1>1, <1>4, GivenStays DEF DiffInv, OnePlace
<1>6. Walks'
  BY <1>1, <1>2, GivenStays DEF DiffInv, Walks
<1> QED BY <1>3, <1>5, <1>6 DEF DiffInv

\* A key that is taken goes from the channel to the worker.
LEMMA TakeSafe ==
  ASSUME DiffInv, NEW j \in Jobs, NEW k \in updatedKeys, Take(j, k)
  PROVE  DiffInv'
<1> DEFINE t == [key |-> {k}, cls |-> <<>>, at |-> IF withCls THEN new[k].rev ELSE old[k].rev,
                 error |-> withCls /\ old[k].rev # new[k].rev /\ ~new[k].gerrit]
<1>1. UNCHANGED Given /\ updatedKeys' = updatedKeys \ {k} /\ updated' = updated /\ worker[j] = Idle
  BY DEF Take, Given
<1>2. worker' = [worker EXCEPT ![j] = t]
  BY DEF Take
<1>3. k \in ToUpdate
  BY DEF DiffInv, DiffTypes
<1>4. /\ t \in Tasks /\ t.key = {k} /\ t.cls = <<>>
      /\ t.at = IF withCls THEN new[k].rev ELSE old[k].rev
      /\ ~withCls => t.error = FALSE
  <2> DEFINE at == IF withCls THEN new[k].rev ELSE old[k].rev
             error == withCls /\ old[k].rev # new[k].rev /\ ~new[k].gerrit
  <2>1. at \in KnownRevs
    BY <1>3, NewRevs
  <2>2. error \in BOOLEAN /\ (~withCls => error = FALSE)
    OBVIOUS
  <2>3. t = [key |-> {k}, cls |-> <<>>, at |-> at, error |-> error]
    OBVIOUS
  <2>4. at = IF withCls THEN new[k].rev ELSE old[k].rev
    OBVIOUS
  <2> HIDE DEF at, error, t
  <2> QED BY <1>3, <2>1, <2>2, <2>3, <2>4 DEF Tasks
<1> HIDE DEF t
<1>5. WalkOf(k, t)
  BY <1>4, DiffAssumption DEF WalkOf, Linked
<1>6. \A i \in Jobs : worker'[i] = IF i = j THEN t ELSE worker[i]
  BY <1>2 DEF DiffInv, DiffTypes
<1>7. Compared' /\ DiffTypes' /\ (\A i \in 1..Len(updated) : Chain(updated[i]))'
  BY <1>1, <1>2, <1>4, GivenStays DEF DiffInv, DiffTypes
<1>8. \A l : worker[j].key # {l}
  BY <1>1, IdleOrTask DEF DiffInv
<1>9. \A l : Reports(l)' = Reports(l) /\ With(l)' = IF l = k THEN With(l) \cup {j} ELSE With(l)
  BY <1>1, <1>4, <1>6, <1>8 DEF With, Reports
<1>10. OnePlace'
  <2>1. \A l \in ToUpdate \ {k} : With(l)' = With(l) /\ Reports(l)' = Reports(l)
    BY <1>9
  <2>2. With(k) = {} /\ Reports(k) = {}
    BY <1>3 DEF DiffInv, OnePlace
  <2>3. With(k)' = {j} /\ Reports(k)' = {}
    BY <1>9, <2>2
  <2>4. ToUpdate' = ToUpdate
    BY <1>1, GivenStays
  <2> QED BY <1>1, <2>1, <2>3, <2>4 DEF DiffInv, OnePlace
<1>11. Walks'
  BY <1>1, <1>4, <1>5, <1>6, GivenStays DEF DiffInv, Walks
<1> QED BY <1>7, <1>10, <1>11 DEF DiffInv

\* A walk with one more change.
\* A sequence with one more element.
LEMMA AppendIs ==
  ASSUME NEW S, NEW cls \in Seq(S), NEW r \in S
  PROVE  /\ Append(cls, r) \in Seq(S) /\ Len(Append(cls, r)) = Len(cls) + 1 /\ Len(cls) \in Nat
         /\ \A i \in 1..Len(cls) : Append(cls, r)[i] = cls[i]
         /\ Append(cls, r)[Len(cls) + 1] = r
         /\ Append(cls, r) # <<>>
<1>1. /\ Append(cls, r) \in Seq(S) /\ Len(Append(cls, r)) = Len(cls) + 1 /\ Len(cls) \in Nat
      /\ \A i \in 1..Len(cls) : Append(cls, r)[i] = cls[i]
      /\ Append(cls, r)[Len(cls) + 1] = r
  OBVIOUS
<1>2. Len(<<>>) = 0
  OBVIOUS
<1>3. Append(cls, r) # <<>>
  <2> SUFFICES ASSUME Append(cls, r) = <<>> PROVE FALSE
    OBVIOUS
  <2>1. Len(cls) + 1 = 0
    BY <1>1, <1>2
  <2> QED BY <1>1, <2>1
<1> QED BY <1>1, <1>3

LEMMA LinkedMore ==
  ASSUME NEW S, NEW cls \in Seq(S), NEW r \in S, Linked(cls), cls # <<>> => history[cls[Len(cls)]] = {r}
  PROVE  /\ Linked(Append(cls, r)) /\ Append(cls, r) \in Seq(S) /\ Len(Append(cls, r)) = Len(cls) + 1
         /\ \A i \in 1..Len(cls) : Append(cls, r)[i] = cls[i]
         /\ Append(cls, r)[Len(cls) + 1] = r /\ Append(cls, r) # <<>> /\ Len(cls) \in Nat
<1>1. /\ Append(cls, r) \in Seq(S) /\ Len(Append(cls, r)) = Len(cls) + 1 /\ Len(cls) \in Nat
      /\ \A i \in 1..Len(cls) : Append(cls, r)[i] = cls[i]
      /\ Append(cls, r)[Len(cls) + 1] = r /\ Append(cls, r) # <<>>
  BY AppendIs
<1> DEFINE more == Append(cls, r)
<1>2. ASSUME NEW i \in 2..Len(cls) + 1 PROVE history[more[i - 1]] = {more[i]}
  <2> HIDE DEF more
  <2>1. /\ Len(cls) \in Nat /\ \A l \in 1..Len(cls) : more[l] = cls[l]
        /\ more[Len(cls) + 1] = r
    BY <1>1 DEF more
  <2>2. CASE i \in 2..Len(cls)
    BY <2>1, <2>2 DEF Linked
  <2>3. CASE i = Len(cls) + 1
    BY <2>1, <2>3
  <2> QED BY <2>1, <2>2, <2>3
<1> QED BY <1>1, <1>2 DEF Linked

\* What the walk is after a change is listed, with any error.
LEMMA WalkMore ==
  ASSUME NEW k, NEW t \in Tasks, NEW u \in Tasks, WalkOf(k, t), ~t.error,
         t.at # old[k].rev, Len(t.cls) < MaxCls, u.cls = Append(t.cls, t.at),
         u.error \/ history[t.at] = {u.at}
  PROVE  WalkOf(k, u)
<1>1. t.cls \in Seq(KnownRevs) /\ t.at \in KnownRevs /\ u.cls \in Seq(KnownRevs)
  BY DEF Tasks
<1>7. withCls
  BY DEF WalkOf
<1>2. /\ Linked(t.cls) /\ \A i \in 1..Len(t.cls) : t.cls[i] # old[k].rev
      /\ IF t.cls = <<>> THEN t.at = new[k].rev ELSE history[t.cls[Len(t.cls)]] = {t.at}
      /\ t.cls # <<>> => t.cls[1] = new[k].rev
  BY <1>7 DEF WalkOf
<1>3. /\ Linked(u.cls) /\ Len(u.cls) = Len(t.cls) + 1 /\ u.cls # <<>> /\ Len(t.cls) \in Nat
      /\ \A i \in 1..Len(t.cls) : u.cls[i] = t.cls[i]
      /\ u.cls[Len(t.cls) + 1] = t.at
  BY <1>1, <1>2, LinkedMore
<1>4. u.cls[1] = new[k].rev
  <2>1. CASE t.cls = <<>>
    <3>1. Len(t.cls) = 0
      BY <2>1
    <3> QED BY <1>2, <1>3, <2>1, <3>1
  <2>2. CASE t.cls # <<>>
    <3>1. 1 \in 1..Len(t.cls)
      BY <1>1, <2>2
    <3> QED BY <1>2, <1>3, <2>2, <3>1
  <2> QED BY <2>1, <2>2
<1>5. \A i \in 1..Len(u.cls) : u.cls[i] # old[k].rev
  BY <1>2, <1>3
<1>6. Len(u.cls) <= MaxCls
  BY <1>3, DiffAssumption
<1> QED BY <1>3, <1>4, <1>5, <1>6, <1>7 DEF WalkOf

\* A worker lists one change more, or fails.
LEMMA AskSafe ==
  ASSUME DiffInv, NEW j \in Jobs, AskChange(j)
  PROVE  DiffInv'
<1> DEFINE t == worker[j]
<1>1. t # Idle /\ MoreToAsk(t) /\ UNCHANGED <<Given, updatedKeys, updated>>
  BY DEF AskChange, Given
<1>2. PICK k \in ToUpdate : t.key = {k} /\ KeyOf(t) = k /\ t \in Tasks
  BY <1>1, IdleOrTask DEF DiffInv
<1>3. WalkOf(k, t) /\ t.at # old[k].rev /\ ~t.error /\ Len(t.cls) < MaxCls
  BY <1>1, <1>2 DEF DiffInv, Walks, MoreToAsk
<1>4. CASE worker' = [worker EXCEPT ![j] = Failed(t)]
  <2>1. /\ Failed(t) \in Tasks /\ Failed(t).key = {k} /\ Failed(t).cls = t.cls /\ Failed(t).error
    BY <1>2 DEF Failed, Tasks
  <2>2. WalkOf(k, Failed(t))
    BY <1>3, <2>1 DEF WalkOf
  <2> QED BY <1>1, <1>2, <1>4, <2>1, <2>2, WorkerStep
<1>5. CASE /\ t.at \in DOMAIN history
           /\ worker' = [worker EXCEPT ![j] =
                IF Cardinality(history[t.at]) # 1 THEN Failed(Listed(t))
                ELSE [Listed(t) EXCEPT !.at = CHOOSE r \in history[t.at] : TRUE]]
  <2> DEFINE u == IF Cardinality(history[t.at]) # 1 THEN Failed(Listed(t))
                  ELSE [Listed(t) EXCEPT !.at = CHOOSE r \in history[t.at] : TRUE]
  <2>1. Append(t.cls, t.at) \in Seq(KnownRevs)
    BY <1>2 DEF Tasks
  <2>2. /\ Listed(t) \in Tasks /\ Listed(t).key = {k} /\ Listed(t).cls = Append(t.cls, t.at)
    BY <1>2, <2>1 DEF Listed, Tasks
  <2>3. u \in Tasks /\ u.key = {k} /\ u.cls = Append(t.cls, t.at) /\ (u.error \/ history[t.at] = {u.at})
    <3>1. CASE Cardinality(history[t.at]) # 1
      BY <2>2, <3>1 DEF Failed, Tasks
    <3>2. CASE Cardinality(history[t.at]) = 1
      <4>1. IsFiniteSet(history[t.at])
        BY <1>5, DiffAssumption DEF DiffInv, Compared
      <4>2. PICK r : history[t.at] = {r}
        BY <3>2, <4>1, FS_Singleton
      <4>3. (CHOOSE x \in history[t.at] : TRUE) = r
        BY <4>2
      <4>4. r \in KnownRevs
        BY <1>5, <4>2 DEF KnownRevs
      <4>5. u = [Listed(t) EXCEPT !.at = r]
        BY <3>2, <4>3
      <4> HIDE DEF u
      <4> QED BY <2>2, <4>2, <4>4, <4>5 DEF Tasks
    <3> QED BY <3>1, <3>2
  <2>4. worker' = [worker EXCEPT ![j] = u]
    BY <1>5
  <2> HIDE DEF u
  <2>5. WalkOf(k, u)
    BY <1>2, <1>3, <2>3, WalkMore
  <2> QED BY <1>1, <1>2, <2>3, <2>4, <2>5, WorkerStep
<1> QED BY <1>4, <1>5 DEF AskChange

\* A project that is reported goes from the worker to the channel of the updated ones.
LEMMA ReportSafe ==
  ASSUME DiffInv, NEW j \in Jobs, Report(j)
  PROVE  DiffInv'
<1> DEFINE t == worker[j]
           u == [key |-> KeyOf(t), cls |-> t.cls, error |-> t.error,
                 hasMoreCls |-> t.at # old[KeyOf(t)].rev /\ ~t.error]
<1>1. t # Idle /\ ~MoreToAsk(t) /\ UNCHANGED Given /\ updatedKeys' = updatedKeys
  BY DEF Report, Given
<1>2. PICK k \in ToUpdate : t.key = {k} /\ KeyOf(t) = k /\ t \in Tasks
  BY <1>1, IdleOrTask DEF DiffInv
<1>3. WalkOf(k, t) /\ (t.at = old[k].rev \/ t.error \/ ~(Len(t.cls) < MaxCls))
  BY <1>1, <1>2 DEF DiffInv, Walks, MoreToAsk
<1>4. /\ u \in UpdatedProjects /\ u.key = k /\ u.cls = t.cls /\ u.error = t.error
      /\ u.hasMoreCls = (t.at # old[k].rev /\ ~t.error)
  BY <1>2 DEF UpdatedProjects, Tasks
<1>5. updated' = Append(updated, u) /\ worker' = [worker EXCEPT ![j] = Idle]
  BY DEF Report
<1> HIDE DEF u
<1>6. Chain(u)
  <2>1. /\ t.cls \in Seq(KnownRevs) /\ Len(t.cls) \in Nat
        /\ t.cls # <<>> => Head(t.cls) = t.cls[1] /\ Last(t.cls) = t.cls[Len(t.cls)]
    BY <1>2 DEF Tasks, Last
  <2>2. DOMAIN t.cls = 1..Len(t.cls)
    BY <2>1
  <2>3. u.hasMoreCls => ~u.error /\ Len(t.cls) = MaxCls
    <3> SUFFICES ASSUME u.hasMoreCls PROVE ~u.error /\ Len(t.cls) = MaxCls
      OBVIOUS
    <3>1. t.at # old[k].rev /\ ~t.error
      BY <1>4
    <3>2. ~(Len(t.cls) < MaxCls) /\ Len(t.cls) <= MaxCls
      BY <1>3, <3>1 DEF WalkOf
    <3>3. Len(t.cls) = MaxCls
      BY <2>1, <3>2, DiffAssumption
    <3> QED BY <1>4, <3>1, <3>3
  <2>4. ~u.error /\ ~u.hasMoreCls => t.at = old[k].rev
    BY <1>4
  <2>5. \A i \in 2..Len(t.cls) : history[t.cls[i - 1]] = {t.cls[i]}
    BY <1>3 DEF WalkOf, Linked
  <2>6. ~u.error /\ ~u.hasMoreCls =>
          IF t.cls = <<>> THEN withCls => old[k].rev = new[k].rev ELSE history[Last(t.cls)] = {old[k].rev}
    BY <1>3, <1>4, <2>1, <2>4 DEF WalkOf
  <2>7. ~withCls => u.cls = <<>> /\ ~u.error /\ ~u.hasMoreCls
    BY <1>3, <1>4 DEF WalkOf
  <2> QED BY <1>3, <1>4, <2>1, <2>2, <2>3, <2>5, <2>6, <2>7 DEF Chain, WalkOf
<1>7. updated \in Seq(UpdatedProjects)
  BY DEF DiffInv, DiffTypes
<1>8. /\ updated' \in Seq(UpdatedProjects) /\ Len(updated') = Len(updated) + 1 /\ Len(updated) \in Nat
      /\ \A i \in 1..Len(updated) : updated'[i] = updated[i]
      /\ updated'[Len(updated) + 1] = u
      /\ DOMAIN updated = 1..Len(updated) /\ DOMAIN updated' = 1..Len(updated) + 1
  BY <1>4, <1>5, <1>7
<1>9. \A i \in Jobs : worker'[i] = IF i = j THEN Idle ELSE worker[i]
  BY <1>5 DEF DiffInv, DiffTypes
<1>10. Compared' /\ DiffTypes'
  BY <1>1, <1>5, <1>8, GivenStays DEF DiffInv, DiffTypes
<1>11. (\A i \in 1..Len(updated) : Chain(updated[i]))'
  <2>1. \A i \in 1..Len(updated) + 1 : Chain(updated'[i])
    BY <1>6, <1>8 DEF DiffInv
  <2> QED BY <1>1, <1>8, <2>1, GivenStays
<1>12. \A l : Reports(l)' = IF l = k THEN Reports(l) \cup {Len(updated) + 1} ELSE Reports(l)
  <2> TAKE l
  <2>1. \A i \in 1..Len(updated) + 1 : i \in 1..Len(updated) \/ i = Len(updated) + 1
    BY <1>8
  <2>2. Reports(l)' = {i \in 1..Len(updated) + 1 : updated'[i].key = l}
    BY <1>8 DEF Reports
  <2>3. Reports(l) = {i \in 1..Len(updated) : updated[i].key = l}
    BY <1>8 DEF Reports
  <2> QED BY <1>4, <1>8, <2>1, <2>2, <2>3
<1>13. \A l : With(l)' = IF l = k THEN With(l) \ {j} ELSE With(l)
  <2>1. \A l : Idle.key # {l}
    BY DEF Idle
  <2> QED BY <1>2, <1>9, <2>1 DEF With
<1>14. j \in With(k)
  BY <1>2 DEF With
<1>15. OnePlace'
  <2>1. \A l \in ToUpdate \ {k} : With(l)' = With(l) /\ Reports(l)' = Reports(l)
    BY <1>12, <1>13
  <2>2. With(k) = {j} /\ Reports(k) = {} /\ k \notin updatedKeys
    BY <1>14 DEF DiffInv, OnePlace
  <2>3. With(k)' = {} /\ Reports(k)' = {Len(updated) + 1}
    BY <1>12, <1>13, <2>2
  <2>4. ToUpdate' = ToUpdate
    BY <1>1, GivenStays
  <2> QED BY <1>1, <2>1, <2>2, <2>3, <2>4 DEF DiffInv, OnePlace
<1>16. Walks'
  <2>1. \A l : Idle.key # {l}
    BY DEF Idle
  <2>2. \A i \in Jobs, l \in ToUpdate : worker'[i].key = {l} => WalkOf(l, worker'[i])
    BY <1>9, <2>1 DEF DiffInv, Walks
  <2> QED BY <1>1, <2>2, GivenStays DEF Walks
<1> QED BY <1>10, <1>11, <1>15, <1>16 DEF DiffInv

LEMMA DiffStays == ASSUME DiffInv, UNCHANGED diffVars PROVE DiffInv'
<1>1. UNCHANGED Given /\ updatedKeys' = updatedKeys /\ worker' = worker /\ updated' = updated
  BY DEF diffVars, Given
<1>2. \A k : With(k)' = With(k) /\ Reports(k)' = Reports(k)
  BY <1>1 DEF With, Reports
<1> QED BY <1>1, <1>2, GivenStays DEF DiffInv, DiffTypes, OnePlace, Walks

LEMMA DiffStep == DiffInv /\ [DiffNext]_diffVars => DiffInv'
BY TakeSafe, AskSafe, ReportSafe, DiffStays DEF DiffNext

\* When all are done, what is to be reported has been.
LEMMA DiffEnds == DiffInv => DiffRight
<1> SUFFICES ASSUME DiffInv PROVE DiffRight
  OBVIOUS
<1>1. /\ NoneTwice(old, new) /\ deleted = DOMAIN old \ DOMAIN new /\ added = DOMAIN new \ DOMAIN old
      /\ Cardinality(first) + Cardinality(added) = Cardinality(DOMAIN new) + Cardinality(deleted)
  BY ComparedRight DEF DiffInv, Compared
<1>2. updated \in Seq(UpdatedProjects) /\ DOMAIN updated = 1..Len(updated)
  BY DEF DiffInv, DiffTypes
<1>3. ASSUME Done, NEW k
      PROVE  Cardinality(Reports(k)) =
               IF k \in DOMAIN old \cap DOMAIN new /\ Changed(old, new, k) THEN 1 ELSE 0
  <2>1. CASE k \in ToUpdate
    <3>1. With(k) = {}
      BY <1>3, IdleOrTask DEF DiffInv, Done, With
    <3>2. Reports(k) # {} /\ \A i, j \in Reports(k) : i = j
      BY <1>3, <2>1, <3>1 DEF DiffInv, OnePlace, Done
    <3>3. PICK i : Reports(k) = {i}
      BY <3>2
    <3> QED BY <2>1, <3>3, FS_Singleton DEF ToUpdate
  <2>2. CASE k \notin ToUpdate
    <3>1. \A i \in 1..Len(updated) : updated[i].key \in ToUpdate
      <4>1. \A i \in 1..Len(updated) : updated[i] \in UpdatedProjects
        BY <1>2
      <4> QED BY <4>1 DEF UpdatedProjects
    <3>2. Reports(k) = {}
      BY <1>2, <2>2, <3>1 DEF Reports
    <3> QED BY <2>2, <3>2, FS_EmptySet DEF ToUpdate
  <2> QED BY <2>1, <2>2
<1>4. \A i \in DOMAIN updated : Chain(updated[i])
  BY <1>2 DEF DiffInv
<1> QED BY <1>1, <1>3, <1>4 DEF DiffRight, NoneTwice

\* jiri diff reports every project that differs once, a moved or renamed one not as two,
\* and of an updated one the changes between its revisions.
THEOREM DiffIsRight == DiffSpec => []DiffRight
BY DiffInit, DiffStep, DiffEnds, PTL DEF DiffSpec
=============================================================================
