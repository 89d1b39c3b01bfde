--------------------------- MODULE CommandsProofs ---------------------------
(* Proofs about Commands. *)
EXTENDS Commands, FiniteSetTheorems, TLAPS

-----------------------------------------------------------------------------
(* Sequences and revisions. *)

\* What is kept of a sequence are all its elements but those to be left out: the places
\* of the kept elements count them off.
LEMMA WithoutRange ==
  ASSUME NEW T, NEW s \in Seq(T), NEW S
  PROVE  /\ Without(s, S) \in Seq(T)
         /\ Range(Without(s, S)) = Range(s) \ S
         /\ IsInjective(s) => IsInjective(Without(s, S))
<1> DEFINE K == Kept(s, S)
           n == Cardinality(K)
           At(i) == {j \in K : j <= i}
           f == [i \in K |-> Cardinality(At(i))]
           Nth(k) == CHOOSE i \in K : PlaceOf(s, S, i) = k
<1>1. K \subseteq 1..Len(s) /\ K \subseteq DOMAIN s
  BY DEF Kept
<1>2. IsFiniteSet(K) /\ n \in Nat
  <2>1. Len(s) \in Int /\ K \in SUBSET (1..Len(s))
    BY <1>1
  <2>2. IsFiniteSet(1..Len(s))
    BY <2>1, FS_Interval
  <2>3. IsFiniteSet(K)
    BY <2>1, <2>2, FS_Subset
  <2> QED BY <2>3, FS_CardinalityType
<1>3. \A i \in K : IsFiniteSet(At(i)) /\ f[i] \in 1..n
  <2> SUFFICES ASSUME NEW i \in K PROVE IsFiniteSet(At(i)) /\ Cardinality(At(i)) \in 1..n
    OBVIOUS
  <2>1. At(i) \in SUBSET K
    OBVIOUS
  <2>2. IsFiniteSet(At(i)) /\ Cardinality(At(i)) <= n /\ Cardinality(At(i)) \in Nat
    BY <2>1, <1>2, FS_Subset, FS_CardinalityType
  <2>3. i \in At(i)
    BY <1>1
  <2>4. Cardinality(At(i)) # 0
    BY <2>2, <2>3, FS_EmptySet
  <2> QED BY <2>2, <2>4, <1>2
<1>4. \A i, j \in K : f[i] = f[j] => i = j
  <2>1. ASSUME NEW i \in K, NEW j \in K, i < j, f[i] = f[j] PROVE FALSE
    <3>1. At(i) \in SUBSET At(j)
      BY <2>1, <1>1
    <3>2. At(i) = At(j)
      BY <3>1, <1>3, <2>1, FS_Subset
    <3>3. j \in At(j) /\ j \notin At(i)
      BY <1>1, <2>1
    <3> QED BY <3>2, <3>3
  <2>2. \A i, j \in K : i < j \/ j < i \/ i = j
    BY <1>1
  <2> HIDE DEF f, K
  <2> QED BY <2>1, <2>2
<1>5. f \in Injection(K, 1..n)
  BY <1>3, <1>4 DEF Injection, IsInjective
<1>6. f \in Surjection(K, 1..n)
  <2>1. IsFiniteSet(1..n) /\ Cardinality(1..n) = n
    BY <1>2, FS_Interval
  <2> QED BY <1>5, <2>1, FS_Injection
<1>7. \A k \in 1..n : \E i \in K : PlaceOf(s, S, i) = k
  <2>1. \A k \in 1..n : \E i \in K : f[i] = k
    BY <1>6 DEF Surjection
  <2> QED BY <2>1 DEF PlaceOf
<1>8. \A k \in 1..n : Nth(k) \in K /\ PlaceOf(s, S, Nth(k)) = k
  BY <1>7
<1>9. Without(s, S) = [k \in 1..n |-> s[Nth(k)]]
  BY DEF Without
<1>10. \A k \in 1..n : s[Nth(k)] \in Range(s) \ S /\ s[Nth(k)] \in T
  <2>1. \A i \in K : s[i] \in Range(s) /\ s[i] \notin S /\ s[i] \in T
    BY DEF Kept, Range
  <2> HIDE DEF K, Nth, n
  <2> QED BY <2>1, <1>8
<1>11. \A i \in K : f[i] \in 1..n /\ Nth(f[i]) = i
  <2> SUFFICES ASSUME NEW i \in K PROVE f[i] \in 1..n /\ Nth(f[i]) = i
    OBVIOUS
  <2>1. f[i] \in 1..n
    BY <1>3
  <2>2. Nth(f[i]) \in K /\ f[Nth(f[i])] = f[i]
    BY <2>1, <1>8 DEF PlaceOf
  <2> QED BY <2>1, <2>2, <1>4
<1>12. \A x \in Range(s) \ S : \E k \in 1..n : s[Nth(k)] = x
  <2> SUFFICES ASSUME NEW i \in DOMAIN s, s[i] \notin S
               PROVE  \E k \in 1..n : s[Nth(k)] = s[i]
    BY DEF Range
  <2>1. i \in K
    BY DEF Kept
  <2> QED BY <2>1, <1>11
<1>13. \A k \in 1..n : Nth(k) \in DOMAIN s
  BY <1>1, <1>8
<1>14. \A j, k \in 1..n : Nth(j) = Nth(k) => j = k
  <2> HIDE DEF Nth
  <2> QED BY <1>8
<1> HIDE DEF K, n, Nth
<1>15. IsInjective(s) => IsInjective(Without(s, S))
  <2> SUFFICES ASSUME IsInjective(s), NEW j \in 1..n, NEW k \in 1..n, s[Nth(j)] = s[Nth(k)] PROVE j = k
    BY <1>9 DEF IsInjective
  <2> QED BY <1>13, <1>14 DEF IsInjective
<1>16. Without(s, S) \in Seq(T)
  BY <1>9, <1>10, <1>2
<1>17. Range(Without(s, S)) = {s[Nth(k)] : k \in 1..n}
  BY <1>9 DEF Range
<1> QED BY <1>16, <1>17, <1>10, <1>12, <1>15

LEMMA ConcatRange ==
  ASSUME NEW T, NEW s \in Seq(T), NEW t \in Seq(T)
  PROVE  s \o t \in Seq(T) /\ Range(s \o t) = Range(s) \cup Range(t)
<1>1. Range(s) \cup Range(t) \subseteq Range(s \o t)
  <2>1. \A i \in DOMAIN s : i \in DOMAIN (s \o t) /\ (s \o t)[i] = s[i]
    OBVIOUS
  <2>2. \A i \in DOMAIN t : Len(s) + i \in DOMAIN (s \o t) /\ (s \o t)[Len(s) + i] = t[i]
    OBVIOUS
  <2> QED BY <2>1, <2>2 DEF Range
<1>2. Range(s \o t) \subseteq Range(s) \cup Range(t)
  <2> SUFFICES ASSUME NEW i \in DOMAIN (s \o t) PROVE (s \o t)[i] \in Range(s) \cup Range(t)
    BY DEF Range
  <2>1. CASE i \in DOMAIN s
    BY <2>1 DEF Range
  <2>2. CASE i \notin DOMAIN s
    <3>1. i - Len(s) \in DOMAIN t /\ (s \o t)[i] = t[i - Len(s)]
      BY <2>2
    <3> QED BY <3>1 DEF Range
  <2> QED BY <2>1, <2>2
<1> QED BY <1>1, <1>2

\* A rebased branch is based where the other is, with the changes of both.
LEMMA RebasedIs ==
  ASSUME NEW x \in Revs, NEW y \in Revs
  PROVE  /\ Rebased(x, y) \in Revs
         /\ Rebased(x, y).base = y.base
         /\ Range(Rebased(x, y).own) = Range(y.own) \cup Range(x.own)
<1> DEFINE w == Without(x.own, Range(y.own))
<1>1. w \in Seq(Changes) /\ Range(w) = Range(x.own) \ Range(y.own)
  BY WithoutRange DEF Revs
<1>2. y.own \o w \in Seq(Changes) /\ Range(y.own \o w) = Range(y.own) \cup Range(w)
  BY <1>1, ConcatRange DEF Revs
<1> QED BY <1>1, <1>2 DEF Rebased, Rev, Revs

\* What is rebased is on top of what it was rebased on.
LEMMA RebasedOnTop ==
  ASSUME NEW x \in Revs, NEW y \in Revs
  PROVE  IsAncestor(y, Rebased(x, y))
<1> DEFINE w == Without(x.own, Range(y.own))
<1>1. w \in Seq(Changes) /\ y.own \in Seq(Changes)
  BY WithoutRange DEF Revs
<1>2. Rebased(x, y) = [base |-> y.base, own |-> y.own \o w]
  BY DEF Rebased, Rev
<1> HIDE DEF w
<1>3. IsPrefix(y.own, y.own \o w)
  BY <1>1 DEF IsPrefix
<1> QED BY <1>2, <1>3 DEF IsAncestor

\* A revision has all changes of its ancestors.
LEMMA AncestorHas ==
  ASSUME NEW x \in Revs, NEW y \in Revs, IsAncestor(x, y)
  PROVE  Range(x.own) \subseteq Range(y.own)
<1>1. CASE x.own = <<>>
  BY <1>1 DEF Range
<1>2. CASE IsPrefix(x.own, y.own)
  <2>1. x.own \in Seq(Changes) /\ y.own \in Seq(Changes)
    BY DEF Revs
  <2>2. \A i \in DOMAIN x.own : i \in DOMAIN y.own /\ x.own[i] = y.own[i]
    BY <1>2, <2>1 DEF IsPrefix
  <2> QED BY <2>2 DEF Range
<1> QED BY <1>1, <1>2 DEF IsAncestor

\* Every element of a finite set is in each of its sequences.
LEMMA SeqOfSet ==
  ASSUME NEW S, IsFiniteSet(S), NEW s \in SetToSeqs(S)
  PROVE  s \in Seq(S) /\ Range(s) = S /\ IsInjective(s)
<1> DEFINE n == Cardinality(S)
<1>1. n \in Nat /\ IsFiniteSet(1..n) /\ Cardinality(1..n) = n
  <2>1. n \in Nat
    BY FS_CardinalityType
  <2> QED BY <2>1, FS_Interval
<1>2. s \in [1..n -> S] /\ \A i, j \in 1..n : i # j => s[i] # s[j]
  BY DEF SetToSeqs
<1>3. s \in Injection(1..n, S)
  BY <1>2 DEF Injection, IsInjective
<1>4. s \in Surjection(1..n, S)
  BY <1>1, <1>3, FS_Injection
<1> HIDE DEF n
<1>5. Range(s) = S
  BY <1>2, <1>4 DEF Surjection, Range
<1> QED BY <1>1, <1>2, <1>3, <1>5 DEF Injection
-----------------------------------------------------------------------------
(* Repositories. *)

\* The revision of a ref that exists.
LEMMA RevisionType ==
  ASSUME NEW r, IsRepository(r)
  PROVE  /\ HeadOf(r) \in Revs
         /\ HeadOf(r) = IF r.on = "none" THEN r.at ELSE r.tip[r.on]
         /\ \A b : Exists(r, Local(b)) <=> b \in DOMAIN r.tip
         /\ \A b : Exists(r, Remote(b)) <=> b \in DOMAIN r.origin
         /\ \A b : RevisionOf(r, Local(b)) = r.tip[b]
         /\ \A b : RevisionOf(r, Remote(b)) = r.origin[b]
         /\ \A b \in DOMAIN r.tip : r.tip[b] \in Revs
         /\ \A b \in DOMAIN r.origin : r.origin[b] \in Revs
         /\ ~Exists(r, NoRef)
<1>1. RevisionOf(r, HeadRef) = IF r.on = "none" THEN r.at ELSE r.tip[r.on]
  BY DEF RevisionOf, HeadRef, FetchHead
<1>2. \A b \in DOMAIN r.tip : r.tip[b] \in Revs
  BY DEF IsRepository, PartOf
<1>3. \A b \in DOMAIN r.origin : r.origin[b] \in Revs
  BY DEF IsRepository, PartOf
<1>4. r.at \in Revs /\ r.on \in DOMAIN r.tip \cup {"none"}
  BY DEF IsRepository
<1>5. HeadOf(r) \in Revs /\ HeadOf(r) = IF r.on = "none" THEN r.at ELSE r.tip[r.on]
  BY <1>1, <1>2, <1>4 DEF HeadOf
<1>6. \A b : Exists(r, Local(b)) <=> b \in DOMAIN r.tip
  BY DEF Exists, Local
<1>7. \A b : Exists(r, Remote(b)) <=> b \in DOMAIN r.origin
  BY DEF Exists, Remote
<1>8. \A b : RevisionOf(r, Local(b)) = r.tip[b]
  BY DEF RevisionOf, Local, HeadRef, FetchHead
<1>9. \A b : RevisionOf(r, Remote(b)) = r.origin[b]
  BY DEF RevisionOf, Remote, HeadRef, FetchHead
<1>10. ~Exists(r, NoRef)
  BY DEF Exists, NoRef
<1> QED BY <1>2, <1>3, <1>5, <1>6, <1>7, <1>8, <1>9, <1>10

\* What moves when a commit is made is HEAD, and the branch it is on.
LEMMA SetHeadIs ==
  ASSUME NEW r, IsRepository(r), NEW x \in Revs
  PROVE  /\ IsRepository(SetHead(r, x))
         /\ HeadOf(SetHead(r, x)) = x
         /\ SetHead(r, x).on = r.on /\ DOMAIN SetHead(r, x).tip = DOMAIN r.tip
         /\ \A b \in DOMAIN r.tip : SetHead(r, x).tip[b] = IF b = r.on THEN x ELSE r.tip[b]
         /\ SetHead(r, x).origin = r.origin /\ SetHead(r, x).theirs = r.theirs
         /\ SetHead(r, x).midway = r.midway
<1> DEFINE s == SetHead(r, x)
<1>0. "none" \notin DOMAIN r.tip
  BY NamesAssumption DEF IsRepository, PartOf
<1>1. CASE r.on = "none"
  <2>1. s = [r EXCEPT !.at = x]
    BY <1>1 DEF SetHead
  <2>2. s.tip = r.tip /\ s.on = r.on /\ s.at = x /\ s.origin = r.origin /\ s.theirs = r.theirs /\ s.midway = r.midway /\ s.up = r.up
    BY <2>1 DEF IsRepository
  <2>3. IsRepository(s)
    BY <2>1 DEF IsRepository
  <2>4. HeadOf(s) = x
    BY <1>1, <2>2, <2>3, RevisionType
  <2> QED BY <2>2, <2>3, <2>4, <1>0, <1>1
<1>2. CASE r.on # "none"
  <2>1. s = [r EXCEPT !.tip[r.on] = x]
    BY <1>2 DEF SetHead
  <2>2. s.tip = [r.tip EXCEPT ![r.on] = x] /\ s.on = r.on /\ s.at = r.at /\ s.origin = r.origin /\ s.theirs = r.theirs /\ s.midway = r.midway /\ s.up = r.up
    BY <2>1 DEF IsRepository
  <2>3. r.on \in DOMAIN r.tip /\ r.tip \in [DOMAIN r.tip -> Revs] /\ DOMAIN r.tip \subseteq Names
    BY <1>2 DEF IsRepository, PartOf
  <2>4. s.tip \in [DOMAIN r.tip -> Revs] /\ DOMAIN s.tip = DOMAIN r.tip
    BY <2>2, <2>3
  <2>5. IsRepository(s)
    <3>1. PartOf(s.tip, Names, Revs)
      BY <2>3, <2>4 DEF PartOf
    <3>2. s \in [tip : {s.tip}, up : [Names -> Refs], on : Names \cup {"none"}, at : Revs,
            origin : {s.origin}, theirs : {s.theirs}, fetched : Revs,
            dirty : BOOLEAN, untracked : BOOLEAN, midway : BOOLEAN]
      <4> HIDE DEF s
      <4> QED BY <2>1 DEF IsRepository
    <3> HIDE DEF s
    <3> QED BY <3>1, <3>2, <2>2, <2>4 DEF IsRepository
  <2>6. HeadOf(s) = x
    BY <1>2, <2>2, <2>3, <2>5, RevisionType
  <2> HIDE DEF s
  <2> QED BY <2>2, <2>3, <2>4, <2>5, <2>6 DEF s
<1> QED BY <1>1, <1>2

\* A fetch changes nothing but what is known of the remote, and learns what it is asked for.
LEMMA FetchAllIs ==
  ASSUME NEW r, IsRepository(r), NEW f, f = FetchAll(r, TRUE) \/ f = FetchAll(r, FALSE)
  PROVE  LET s == f.repo IN
         /\ f.res = "ok" /\ IsRepository(s)
         /\ s.tip = r.tip /\ s.on = r.on /\ s.at = r.at /\ s.theirs = r.theirs /\ s.midway = r.midway
         /\ HeadOf(s) = HeadOf(r)
         /\ \A b \in DOMAIN r.theirs : b \in DOMAIN s.origin /\ s.origin[b] = r.theirs[b]
<1> DEFINE o == IF f = FetchAll(r, TRUE) THEN r.theirs ELSE Over(r.origin, r.theirs)
           s == [r EXCEPT !.origin = o]
<1>1. f = [res |-> "ok", repo |-> s]
  <2>1. CASE f = FetchAll(r, TRUE)
    BY <2>1 DEF FetchAll, Done
  <2>2. CASE f # FetchAll(r, TRUE) /\ f = FetchAll(r, FALSE)
    BY <2>2 DEF FetchAll, Done
  <2> QED BY <2>1, <2>2
<1>2. PartOf(r.origin, Branches, Revs) /\ PartOf(r.theirs, Branches, Revs)
  BY DEF IsRepository
<1>3. PartOf(o, Branches, Revs) /\ \A b \in DOMAIN r.theirs : b \in DOMAIN o /\ o[b] = r.theirs[b]
  BY <1>2 DEF PartOf, Over
<1> HIDE DEF o
<1>4. s.tip = r.tip /\ s.on = r.on /\ s.at = r.at /\ s.theirs = r.theirs /\ s.midway = r.midway /\ s.origin = o
  BY DEF IsRepository
<1>5. IsRepository(s)
  BY <1>3 DEF IsRepository
<1> HIDE DEF s
<1>6. HeadOf(s) = HeadOf(r)
  BY <1>4, <1>5, RevisionType
<1> QED BY <1>1, <1>3, <1>4, <1>5, <1>6

LEMMA FetchBranchIs ==
  ASSUME NEW r, IsRepository(r), NEW b \in Branches
  PROVE  LET f == FetchBranch(r, b)
             s == f.repo IN
         /\ IsRepository(s) /\ f.res \in {"ok", "failed"}
         /\ f.res = "ok" => b \in DOMAIN r.theirs /\ b \in DOMAIN s.origin /\ s.origin[b] = r.theirs[b]
         /\ s.tip = r.tip /\ s.on = r.on /\ s.at = r.at /\ s.theirs = r.theirs /\ s.midway = r.midway
         /\ HeadOf(s) = HeadOf(r)
<1> DEFINE s == [r EXCEPT !.origin = Put(r.origin, b, r.theirs[b]), !.fetched = r.theirs[b]]
<1>1. CASE b \notin DOMAIN r.theirs
  BY <1>1 DEF FetchBranch, Refused
<1>2. CASE b \in DOMAIN r.theirs
  <2>1. FetchBranch(r, b) = [res |-> "ok", repo |-> s]
    BY <1>2 DEF FetchBranch, Done
  <2>2. r.theirs[b] \in Revs
    BY <1>2 DEF IsRepository, PartOf
  <2> DEFINE o == Put(r.origin, b, r.theirs[b])
  <2>3. PartOf(o, Branches, Revs) /\ b \in DOMAIN o /\ o[b] = r.theirs[b]
    BY <2>2 DEF IsRepository, PartOf, Put
  <2> HIDE DEF o
  <2>4. s.tip = r.tip /\ s.on = r.on /\ s.at = r.at /\ s.theirs = r.theirs /\ s.midway = r.midway /\ s.origin = o
    BY DEF IsRepository, o
  <2>5. IsRepository(s)
    BY <2>2, <2>3 DEF IsRepository, o
  <2>6. HeadOf(s) = HeadOf(r)
    BY <2>4, <2>5, RevisionType
  <2> HIDE DEF s
  <2> QED BY <1>2, <2>1, <2>3, <2>4, <2>5, <2>6
<1> QED BY <1>1, <1>2

LEMMA FetchRevIs ==
  ASSUME NEW r, IsRepository(r), NEW x \in Revs
  PROVE  LET s == FetchRev(r, x).repo IN
         /\ FetchRev(r, x).res = "ok" /\ IsRepository(s)
         /\ s.tip = r.tip /\ s.on = r.on /\ s.at = r.at /\ s.theirs = r.theirs /\ s.midway = r.midway
         /\ s.origin = r.origin /\ s.fetched = x
         /\ HeadOf(s) = HeadOf(r)
<1> DEFINE s == [r EXCEPT !.fetched = x]
<1>1. FetchRev(r, x) = [res |-> "ok", repo |-> s]
  BY DEF FetchRev, Done
<1>2. s.tip = r.tip /\ s.on = r.on /\ s.at = r.at /\ s.theirs = r.theirs /\ s.midway = r.midway
      /\ s.origin = r.origin /\ s.fetched = x
  BY DEF IsRepository
<1>3. IsRepository(s)
  BY DEF IsRepository
<1> HIDE DEF s
<1>4. HeadOf(s) = HeadOf(r)
  BY <1>2, <1>3, RevisionType
<1> QED BY <1>1, <1>2, <1>3, <1>4

\* However a rebase ends, the branches are there with all their changes; if it succeeds HEAD
\* is where it was, on top of the other, and if it fails it was aborted.
RebasedTo(r, ref, o) ==
  /\ IsRepository(o.repo) /\ o.res \in {"ok", "failed", "error"}
  /\ DOMAIN o.repo.tip = DOMAIN r.tip
  /\ \A b \in DOMAIN r.tip : Range(r.tip[b].own) \subseteq Range(o.repo.tip[b].own)
  /\ o.repo.theirs = r.theirs
  /\ o.res = "failed" => o.repo = r
  /\ o.res = "ok" => /\ o.repo.on = r.on /\ o.repo.midway = r.midway
                     /\ IsAncestor(RevisionOf(r, ref), HeadOf(o.repo)) /\ Exists(r, ref)
                     /\ HeadOf(o.repo).base = RevisionOf(r, ref).base
                     /\ Range(HeadOf(r).own) \subseteq Range(HeadOf(o.repo).own)

LEMMA RebaseIs ==
  ASSUME NEW r, IsRepository(r), NEW ref, Exists(r, ref) => RevisionOf(r, ref) \in Revs,
         NEW o \in RebaseOrAbort(r, ref, TRUE)
  PROVE  RebasedTo(r, ref, o)
<1> DEFINE x == RevisionOf(r, ref)
           y == Rebased(HeadOf(r), x)
           s == SetHead(r, y)
           t == [r EXCEPT !.midway = TRUE, !.on = "none", !.at = x]
<1>1. CASE o.repo = r /\ o.res \in {"failed", "error"}
  BY <1>1 DEF RebasedTo
<1>2. CASE Exists(r, ref) /\ o = Done(s)
  <2>1. HeadOf(r) \in Revs /\ x \in Revs
    BY <1>2, RevisionType
  <2>2. y \in Revs /\ Range(HeadOf(r).own) \subseteq Range(y.own) /\ IsAncestor(x, y) /\ y.base = x.base
    BY <2>1, RebasedIs, RebasedOnTop
  <2> HIDE DEF y, x
  <2>3. IsRepository(s) /\ HeadOf(s) = y /\ s.on = r.on /\ DOMAIN s.tip = DOMAIN r.tip
        /\ s.theirs = r.theirs /\ s.midway = r.midway
        /\ \A b \in DOMAIN r.tip : s.tip[b] = IF b = r.on THEN y ELSE r.tip[b]
    BY <2>2, SetHeadIs
  <2>4. r.on \in DOMAIN r.tip => HeadOf(r) = r.tip[r.on]
    BY RevisionType, NamesAssumption DEF IsRepository, PartOf
  <2>5. \A b \in DOMAIN r.tip : Range(r.tip[b].own) \subseteq Range(s.tip[b].own)
    BY <2>2, <2>3, <2>4
  <2>6. o.repo = s /\ o.res = "ok"
    BY <1>2 DEF Done
  <2> HIDE DEF s
  <2> QED BY <1>2, <2>2, <2>3, <2>5, <2>6 DEF x, RebasedTo
<1>3. CASE Exists(r, ref) /\ o = Broken(t)
  <2>1. x \in Revs
    BY <1>3
  <2>2. IsRepository(t) /\ t.tip = r.tip /\ t.theirs = r.theirs
    <3> HIDE DEF x
    <3> QED BY <2>1 DEF IsRepository
  <2>3. o.repo = t /\ o.res = "error"
    BY <1>3 DEF Broken
  <2> HIDE DEF t
  <2> QED BY <2>2, <2>3 DEF RebasedTo
<1>4. o \in {Broken(r), Refused(r)} \/ (Exists(r, ref) /\ o \in {Done(s), Broken(t)})
  BY DEF RebaseOrAbort
<1>5. o \in {Broken(r), Refused(r)} => o.repo = r /\ o.res \in {"failed", "error"}
  BY DEF Broken, Refused
<1> HIDE DEF s, t
<1> QED BY <1>1, <1>2, <1>3, <1>4, <1>5
\* What is saved: the changes of HEAD, of the branches, and of those of the remote.
LEMMA SavedHas ==
  ASSUME NEW r
  PROVE  /\ Range(HeadOf(r).own) \subseteq Saved(r)
         /\ \A b \in DOMAIN r.tip : Range(r.tip[b].own) \subseteq Saved(r)
         /\ \A b \in DOMAIN r.origin : Range(r.origin[b].own) \subseteq Saved(r)
<1>1. Range(HeadOf(r).own) \subseteq Saved(r)
  BY DEF Saved
<1>2. \A b \in DOMAIN r.tip : Range(r.tip[b].own) \subseteq Saved(r)
  BY DEF Saved
<1>3. \A b \in DOMAIN r.origin : Range(r.origin[b].own) \subseteq Saved(r)
  BY DEF Saved
<1> QED BY <1>1, <1>2, <1>3

\* git deletes no branch that HEAD is on and, without force, none with changes that are
\* nowhere else; with force the changes of that branch are all that can be lost.
DeletedTo(r, b, d) ==
  /\ IsRepository(d.repo) /\ d.res \in {"ok", "failed"}
  /\ d.res # "ok" => d.repo = r
  /\ d.repo.on = r.on /\ d.repo.at = r.at /\ d.repo.origin = r.origin /\ d.repo.theirs = r.theirs
  /\ d.repo.midway = r.midway /\ d.repo.fetched = r.fetched
  /\ HeadOf(d.repo) = HeadOf(r)
  /\ d.res = "ok" => /\ b \in DOMAIN r.tip /\ r.on # b
                     /\ d.repo.tip = Restrict(r.tip, DOMAIN r.tip \ {b})
  /\ Saved(r) \subseteq Saved(d.repo) \cup Range(r.tip[b].own)
  /\ d = Refused(r) \/ IsMerged(r, b) => Saved(r) \subseteq Saved(d.repo)

LEMMA DeletedIs ==
  ASSUME NEW r, IsRepository(r), NEW b \in Names,
         NEW d, d = Refused(r) \/ (d = Done(Deleted(r, b)) /\ b \in DOMAIN r.tip /\ r.on # b)
  PROVE  DeletedTo(r, b, d)
<1> USE DEF DeletedTo
<1> DEFINE into == IF Exists(r, r.up[b]) THEN r.up[b] ELSE HeadRef
           t == Restrict(r.tip, DOMAIN r.tip \ {b})
           s == [r EXCEPT !.tip = t, !.up[b] = NoRef]
<1>0. Deleted(r, b) = s
  BY DEF Deleted
<1>1. CASE d = Refused(r)
  BY <1>1 DEF Refused
<1>2. CASE b \in DOMAIN r.tip /\ r.on # b /\ d = Done(s)
  <2>1. t = [c \in DOMAIN r.tip \ {b} |-> r.tip[c]]
    BY DEF Restrict
  <2>2. PartOf(t, Names, Revs)
    BY <2>1 DEF IsRepository, PartOf
  <2>3. NoRef \in Refs /\ \A c : NoRef # Local(c)
    BY DEF Refs, NoRef, Local
  <2>4. s.tip = t /\ s.on = r.on /\ s.at = r.at /\ s.origin = r.origin /\ s.theirs = r.theirs
        /\ s.midway = r.midway /\ s.fetched = r.fetched /\ s.up = [r.up EXCEPT ![b] = NoRef]
    <3> HIDE DEF t
    <3> QED BY DEF IsRepository
  <2>5. IsRepository(s)
    <3>1. s.on \in DOMAIN s.tip \cup {"none"}
      BY <1>2, <2>1, <2>4 DEF IsRepository
    <3>2. s.up \in [Names -> Refs] /\ \A c \in Names : s.up[c] # Local(c)
      BY <2>3, <2>4 DEF IsRepository
    <3>3. s \in [tip : {s.tip}, up : [Names -> Refs], on : Names \cup {"none"}, at : Revs,
            origin : {s.origin}, theirs : {s.theirs}, fetched : Revs,
            dirty : BOOLEAN, untracked : BOOLEAN, midway : BOOLEAN]
      <4> HIDE DEF t
      <4> QED BY <2>3 DEF IsRepository
    <3> HIDE DEF s, t
    <3> QED BY <3>1, <3>2, <3>3, <2>2, <2>4 DEF IsRepository
  <2> HIDE DEF s, t
  <2>6. HeadOf(s) = HeadOf(r)
    BY <1>2, <2>1, <2>4, <2>5, RevisionType DEF IsRepository
  <2>7. Saved(r) \subseteq Saved(s) \cup Range(r.tip[b].own)
    BY <2>1, <2>4, <2>6 DEF Saved
  <2>8. ASSUME IsMerged(r, b) PROVE Range(r.tip[b].own) \subseteq Saved(s)
    <3>1. IsAncestor(r.tip[b], RevisionOf(r, into))
      BY <2>8 DEF IsMerged
    <3>2. r.tip[b] \in Revs
      BY <1>2, RevisionType
    <3>3. CASE Exists(r, r.up[b])
      <4>1. r.up[b] \in Refs /\ r.up[b] # NoRef /\ r.up[b] # Local(b)
        BY <3>3, RevisionType DEF IsRepository
      <4>2. CASE \E c : r.up[b] = Local(c)
        <5>1. PICK c : r.up[b] = Local(c)
          BY <4>2
        <5>2. c \in DOMAIN r.tip /\ c # b /\ RevisionOf(r, into) = r.tip[c] /\ r.tip[c] \in Revs
          BY <5>1, <3>3, <4>1, RevisionType
        <5>3. Range(r.tip[b].own) \subseteq Range(r.tip[c].own)
          BY <5>2, <3>1, <3>2, AncestorHas
        <5>4. c \in DOMAIN s.tip /\ s.tip[c] = r.tip[c]
          BY <5>2, <2>1, <2>4
        <5> QED BY <5>3, <5>4, SavedHas
      <4>3. CASE \E c : r.up[b] = Remote(c)
        <5>1. PICK c : r.up[b] = Remote(c)
          BY <4>3
        <5>2. c \in DOMAIN r.origin /\ RevisionOf(r, into) = r.origin[c] /\ r.origin[c] \in Revs
          BY <5>1, <3>3, RevisionType
        <5>3. Range(r.tip[b].own) \subseteq Range(r.origin[c].own)
          BY <5>2, <3>1, <3>2, AncestorHas
        <5>4. c \in DOMAIN s.origin /\ s.origin[c] = r.origin[c]
          BY <5>2, <2>4
        <5> QED BY <5>3, <5>4, SavedHas
      <4> QED BY <4>1, <4>2, <4>3 DEF Refs
    <3>4. CASE ~Exists(r, r.up[b])
      <4>1. RevisionOf(r, into) = HeadOf(r) /\ HeadOf(r) \in Revs
        BY <3>4, RevisionType DEF HeadOf
      <4>2. Range(r.tip[b].own) \subseteq Range(HeadOf(r).own)
        BY <4>1, <3>1, <3>2, AncestorHas
      <4> QED BY <4>2, <2>6 DEF Saved
    <3> QED BY <3>3, <3>4
  <2>9. d # Refused(r)
    BY <1>2 DEF Done, Refused
  <2>10. d.repo = s /\ d.res = "ok"
    BY <1>2 DEF Done
  <2> QED BY <1>2, <2>4, <2>5, <2>6, <2>7, <2>8, <2>9, <2>10 DEF t
<1> HIDE DEF s
<1> QED BY <1>0, <1>1, <1>2

LEMMA DeleteIs ==
  ASSUME NEW r, IsRepository(r), NEW b \in Names
  PROVE  /\ LET d == DeleteBranch(r, b, TRUE) IN
              d = Refused(r) \/ (d = Done(Deleted(r, b)) /\ b \in DOMAIN r.tip /\ r.on # b)
         /\ LET d == DeleteBranch(r, b, FALSE) IN
              d = Refused(r) \/ (d = Done(Deleted(r, b)) /\ b \in DOMAIN r.tip /\ r.on # b /\ IsMerged(r, b))
  BY DEF DeleteBranch

\* A checkout moves HEAD, or it fails and nothing is changed.
MovedTo(r, o) ==
  /\ IsRepository(o.repo) /\ o.res \in {"ok", "failed"}
  /\ o.res # "ok" => o.repo = r
  /\ o.repo.tip = r.tip /\ o.repo.origin = r.origin /\ o.repo.theirs = r.theirs
  /\ o.repo.midway = r.midway /\ o.repo.fetched = r.fetched
  /\ o.res = "ok" => ~r.midway

LEMMA DetachedIs ==
  ASSUME NEW r, IsRepository(r), NEW x \in Revs, ~r.midway, NEW o, o = Done(DetachedAt(r, x))
  PROVE  MovedTo(r, o) /\ o.res = "ok" /\ o.repo.on = "none" /\ o.repo.at = x
<1> DEFINE s == [r EXCEPT !.on = "none", !.at = x]
<1>1. IsRepository(s) /\ s.tip = r.tip /\ s.origin = r.origin /\ s.theirs = r.theirs
      /\ s.midway = r.midway /\ s.fetched = r.fetched /\ s.on = "none" /\ s.at = x
  BY DEF IsRepository
<1>2. o.repo = s /\ o.res = "ok"
  BY DEF Done, DetachedAt
<1> HIDE DEF s
<1> QED BY <1>1, <1>2 DEF MovedTo

LEMMA OnBranchIs ==
  ASSUME NEW r, IsRepository(r), NEW b \in DOMAIN r.tip, ~r.midway, NEW o, o = Done(OnBranch(r, b))
  PROVE  MovedTo(r, o) /\ o.res = "ok" /\ o.repo.on = b
<1> DEFINE s == [r EXCEPT !.on = b]
<1>1. IsRepository(s) /\ s.tip = r.tip /\ s.origin = r.origin /\ s.theirs = r.theirs
      /\ s.midway = r.midway /\ s.fetched = r.fetched /\ s.on = b
  BY DEF IsRepository, PartOf
<1>2. o.repo = s /\ o.res = "ok"
  BY DEF Done, OnBranch
<1> HIDE DEF s
<1> QED BY <1>1, <1>2 DEF MovedTo

LEMMA RefusedIs ==
  ASSUME NEW r, IsRepository(r), NEW o, o = Refused(r)
  PROVE  MovedTo(r, o) /\ o.res = "failed" /\ o.repo = r
  BY DEF MovedTo, Refused

\* The checkout of a revision, whether -detach is given or not,
LEMMA CheckoutRev ==
  ASSUME NEW r, IsRepository(r), NEW ref, ref[1] # "local", ref # HeadRef,
         Exists(r, ref) => RevisionOf(r, ref) \in Revs, NEW o,
         o \in CheckoutBranch(r, ref, TRUE) \/ o \in CheckoutBranch(r, ref, FALSE)
  PROVE  /\ MovedTo(r, o)
         /\ o.res = "ok" => Exists(r, ref) /\ o.repo.on = "none" /\ o.repo.at = RevisionOf(r, ref)
<1>1. o = Refused(r) \/ (o = Done(DetachedAt(r, RevisionOf(r, ref))) /\ Exists(r, ref) /\ ~r.midway)
  BY DEF CheckoutBranch
<1> QED BY <1>1, RefusedIs, DetachedIs

\* and that of a branch.
LEMMA CheckoutLocal ==
  ASSUME NEW r, IsRepository(r), NEW b, NEW o \in CheckoutBranch(r, Local(b), FALSE)
  PROVE  /\ MovedTo(r, o)
         /\ o.res = "ok" => b \in DOMAIN r.tip /\ o.repo.on = b
<1>1. Local(b)[1] = "local" /\ Local(b)[2] = b /\ (Exists(r, Local(b)) <=> b \in DOMAIN r.tip)
  BY RevisionType DEF Local
<1>2. o = Refused(r) \/ (o = Done(OnBranch(r, b)) /\ b \in DOMAIN r.tip /\ ~r.midway)
  BY <1>1 DEF CheckoutBranch
<1> QED BY <1>2, RefusedIs, OnBranchIs
-----------------------------------------------------------------------------
(* "jiri branch". *)

\* JIRI_HEAD is a revision that deleting branches does not change.
LEMMA JiriHeadIs ==
  ASSUME NEW r, IsRepository(r)
  PROVE  /\ Exists(r, JiriHead) => RevisionOf(r, JiriHead) \in Revs
         /\ JiriHead[1] # "local" /\ JiriHead # HeadRef
         /\ \A s : s.origin = r.origin => RevisionOf(s, JiriHead) = RevisionOf(r, JiriHead)
<1>1. CASE \E b \in Branches : JiriHead = Remote(b)
  <2>1. PICK b \in Branches : JiriHead = Remote(b)
    BY <1>1
  <2>2. JiriHead[1] = "origin" /\ JiriHead[2] = b
    BY <2>1 DEF Remote
  <2>3. \A s : RevisionOf(s, JiriHead) = s.origin[b]
    BY <2>2 DEF RevisionOf, HeadRef, FetchHead
  <2> QED BY <2>1, <2>2, <2>3, RevisionType DEF HeadRef
<1>2. CASE \E x \in Revs : JiriHead = Commit(x)
  <2>1. PICK x \in Revs : JiriHead = Commit(x)
    BY <1>2
  <2>2. JiriHead[1] = "commit" /\ JiriHead[2] = x
    BY <2>1 DEF Commit
  <2>3. \A s : RevisionOf(s, JiriHead) = x
    BY <2>2 DEF RevisionOf, HeadRef, FetchHead
  <2> QED BY <2>2, <2>3 DEF HeadRef
<1> QED BY <1>1, <1>2, BranchAssumption DEF Remote, Commit

\* What may become of a repository r with branch i: i alone may be gone, and HEAD is where
\* it was or, if i is gone from under it, at JIRI_HEAD; else there was an error.
Fine(r, i, o) ==
  /\ IsRepository(o.repo) /\ o.repo.origin = r.origin
  /\ o.repo.tip = r.tip \/ o.repo.tip = Restrict(r.tip, DOMAIN r.tip \ {i.name})
  /\ \/ o.repo.on = r.on /\ (r.on = "none" => o.repo.at = r.at)
     \/ /\ i.isHead /\ o.repo.on = "none"
        /\ o.err \/ (o.repo.at = RevisionOf(r, JiriHead) /\ i.name \notin DOMAIN o.repo.tip)

\* What is at HEAD of a branch is also in the branch.
LEMMA SavedInBranches ==
  ASSUME NEW r, IsRepository(r), NEW s, s.tip = r.tip, s.origin = r.origin,
         r.on # "none" \/ HeadOf(s) = HeadOf(r)
  PROVE  Saved(r) \subseteq Saved(s)
<1>1. CASE r.on # "none"
  <2>1. r.on \in DOMAIN r.tip /\ HeadOf(r) = r.tip[r.on]
    BY <1>1, RevisionType DEF IsRepository
  <2> QED BY <2>1 DEF Saved
<1>2. CASE HeadOf(s) = HeadOf(r)
  BY <1>2 DEF Saved
<1> QED BY <1>1, <1>2

\* A branch that is discarded takes nothing with it or, by force, its own changes.
LEMMA DiscardIs ==
  ASSUME NEW r, IsRepository(r), NEW i, i.name \in DOMAIN r.tip, i.isHead \in BOOLEAN, i.isHead => r.on = i.name,
         NEW o, o \in Discard(r, i, TRUE) \/ o \in Discard(r, i, FALSE)
  PROVE  /\ Fine(r, i, o) /\ o.err \in BOOLEAN
         /\ Saved(r) \subseteq Saved(o.repo) \cup Range(r.tip[i.name].own)
         /\ o \in Discard(r, i, FALSE) => Saved(r) \subseteq Saved(o.repo)
<1>0. i.name \in Names /\ i.name # "none"
  BY NamesAssumption DEF IsRepository, PartOf
<1>1. ASSUME NEW c \in Away(r, i)
      PROVE  /\ IsRepository(c.repo) /\ c.repo.tip = r.tip /\ c.repo.origin = r.origin
             /\ Saved(r) \subseteq Saved(c.repo) /\ c.res \in {"ok", "failed"}
             /\ c.res # "ok" => c.repo = r
             /\ c.res = "ok" => IF i.isHead THEN c.repo.on = "none" /\ c.repo.at = RevisionOf(r, JiriHead) ELSE c.repo = r
  <2>1. CASE i.isHead
    <3>1. c \in CheckoutBranch(r, JiriHead, TRUE)
      BY <2>1 DEF Away
    <3>2. /\ MovedTo(r, c)
          /\ c.res = "ok" => c.repo.on = "none" /\ c.repo.at = RevisionOf(r, JiriHead)
      <4>1. JiriHead[1] # "local" /\ JiriHead # HeadRef /\ (Exists(r, JiriHead) => RevisionOf(r, JiriHead) \in Revs)
        BY JiriHeadIs
      <4> QED BY <3>1, <4>1, CheckoutRev
    <3>3. r.on # "none"
      BY <2>1, <1>0
    <3> QED BY <2>1, <3>2, <3>3, SavedInBranches DEF MovedTo
  <2>2. CASE ~i.isHead
    BY <2>2 DEF Away, Done
  <2> QED BY <2>1, <2>2
<1>2. ASSUME NEW c \in Away(r, i), NEW d, NEW E,
             d = Refused(c.repo) \/ (d = Done(Deleted(c.repo, i.name)) /\ i.name \in DOMAIN c.repo.tip /\ c.repo.on # i.name),
             E = Ends(i, c, d, TRUE) \/ E = Ends(i, c, d, FALSE), o \in E
      PROVE  /\ Fine(r, i, o) /\ o.err \in BOOLEAN
             /\ Saved(r) \subseteq Saved(o.repo) \cup Range(r.tip[i.name].own)
             /\ d = Refused(c.repo) \/ IsMerged(c.repo, i.name) => Saved(r) \subseteq Saved(o.repo)
  <2>1. /\ IsRepository(c.repo) /\ c.repo.tip = r.tip /\ c.repo.origin = r.origin
        /\ Saved(r) \subseteq Saved(c.repo) /\ c.res \in {"ok", "failed"}
        /\ c.res # "ok" => c.repo = r
        /\ c.res = "ok" => IF i.isHead THEN c.repo.on = "none" /\ c.repo.at = RevisionOf(r, JiriHead) ELSE c.repo = r
    BY <1>1
  <2>2. /\ IsRepository(d.repo) /\ (d.res # "ok" => d.repo = c.repo)
        /\ d.repo.on = c.repo.on /\ d.repo.at = c.repo.at /\ d.repo.origin = c.repo.origin
        /\ d.res = "ok" => d.repo.tip = Restrict(c.repo.tip, DOMAIN c.repo.tip \ {i.name})
        /\ Saved(c.repo) \subseteq Saved(d.repo) \cup Range(c.repo.tip[i.name].own)
        /\ d = Refused(c.repo) \/ IsMerged(c.repo, i.name) => Saved(c.repo) \subseteq Saved(d.repo)
    <3>1. DeletedTo(c.repo, i.name, d)
      BY <1>0, <1>2, <2>1, DeletedIs
    <3> QED BY <3>1 DEF DeletedTo
  <2>3. CASE c.res # "ok"
    <3>1. o.repo = r /\ o.err = TRUE
      BY <1>2, <2>1, <2>3 DEF Ends, Outcome
    <3> QED BY <3>1 DEF Fine
  <2>4. CASE c.res = "ok" /\ d.res = "ok"
    <3>1. o.repo = d.repo /\ o.err = FALSE
      BY <1>2, <2>4 DEF Ends, Outcome
    <3>2. i.name \notin DOMAIN d.repo.tip
      BY <2>2, <2>4 DEF Restrict
    <3>3. d.repo.tip = Restrict(r.tip, DOMAIN r.tip \ {i.name}) /\ d.repo.origin = r.origin
      BY <2>1, <2>2, <2>4
    <3>4. \/ d.repo.on = r.on /\ d.repo.at = r.at
          \/ i.isHead /\ d.repo.on = "none" /\ d.repo.at = RevisionOf(r, JiriHead)
      BY <2>1, <2>2, <2>4
    <3>5. Fine(r, i, o)
      BY <3>1, <3>2, <3>3, <3>4, <2>2 DEF Fine
    <3> QED BY <3>1, <3>5, <2>1, <2>2
  <2>5. CASE c.res = "ok" /\ d.res # "ok" /\ ~i.isHead
    <3>1. o = Outcome(d.repo, FALSE, TRUE) \/ o = Outcome(d.repo, FALSE, FALSE)
      BY <1>2, <2>5 DEF Ends
    <3>a. o.repo = d.repo /\ o.err \in BOOLEAN
      <4>1. CASE o = Outcome(d.repo, FALSE, TRUE)
        BY <4>1 DEF Outcome
      <4>2. CASE o = Outcome(d.repo, FALSE, FALSE)
        BY <4>2 DEF Outcome
      <4> QED BY <3>1, <4>1, <4>2
    <3>2. o.repo = r
      BY <3>a, <2>1, <2>2, <2>5
    <3> QED BY <3>a, <3>2 DEF Fine
  <2>6. CASE c.res = "ok" /\ d.res # "ok" /\ i.isHead
    <3>1. PICK b \in CheckoutBranch(d.repo, Local(i.name), FALSE) :
                 o.repo = b.repo /\ o.err \in BOOLEAN /\ (b.res # "ok" => o.err)
      <4>1. \E b \in CheckoutBranch(d.repo, Local(i.name), FALSE) :
              o = Outcome(b.repo, FALSE, TRUE) \/ o = Outcome(b.repo, FALSE, b.res # "ok")
        BY <1>2, <2>6 DEF Ends
      <4>2. ASSUME NEW b \in CheckoutBranch(d.repo, Local(i.name), FALSE), o = Outcome(b.repo, FALSE, TRUE)
            PROVE  o.repo = b.repo /\ o.err \in BOOLEAN /\ (b.res # "ok" => o.err)
        BY <4>2 DEF Outcome
      <4>3. ASSUME NEW b \in CheckoutBranch(d.repo, Local(i.name), FALSE), o = Outcome(b.repo, FALSE, b.res # "ok")
            PROVE  o.repo = b.repo /\ o.err \in BOOLEAN /\ (b.res # "ok" => o.err)
        BY <4>3 DEF Outcome
      <4> QED BY <4>1, <4>2, <4>3
    <3>2. d.repo = c.repo /\ d.repo.on = "none"
      BY <2>6, <2>1, <2>2
    <3>5. /\ IsRepository(b.repo) /\ b.repo.tip = d.repo.tip /\ b.repo.origin = d.repo.origin
          /\ b.res \in {"ok", "failed"} /\ (b.res # "ok" => b.repo = d.repo)
          /\ b.res = "ok" => b.repo.on = i.name
      <4> DEFINE q == d.repo
                 n == i.name
      <4>1. IsRepository(q) /\ b \in CheckoutBranch(q, Local(n), FALSE)
        BY <2>2, <3>1
      <4> HIDE DEF q, n
      <4>2. MovedTo(q, b) /\ (b.res = "ok" => b.repo.on = n)
        BY <4>1, CheckoutLocal
      <4> QED BY <4>2 DEF MovedTo, q, n
    <3>6. r.on = i.name /\ r.on # "none"
      BY <2>6, <1>0
    <3>7. Fine(r, i, o)
      BY <3>1, <3>2, <3>5, <3>6, <2>1, <2>6 DEF Fine
    <3>8. Saved(r) \subseteq Saved(b.repo)
      BY <2>1, <3>2, <3>5, <3>6, SavedInBranches
    <3> QED BY <3>1, <3>7, <3>8
  <2> QED BY <2>1, <2>3, <2>4, <2>5, <2>6
<1>3. \A c \in Away(r, i) : IsRepository(c.repo)
  BY <1>1
<1>4. CASE o \in Discard(r, i, FALSE)
  <2>1. PICK c \in Away(r, i) : o \in Ends(i, c, DeleteBranch(c.repo, i.name, FALSE), FALSE)
    BY <1>4 DEF Discard
  <2> DEFINE d == DeleteBranch(c.repo, i.name, FALSE)
  <2>2. d = Refused(c.repo) \/ (d = Done(Deleted(c.repo, i.name)) /\ i.name \in DOMAIN c.repo.tip /\ c.repo.on # i.name /\ IsMerged(c.repo, i.name))
    BY <1>0, <1>3, DeleteIs
  <2>3. o \in Ends(i, c, d, FALSE)
    BY <2>1
  <2> HIDE DEF d
  <2> QED BY <2>2, <2>3, <1>2
<1>5. CASE o \in Discard(r, i, TRUE) /\ o \notin Discard(r, i, FALSE)
  <2>1. PICK c \in Away(r, i) : o \in Ends(i, c, DeleteBranch(c.repo, i.name, TRUE), TRUE)
    BY <1>5 DEF Discard
  <2> DEFINE d == DeleteBranch(c.repo, i.name, TRUE)
  <2>2. d = Refused(c.repo) \/ (d = Done(Deleted(c.repo, i.name)) /\ i.name \in DOMAIN c.repo.tip /\ c.repo.on # i.name)
    BY <1>0, <1>3, DeleteIs
  <2>3. o \in Ends(i, c, d, TRUE)
    BY <2>1
  <2> HIDE DEF d
  <2> QED BY <2>2, <2>3, <1>2, <1>5
<1> QED BY <1>4, <1>5

\* What has been said of the branches of t is still so in r.
Infos == [name : Names, revision : Revs, isHead : BOOLEAN, tracking : Refs]
Listing(t, r) ==
  /\ t \in Seq(Infos)
  /\ \A i \in Range(t) : /\ i.name \in DOMAIN r.tip /\ r.tip[i.name] = i.revision
                         /\ i.isHead => r.on = i.name
                         /\ i.tracking # Local(i.name)
  /\ \A j, k \in DOMAIN t : t[j].name = t[k].name => j = k

LEMMA BranchesListed ==
  ASSUME NEW r, IsRepository(r)
  PROVE  Listing(GetAllBranchesInfo(r), r)
<1> DEFINE tracked == {r.up[b] : b \in DOMAIN r.tip} \ {NoRef}
           shown == tracked = {} \/ \E u \in tracked : Exists(r, u)
           info(b) == [name |-> b, revision |-> r.tip[b], isHead |-> r.on = b,
                       tracking |-> IF shown THEN r.up[b] ELSE NoRef]
           names == Without(Listed, Names \ DOMAIN r.tip)
           t == [k \in DOMAIN names |-> info(names[k])]
<1>1. GetAllBranchesInfo(r) = t
  BY DEF GetAllBranchesInfo
<1>2. names \in Seq(Names) /\ Range(names) = DOMAIN r.tip /\ IsInjective(names)
  <2>1. Listed \in Seq(Names) /\ Range(Listed) = Names /\ IsInjective(Listed)
    BY NamesAssumption DEF Names
  <2>2. DOMAIN r.tip \subseteq Names
    BY DEF IsRepository, PartOf
  <2>3. names \in Seq(Names) /\ Range(names) = Range(Listed) \ (Names \ DOMAIN r.tip) /\ IsInjective(names)
    BY <2>1, WithoutRange
  <2> QED BY <2>1, <2>2, <2>3
<1>3. ASSUME NEW b \in DOMAIN r.tip
      PROVE  /\ info(b) \in Infos /\ info(b).name = b /\ info(b).revision = r.tip[b]
             /\ info(b).isHead => r.on = b
             /\ info(b).tracking # Local(b)
  <2>1. b \in Names /\ r.tip[b] \in Revs /\ r.up[b] \in Refs /\ r.up[b] # Local(b)
    BY DEF IsRepository, PartOf
  <2>2. NoRef \in Refs /\ NoRef # Local(b)
    BY DEF Refs, NoRef, Local
  <2> HIDE DEF shown
  <2> QED BY <2>1, <2>2 DEF Infos
<1> HIDE DEF names, info
<1>4. DOMAIN names = 1..Len(names) /\ Len(names) \in Nat /\ \A k \in DOMAIN names : names[k] \in DOMAIN r.tip
  BY <1>2 DEF Range
<1>5. t \in Seq(Infos) /\ DOMAIN t = DOMAIN names
  BY <1>3, <1>4
<1>6. \A i \in Range(t) : \E b \in DOMAIN r.tip : i = info(b)
  BY <1>4 DEF Range
<1>7. \A j, k \in DOMAIN t : t[j].name = t[k].name => j = k
  <2> SUFFICES ASSUME NEW j \in DOMAIN names, NEW k \in DOMAIN names, t[j].name = t[k].name PROVE j = k
    BY <1>5
  <2>1. t[j].name = names[j] /\ t[k].name = names[k]
    BY <1>3, <1>4
  <2> QED BY <2>1, <1>2 DEF IsInjective
<1> HIDE DEF t
<1> QED BY <1>1, <1>3, <1>5, <1>6, <1>7 DEF Listing

LEMMA ListingGoesOn ==
  ASSUME NEW r, IsRepository(r), NEW t, Listing(t, r), t # <<>>, NEW o, Fine(r, Head(t), o)
  PROVE  Listing(Tail(t), o.repo)
<1>1. t \in Seq(Infos) /\ Tail(t) \in Seq(Infos) /\ Head(t) = t[1] /\ 1 \in DOMAIN t
  BY DEF Listing
<1>2. \A k \in DOMAIN Tail(t) : k + 1 \in DOMAIN t /\ k + 1 # 1 /\ k \in Nat /\ Tail(t)[k] = t[k + 1]
  BY <1>1
<1>3. \A j, k \in DOMAIN Tail(t) : Tail(t)[j].name = Tail(t)[k].name => j = k
  <2> SUFFICES ASSUME NEW j \in DOMAIN Tail(t), NEW k \in DOMAIN Tail(t), Tail(t)[j].name = Tail(t)[k].name PROVE j = k
    OBVIOUS
  <2>1. j + 1 = k + 1
    BY <1>2 DEF Listing
  <2> QED BY <2>1, <1>2
<1>4. ASSUME NEW i \in Range(Tail(t))
      PROVE  /\ i.name \in DOMAIN o.repo.tip /\ o.repo.tip[i.name] = i.revision
             /\ i.isHead => o.repo.on = i.name
             /\ i.tracking # Local(i.name)
  <2>1. PICK k \in DOMAIN Tail(t) : i = t[k + 1]
    BY <1>2 DEF Range
  <2>2. i \in Range(t) /\ i.name # Head(t).name /\ Head(t) \in Range(t)
    BY <1>1, <1>2, <2>1 DEF Listing, Range
  <2>3. i.name \in DOMAIN r.tip /\ r.tip[i.name] = i.revision /\ (i.isHead => r.on = i.name) /\ i.tracking # Local(i.name)
    BY <2>2 DEF Listing
  <2>4. Head(t).isHead => r.on = Head(t).name
    BY <2>2 DEF Listing
  <2>5. i.isHead => o.repo.on = r.on
    BY <2>2, <2>3, <2>4 DEF Fine
  <2>6. i.name \in DOMAIN o.repo.tip /\ o.repo.tip[i.name] = r.tip[i.name]
    BY <2>2, <2>3 DEF Fine, Restrict
  <2> QED BY <2>3, <2>5, <2>6
<1> QED BY <1>1, <1>3, <1>4 DEF Listing

\* If all that x has more than y is merged in Gerrit, the changes of x are in y or merged.
LEMMA ExtraHas ==
  ASSUME NEW x \in Revs, NEW y \in Revs, AllSubmitted(ExtraCommits(x, y))
  PROVE  Range(x.own) \subseteq Range(y.own) \cup Submitted
<1>1. x.own \in Seq(Changes) /\ y.own \in Seq(Changes)
  BY DEF Revs
<1> SUFFICES ASSUME NEW i \in DOMAIN x.own PROVE x.own[i] \in Range(y.own) \cup Submitted
  BY DEF Range
<1> DEFINE p == SubSeq(x.own, 1, i)
<1>2. i \in 1..Len(x.own) /\ p \in Seq(Changes) /\ Len(p) = i /\ p[i] = x.own[i]
  BY <1>1
<1>3. CASE IsPrefix(p, y.own)
  <2>1. i <= Len(y.own) /\ SubSeq(p, 1, i) = SubSeq(y.own, 1, i)
    BY <1>2, <1>3 DEF IsPrefix
  <2>2. i \in DOMAIN y.own /\ y.own[i] = p[i]
    <3>1. SubSeq(p, 1, i)[i] = p[i]
      <4> HIDE DEF p
      <4> QED BY <1>1, <1>2
    <3>2. SubSeq(y.own, 1, i)[i] = y.own[i] /\ i \in DOMAIN y.own
      BY <1>1, <1>2, <2>1
    <3> QED BY <2>1, <3>1, <3>2
  <2> QED BY <1>2, <2>2 DEF Range
<1>4. CASE ~IsPrefix(p, y.own)
  <2>1. Rev(x.base, p) \in ExtraCommits(x, y)
    BY <1>4 DEF ExtraCommits
  <2>2. Rev(x.base, p).own = p /\ p # <<>> /\ Last(p) = x.own[i]
    BY <1>2 DEF Rev, Last
  <2>3. x.own[i] \in LocalIn(ExtraCommits(x, y))
    <3> HIDE DEF p
    <3> QED BY <2>1, <2>2 DEF LocalIn
  <2> QED BY <2>3 DEF AllSubmitted
<1> QED BY <1>3, <1>4

\* HEAD is on the branch it was on, or at JIRI_HEAD if that is gone, or there was an error.
HeadInv ==
  ~failed => IF first.on \in DOMAIN repo.tip \cup {"none"} THEN repo.on = first.on
             ELSE repo.on = "none" /\ repo.at = RevisionOf(repo, JiriHead)

BranchInv ==
  /\ IsRepository(repo) /\ repo.origin = first.origin /\ failed \in BOOLEAN
  /\ Listing(todo, repo)
  /\ pc = "merged" => opts.mode \notin {"-d", "-D"}
  /\ pc = "cls" => opts.mode = "-delete-merged-cl"
  /\ ChangesSaved /\ HeadInv

LEMMA NothingListed == \A r : Listing(<<>>, r)
  BY DEF Listing, Range

LEMMA BranchStarts == BranchInit => BranchInv
<1> SUFFICES ASSUME BranchInit PROVE BranchInv
  OBVIOUS
<1>1. IsRepository(repo) /\ first = repo /\ failed = FALSE /\ todo = <<>> /\ pc = "start"
  BY BranchAssumption DEF BranchInit
<1>2. HeadInv
  BY <1>1 DEF HeadInv, IsRepository
<1>3. ChangesSaved
  BY <1>1 DEF ChangesSaved
<1> QED BY <1>1, <1>2, <1>3, NothingListed DEF BranchInv

\* What a step of a loop has to show of what becomes of its branch.
LEMMA LoopGoesOn ==
  ASSUME BranchInv, NEW at, Next1(at), at \in {"delete", "merged", "cls"},
         NEW o, Fine(repo, Head(todo), o), o.err \in BOOLEAN, repo' = o.repo, failed' = (failed \/ o.err),
         opts.mode # "-D" =>
           Saved(repo) \subseteq Saved(o.repo) \cup IF opts.mode = "-delete-merged-cl" THEN Submitted ELSE {}
  PROVE  BranchInv'
<1> DEFINE i == Head(todo)
<1>1. pc' = pc /\ opts' = opts /\ first' = first /\ todo' = Tail(todo) /\ todo # <<>>
  BY DEF Next1, branchGiven
<1>2. IsRepository(repo') /\ repo'.origin = first'.origin /\ failed' \in BOOLEAN
  BY <1>1 DEF BranchInv, Fine
<1>3. Listing(todo', repo')
  BY <1>1, ListingGoesOn DEF BranchInv
<1>4. ChangesSaved'
  BY <1>1 DEF BranchInv, ChangesSaved
<1>5. i \in Range(todo)
  BY <1>1 DEF BranchInv, Listing, Range
<1>6. i.name \in DOMAIN repo.tip /\ (i.isHead => repo.on = i.name) /\ "none" \notin DOMAIN repo.tip
  BY <1>5, NamesAssumption DEF BranchInv, Listing, IsRepository, PartOf
<1>7. RevisionOf(repo', JiriHead) = RevisionOf(repo, JiriHead)
  BY JiriHeadIs DEF BranchInv, Fine
<1>8. DOMAIN repo'.tip = DOMAIN repo.tip \/ DOMAIN repo'.tip = DOMAIN repo.tip \ {i.name}
  BY DEF Fine, Restrict
<1>9. HeadInv'
  <2> SUFFICES ASSUME ~failed, ~o.err
               PROVE  IF first.on \in DOMAIN repo'.tip \cup {"none"} THEN repo'.on = first.on
                      ELSE repo'.on = "none" /\ repo'.at = RevisionOf(repo, JiriHead)
    BY <1>1, <1>7 DEF HeadInv
  <2>1. IF first.on \in DOMAIN repo.tip \cup {"none"} THEN repo.on = first.on
        ELSE repo.on = "none" /\ repo.at = RevisionOf(repo, JiriHead)
    BY DEF BranchInv, HeadInv
  <2>2. CASE repo'.on = repo.on /\ (repo.on = "none" => repo'.at = repo.at)
    <3>1. repo.on \in DOMAIN repo'.tip \cup {"none"}
      BY <1>2, <2>2 DEF IsRepository
    <3> QED BY <2>1, <2>2, <3>1, <1>8
  <2>3. CASE /\ i.isHead /\ repo'.on = "none"
             /\ repo'.at = RevisionOf(repo, JiriHead) /\ i.name \notin DOMAIN repo'.tip
    <3>1. repo.on = i.name /\ i.name # "none"
      BY <2>3, <1>6
    <3>2. first.on = i.name
      BY <3>1, <2>1
    <3> QED BY <3>1, <3>2, <2>3
  <2> QED BY <2>2, <2>3 DEF Fine
<1> QED BY <1>1, <1>2, <1>3, <1>4, <1>9 DEF BranchInv

\* What a step leaves alone.
LEMMA BranchStays ==
  ASSUME BranchInv, UNCHANGED <<repo, first, opts, failed>>, Listing(todo', repo),
         pc' = "merged" => opts.mode \notin {"-d", "-D"},
         pc' = "cls" => opts.mode = "-delete-merged-cl"
  PROVE  BranchInv'
<1>1. ChangesSaved' /\ HeadInv'
  BY DEF BranchInv, ChangesSaved, HeadInv
<1> QED BY <1>1 DEF BranchInv

\* What a failure that is counted does to a project: nothing.
LEMMA StayIs ==
  ASSUME IsRepository(repo), NEW i, NEW err \in BOOLEAN
  PROVE  LET o == Outcome(repo, FALSE, err) IN
         Fine(repo, i, o) /\ o.err = err /\ o.repo = repo
  BY DEF Outcome, Fine

LEMMA DeleteGoesOn == BranchInv /\ Delete => BranchInv'
<1> SUFFICES ASSUME BranchInv, Delete PROVE BranchInv'
  OBVIOUS
<1> DEFINE i == Head(todo)
           d == DeleteBranch(repo, i.name, opts.mode = "-D")
<1>1. Next1("delete") /\ IsRepository(repo)
  BY DEF Delete, BranchInv
<1>2. i.name \in Names
  <2>1. todo # <<>> /\ todo \in Seq(Infos)
    BY <1>1 DEF Next1, BranchInv, Listing
  <2>2. i \in Infos
    BY <2>1
  <2> QED BY <2>2 DEF Infos
<1>3. /\ d = Refused(repo) \/ (d = Done(Deleted(repo, i.name)) /\ i.name \in DOMAIN repo.tip /\ repo.on # i.name)
      /\ opts.mode # "-D" => d = Refused(repo) \/ IsMerged(repo, i.name)
  BY DEF DeleteBranch
<1> HIDE DEF d
<1>4. /\ IsRepository(d.repo) /\ d.repo.on = repo.on /\ d.repo.at = repo.at /\ d.repo.origin = repo.origin
      /\ d.repo.tip = repo.tip \/ d.repo.tip = Restrict(repo.tip, DOMAIN repo.tip \ {i.name})
      /\ opts.mode # "-D" => Saved(repo) \subseteq Saved(d.repo)
  <2>1. d = Refused(repo) => d.repo = repo
    BY DEF Refused
  <2>2. d # Refused(repo) => d.res = "ok"
    BY <1>3 DEF Done
  <2>3. /\ IsRepository(d.repo) /\ d.repo.on = repo.on /\ d.repo.at = repo.at /\ d.repo.origin = repo.origin
        /\ d.res = "ok" => d.repo.tip = Restrict(repo.tip, DOMAIN repo.tip \ {i.name})
        /\ d = Refused(repo) \/ IsMerged(repo, i.name) => Saved(repo) \subseteq Saved(d.repo)
    <3>1. DeletedTo(repo, i.name, d)
      BY <1>1, <1>2, <1>3, DeletedIs
    <3> QED BY <3>1 DEF DeletedTo
  <2> QED BY <1>3, <2>1, <2>2, <2>3
<1>5. CASE Become({Outcome(d.repo, d.res = "ok", d.res # "ok")})
  <2> DEFINE o == Outcome(d.repo, d.res = "ok", d.res # "ok")
  <2>1. repo' = o.repo /\ failed' = (failed \/ o.err)
    BY <1>5 DEF Become
  <2>2. o.repo = d.repo /\ o.err \in BOOLEAN
    BY DEF Outcome
  <2>3. Fine(repo, i, o)
    BY <2>2, <1>4 DEF Fine
  <2> HIDE DEF o
  <2> QED BY <1>1, <1>4, <2>1, <2>2, <2>3, LoopGoesOn
<1>6. CASE Stay(FALSE)
  <2> DEFINE o == Outcome(repo, FALSE, FALSE)
  <2>1. repo' = o.repo /\ failed' = (failed \/ o.err)
    BY <1>6 DEF Stay, Become
  <2>2. o.repo = repo /\ o.err \in BOOLEAN /\ Fine(repo, i, o)
    BY <1>1, StayIs
  <2> HIDE DEF o
  <2> QED BY <1>1, <2>1, <2>2, LoopGoesOn
<1> QED BY <1>5, <1>6 DEF Delete, d

\* A branch that is discarded, without force or with its changes kept elsewhere.
LEMMA DiscardGoesOn ==
  ASSUME BranchInv, NEW at, Next1(at), at \in {"merged", "cls"}, opts.mode # "-D",
         \/ Become(Discard(repo, Head(todo), FALSE))
         \/ /\ Become(Discard(repo, Head(todo), TRUE))
            /\ \A o : Fine(repo, Head(todo), o) =>
                 Range(repo.tip[Head(todo).name].own) \subseteq
                   Saved(o.repo) \cup IF opts.mode = "-delete-merged-cl" THEN Submitted ELSE {}
  PROVE  BranchInv'
<1> DEFINE i == Head(todo)
<1>1. i \in Range(todo) /\ i \in Infos
  <2>1. todo # <<>> /\ todo \in Seq(Infos)
    BY DEF Next1, BranchInv, Listing
  <2> QED BY <2>1 DEF Range
<1>2. IsRepository(repo) /\ i.name \in DOMAIN repo.tip /\ i.isHead \in BOOLEAN /\ (i.isHead => repo.on = i.name)
  BY <1>1 DEF BranchInv, Listing, Infos
<1>3. CASE Become(Discard(repo, i, FALSE))
  <2>1. PICK o \in Discard(repo, i, FALSE) : repo' = o.repo /\ failed' = (failed \/ o.err)
    BY <1>3 DEF Become
  <2>2. Fine(repo, i, o) /\ o.err \in BOOLEAN /\ Saved(repo) \subseteq Saved(o.repo)
    <3> HIDE DEF i
    <3> QED BY <2>1, <1>2, DiscardIs
  <2> QED BY <2>1, <2>2, LoopGoesOn
<1>4. CASE /\ Become(Discard(repo, i, TRUE))
           /\ \A o : Fine(repo, i, o) =>
                Range(repo.tip[i.name].own) \subseteq
                  Saved(o.repo) \cup IF opts.mode = "-delete-merged-cl" THEN Submitted ELSE {}
  <2>1. PICK o \in Discard(repo, i, TRUE) : repo' = o.repo /\ failed' = (failed \/ o.err)
    BY <1>4 DEF Become
  <2>2. Fine(repo, i, o) /\ o.err \in BOOLEAN /\ Saved(repo) \subseteq Saved(o.repo) \cup Range(repo.tip[i.name].own)
    <3> HIDE DEF i
    <3> QED BY <2>1, <1>2, DiscardIs
  <2>3. Saved(repo) \subseteq Saved(o.repo) \cup IF opts.mode = "-delete-merged-cl" THEN Submitted ELSE {}
    <3> HIDE DEF i
    <3> QED BY <2>2, <1>4
  <2> QED BY <2>1, <2>2, <2>3, LoopGoesOn
<1> QED BY <1>3, <1>4

LEMMA StayGoesOn ==
  ASSUME BranchInv, NEW at, Next1(at), at \in {"delete", "merged", "cls"}, Stay(TRUE) \/ Stay(FALSE)
  PROVE  BranchInv'
<1>1. IsRepository(repo)
  BY DEF BranchInv
<1>2. CASE Stay(FALSE)
  <2> DEFINE o == Outcome(repo, FALSE, FALSE)
  <2>1. repo' = o.repo /\ failed' = (failed \/ o.err)
    BY <1>2 DEF Stay, Become
  <2>2. o.repo = repo /\ o.err \in BOOLEAN /\ Fine(repo, Head(todo), o)
    BY <1>1, StayIs
  <2> HIDE DEF o
  <2> QED BY <2>1, <2>2, LoopGoesOn
<1>3. CASE Stay(TRUE)
  <2> DEFINE o == Outcome(repo, FALSE, TRUE)
  <2>1. repo' = o.repo /\ failed' = (failed \/ o.err)
    BY <1>3 DEF Stay, Become
  <2>2. o.repo = repo /\ o.err \in BOOLEAN /\ Fine(repo, Head(todo), o)
    BY <1>1, StayIs
  <2> HIDE DEF o
  <2> QED BY <2>1, <2>2, LoopGoesOn
<1> QED BY <1>2, <1>3

LEMMA MergedGoesOn == BranchInv /\ Merged => BranchInv'
<1> SUFFICES ASSUME BranchInv, Merged PROVE BranchInv'
  OBVIOUS
<1> DEFINE i == Head(todo)
           into == Remote(RemoteBranch)
<1>1. Next1("merged") /\ opts.mode # "-D" /\ IsRepository(repo)
  BY DEF Merged, Next1, BranchInv
<1>2. \/ Stay(TRUE) \/ Stay(FALSE)
      \/ Become(Discard(repo, i, FALSE))
      \/ Exists(repo, into) /\ i.name \in MergedBranches(repo, into) /\ Become(Discard(repo, i, TRUE))
  BY DEF Merged
<1>3. ASSUME Exists(repo, into), i.name \in MergedBranches(repo, into), NEW o, Fine(repo, i, o)
      PROVE  Range(repo.tip[i.name].own) \subseteq Saved(o.repo)
  <2>1. i.name \in DOMAIN repo.tip /\ IsAncestor(repo.tip[i.name], RevisionOf(repo, into))
    BY <1>3 DEF MergedBranches
  <2>2. RemoteBranch \in DOMAIN repo.origin /\ RevisionOf(repo, into) = repo.origin[RemoteBranch]
    BY <1>1, <1>3, RevisionType
  <2>3. Range(repo.tip[i.name].own) \subseteq Range(repo.origin[RemoteBranch].own)
    <3>1. repo.tip[i.name] \in Revs /\ repo.origin[RemoteBranch] \in Revs
      BY <1>1, <2>1, <2>2, RevisionType
    <3> QED BY <2>1, <2>2, <3>1, AncestorHas
  <2>4. o.repo.origin = repo.origin
    BY <1>3 DEF Fine
  <2> QED BY <2>2, <2>3, <2>4, SavedHas
<1> HIDE DEF i, into
<1> QED BY <1>1, <1>2, <1>3, StayGoesOn, DiscardGoesOn DEF i

LEMMA MergedClsGoesOn == BranchInv /\ MergedCls => BranchInv'
<1> SUFFICES ASSUME BranchInv, MergedCls PROVE BranchInv'
  OBVIOUS
<1> DEFINE i == Head(todo)
           base == IF i.tracking = NoRef THEN Remote(RemoteBranch) ELSE i.tracking
           y == RevisionOf(repo, base)
<1>1. Next1("cls") /\ opts.mode = "-delete-merged-cl" /\ IsRepository(repo)
  BY DEF MergedCls, Next1, BranchInv
<1>2. \/ Stay(TRUE) \/ Stay(FALSE)
      \/ Exists(repo, base) /\ AllSubmitted(ExtraCommits(i.revision, y)) /\ Become(Discard(repo, i, TRUE))
  BY DEF MergedCls
<1>3. i \in Range(todo) /\ i \in Infos
  <2>1. todo # <<>> /\ todo \in Seq(Infos)
    BY <1>1 DEF Next1, BranchInv, Listing
  <2> QED BY <2>1 DEF Range
<1>4. /\ i.name \in DOMAIN repo.tip /\ repo.tip[i.name] = i.revision /\ i.revision \in Revs
      /\ i.tracking # Local(i.name) /\ i.tracking \in Refs
  BY <1>3 DEF BranchInv, Listing, Infos
<1>5. ASSUME Exists(repo, base), AllSubmitted(ExtraCommits(i.revision, y)), NEW o, Fine(repo, i, o)
      PROVE  Range(repo.tip[i.name].own) \subseteq Saved(o.repo) \cup Submitted
  <2>1. y \in Revs /\ Range(y.own) \subseteq Saved(o.repo)
    <3>1. CASE \E c : base = Remote(c)
      <4>1. PICK c : base = Remote(c)
        BY <3>1
      <4>2. c \in DOMAIN repo.origin /\ y = repo.origin[c] /\ repo.origin[c] \in Revs
        BY <1>1, <1>5, <4>1, RevisionType
      <4>3. o.repo.origin = repo.origin
        BY <1>5 DEF Fine
      <4> QED BY <4>2, <4>3, SavedHas
    <3>2. CASE \E c : base = Local(c)
      <4>1. PICK c : base = Local(c)
        BY <3>2
      <4>2. c \in DOMAIN repo.tip /\ y = repo.tip[c] /\ repo.tip[c] \in Revs
        BY <1>1, <1>5, <4>1, RevisionType
      <4>3. base # Remote(RemoteBranch)
        BY <4>1 DEF Remote, Local
      <4>4. c # i.name
        BY <4>1, <4>3, <1>4
      <4>5. c \in DOMAIN o.repo.tip /\ o.repo.tip[c] = repo.tip[c]
        BY <4>2, <4>4, <1>5 DEF Fine, Restrict
      <4> QED BY <4>2, <4>5, SavedHas
    <3>3. base # NoRef => \E c : base = Remote(c) \/ base = Local(c)
      BY <1>4 DEF Refs
    <3>4. base # NoRef
      BY <1>1, <1>5, RevisionType
    <3> QED BY <3>1, <3>2, <3>3, <3>4
  <2>2. Range(i.revision.own) \subseteq Range(y.own) \cup Submitted
    BY <1>4, <1>5, <2>1, ExtraHas
  <2> QED BY <2>1, <2>2, <1>4
<1> HIDE DEF i, base, y
<1> QED BY <1>1, <1>2, <1>5, StayGoesOn, DiscardGoesOn DEF i

LEMMA BranchGoesOn == BranchInv /\ [BranchNext]_branchVars => BranchInv'
<1> SUFFICES ASSUME BranchInv, [BranchNext]_branchVars PROVE BranchInv'
  OBVIOUS
<1>1. IsRepository(repo) /\ Listing(todo, repo)
  BY DEF BranchInv
<1>2. CASE Start
  <2>1. todo' \in {todo, GetAllBranchesInfo(repo), <<>>}
    BY <1>2 DEF Start
  <2>2. Listing(todo', repo)
    BY <1>1, <2>1, BranchesListed, NothingListed
  <2>3. CASE failed' = failed
    BY <1>2, <2>2, <2>3, BranchStays DEF Start, branchGiven
  <2>4. CASE failed' = TRUE
    <3>1. UNCHANGED <<repo, first, opts>> /\ pc' # "cls" /\ (pc' = "merged" => opts.mode \notin {"-d", "-D"})
      BY <1>2 DEF Start, branchGiven
    <3>2. ChangesSaved' /\ HeadInv'
      BY <3>1, <2>4 DEF BranchInv, ChangesSaved, HeadInv
    <3> QED BY <3>1, <3>2, <2>2, <2>4 DEF BranchInv
  <2> QED BY <1>2, <2>3, <2>4 DEF Start
<1>3. CASE MergedEnds
  <2>1. todo' \in {todo, GetAllBranchesInfo(repo)}
    BY <1>3 DEF MergedEnds
  <2>2. Listing(todo', repo)
    BY <1>1, <2>1, BranchesListed
  <2>3. UNCHANGED <<repo, first, opts>> /\ pc' # "merged" /\ (pc' = "cls" => opts.mode = "-delete-merged-cl")
    BY <1>3 DEF MergedEnds, branchGiven
  <2>4. CASE failed' = failed
    BY <2>2, <2>3, <2>4, BranchStays
  <2>5. CASE failed' = TRUE
    <3>1. ChangesSaved' /\ HeadInv'
      BY <2>3, <2>5 DEF BranchInv, ChangesSaved, HeadInv
    <3> QED BY <3>1, <2>2, <2>3, <2>5 DEF BranchInv
  <2> QED BY <1>3, <2>4, <2>5 DEF MergedEnds
<1>4. CASE LoopEnds
  BY <1>1, <1>4, BranchStays DEF LoopEnds, branchGiven
<1>5. CASE UNCHANGED branchVars
  BY <1>1, <1>5, BranchStays DEF branchVars, BranchInv
<1> QED
  BY <1>2, <1>3, <1>4, <1>5, DeleteGoesOn, MergedGoesOn, MergedClsGoesOn DEF BranchNext, BranchStep, BranchFinished

\* branch.go: whatever branches there are, however they track each other, and whatever git
\* and Gerrit answer, -d, -delete-merged and -delete-merged-cl lose no change that Gerrit has
\* not merged, and HEAD is on the branch it was on at the end, or at JIRI_HEAD if that is gone.
THEOREM BranchesAreKept == BranchSpec => []BranchKept
<1>1. BranchInv => BranchKept
  <2> SUFFICES ASSUME BranchInv PROVE BranchKept
    OBVIOUS
  <2>1. repo.on = "none" => HeadOf(repo) = repo.at
    BY RevisionType DEF BranchInv
  <2>2. HeadKept
    BY <2>1 DEF HeadKept, BranchInv, HeadInv
  <2> QED BY <2>2 DEF BranchKept, BranchInv
<1> QED BY <1>1, BranchStarts, BranchGoesOn, PTL DEF BranchSpec
-----------------------------------------------------------------------------
(* "jiri upload". *)

UploadTypes ==
  /\ urepo = [p \in Projects |-> urepo[p]] /\ \A p \in Projects : IsRepository(urepo[p])
  /\ uflags.at \in Projects \cup {"root"}
  /\ uploads \in Seq(Projects) /\ DOMAIN pushes \subseteq Projects

\* A project is on top of the branch it is sent to, if that is there.
OnTop(p) == pushes[p] \in DOMAIN urepo[p].theirs => IsAncestor(urepo[p].theirs[pushes[p]], HeadOf(urepo[p]))

\* Before the pushes nothing is sent, and what the rebases have done is on top.
UploadStage ==
  /\ upc \in {"select", "check", "rebase"} => sent = Nothing
  /\ upc = "rebase" => \A p \in DOMAIN pushes : p \in Range(uploads) \/ OnTop(p)
  /\ uflags.rebase /\ (upc = "push" \/ sent # Nothing) => \A p \in DOMAIN pushes : OnTop(p)

UploadInv == UploadTypes /\ UploadStage /\ UploadKeeps

LEMMA UploadStarts == UploadInit => UploadInv
<1> SUFFICES ASSUME UploadInit PROVE UploadInv
  OBVIOUS
<1>1. urepo = [p \in Projects |-> urepo[p]] /\ \A p \in Projects : IsRepository(urepo[p])
  BY UploadAssumption DEF UploadInit
<1>2. UploadTypes
  BY <1>1, UploadAssumption DEF UploadInit, UploadTypes, Nothing
<1>3. UploadStage
  BY DEF UploadInit, UploadStage
<1>4. UploadKeeps
  BY DEF UploadInit, UploadKeeps
<1> QED BY <1>2, <1>3, <1>4 DEF UploadInv

\* What a sequence of projects is after its head.
LEMMA TailOf ==
  ASSUME NEW T, NEW s \in Seq(T), s # <<>>
  PROVE  Head(s) \in T /\ Tail(s) \in Seq(T) /\ Range(s) = {Head(s)} \cup Range(Tail(s))
<1>1. Head(s) \in T /\ Tail(s) \in Seq(T) /\ Len(s) \in Nat \ {0}
  OBVIOUS
<1>2. \A i \in DOMAIN s : i = 1 \/ (i - 1 \in DOMAIN Tail(s) /\ s[i] = Tail(s)[i - 1])
  OBVIOUS
<1>3. \A i \in DOMAIN Tail(s) : i + 1 \in DOMAIN s /\ Tail(s)[i] = s[i + 1]
  OBVIOUS
<1>4. 1 \in DOMAIN s /\ Head(s) = s[1]
  OBVIOUS
<1>5. Range(s) \subseteq {Head(s)} \cup Range(Tail(s))
  <2> SUFFICES ASSUME NEW i \in DOMAIN s PROVE s[i] \in {Head(s)} \cup Range(Tail(s))
    BY DEF Range
  <2> QED BY <1>2, <1>4 DEF Range
<1>6. {Head(s)} \cup Range(Tail(s)) \subseteq Range(s)
  BY <1>3, <1>4 DEF Range
<1> QED BY <1>1, <1>5, <1>6

LEMMA UploadGoesOn == UploadInv /\ [UploadNext]_uploadVars => UploadInv'
<1> SUFFICES ASSUME UploadInv, [UploadNext]_uploadVars PROVE UploadInv'
  OBVIOUS
<1> USE DEF UploadInv, uploadGiven
<1>0. CASE UNCHANGED uploadVars
  BY <1>0 DEF uploadVars, UploadTypes, UploadStage, UploadKeeps, OnTop
<1> DEFINE Still == UNCHANGED <<urepo, ufirst, uflags, sent>>
<1>a. Still => UploadKeeps'
  BY DEF UploadKeeps
<1>b. ASSUME Still, UNCHANGED pushes PROVE \A p : OnTop(p)' <=> OnTop(p)
  BY <1>b DEF OnTop
<1>1. CASE Select
  <2>1. Still /\ UNCHANGED pushes /\ upc' \in {"done", "check"} /\ uploads' \in Seq(Projects) /\ sent = Nothing
    <3>1. Selected \subseteq Projects
      BY DEF Selected, UploadTypes
    <3>2. IsFiniteSet(Selected)
      BY <3>1, UploadAssumption, FS_Subset
    <3>3. \A s \in SetToSeqs(Selected) : s \in Seq(Projects)
      BY <3>1, <3>2, SeqOfSet
    <3> QED BY <1>1, <3>3 DEF Select, UploadReturn, UploadGoto, UploadStage, UploadTypes
  <2>2. UploadTypes'
    BY <2>1 DEF UploadTypes
  <2>3. UploadStage'
    BY <2>1 DEF UploadStage, Nothing
  <2> QED BY <1>a, <2>1, <2>2, <2>3
<1>2. CASE Check
  <2>1. Still /\ upc' \in {"done", "check"} /\ sent = Nothing
    BY <1>2 DEF Check, UploadReturn, UploadGoto, UploadStage
  <2>2. \/ UNCHANGED <<uploads, pushes>>
        \/ \E b : uploads' = Tail(uploads) /\ pushes' = Put(pushes, UploadProj, b)
    BY <1>2 DEF Check
  <2>3. uploads # <<>>
    BY <1>2 DEF Check
  <2>4. UploadProj \in Projects /\ Tail(uploads) \in Seq(Projects)
    BY <2>3, TailOf DEF UploadTypes, UploadProj
  <2>5. uploads' \in Seq(Projects) /\ DOMAIN pushes' \subseteq Projects
    BY <2>2, <2>4 DEF UploadTypes, Put
  <2>6. UploadTypes'
    BY <2>1, <2>5 DEF UploadTypes
  <2>7. UploadStage'
    BY <2>1 DEF UploadStage, Nothing
  <2> QED BY <1>a, <2>1, <2>6, <2>7
<1>c. \A s \in SetToSeqs(DOMAIN pushes) : s \in Seq(Projects) /\ Range(s) = DOMAIN pushes
  <2>1. IsFiniteSet(DOMAIN pushes) /\ DOMAIN pushes \subseteq Projects
    BY UploadAssumption, FS_Subset DEF UploadTypes
  <2> QED BY <2>1, SeqOfSet
<1>3. CASE CheckedAll
  <2>1. Still /\ UNCHANGED pushes /\ sent = Nothing /\ uploads' \in Seq(Projects) /\ Range(uploads') = DOMAIN pushes
    BY <1>3, <1>c DEF CheckedAll, UploadStage
  <2>2. upc' = IF uflags.rebase THEN "rebase" ELSE "push"
    BY <1>3 DEF CheckedAll, UploadGoto
  <2>3. UploadTypes'
    BY <2>1 DEF UploadTypes
  <2>4. UploadStage'
    BY <2>1, <2>2 DEF UploadStage, Nothing
  <2> QED BY <1>a, <2>1, <2>3, <2>4
<1>4. CASE UploadRebase
  <2>1. CASE UploadFault
    <3>1. Still /\ UNCHANGED <<uploads, pushes>> /\ upc' = "done" /\ sent = Nothing
      BY <1>4, <2>1 DEF UploadRebase, UploadFault, UploadReturn, UploadStage
    <3> QED BY <1>a, <3>1 DEF UploadTypes, UploadStage, Nothing
  <2>2. CASE ~UploadFault
    <3> DEFINE f == FetchAll(UploadHere, FALSE).repo
               ref == Remote(pushes[UploadProj])
    <3>1. PICK b \in RebaseOrAbort(f, ref, TRUE) :
            /\ urepo' = [urepo EXCEPT ![UploadProj] = b.repo]
            /\ IF b.res # "ok" THEN UploadReturn("error") /\ UNCHANGED uploads
               ELSE UploadGoto("rebase") /\ uploads' = Tail(uploads)
            /\ UNCHANGED <<pushes, sent, ufaults>>
      BY <1>4, <2>2 DEF UploadRebase
    <3>2. upc = "rebase" /\ uploads # <<>> /\ UNCHANGED uploadGiven /\ sent = Nothing
      BY <1>4 DEF UploadRebase, UploadStage
    <3>3. UploadProj \in Projects /\ Tail(uploads) \in Seq(Projects) /\ Range(uploads) = {UploadProj} \cup Range(Tail(uploads))
      BY <3>2, TailOf DEF UploadTypes, UploadProj
    <3>4. IsRepository(UploadHere)
      BY <3>3 DEF UploadTypes, UploadHere
    <3>5. IsRepository(f) /\ f.tip = UploadHere.tip /\ f.theirs = UploadHere.theirs
          /\ \A c \in DOMAIN f.theirs : c \in DOMAIN f.origin /\ f.origin[c] = f.theirs[c]
      <4> DEFINE g == FetchAll(UploadHere, FALSE)
      <4>1. g = FetchAll(UploadHere, TRUE) \/ g = FetchAll(UploadHere, FALSE)
        OBVIOUS
      <4>2. f = g.repo
        OBVIOUS
      <4> HIDE DEF g, f, UploadHere
      <4>3. /\ IsRepository(g.repo) /\ g.repo.tip = UploadHere.tip /\ g.repo.theirs = UploadHere.theirs
            /\ \A c \in DOMAIN UploadHere.theirs : c \in DOMAIN g.repo.origin /\ g.repo.origin[c] = UploadHere.theirs[c]
        BY <4>1, <3>4, FetchAllIs
      <4> QED BY <4>2, <4>3
    <3>6. /\ Exists(f, ref) <=> pushes[UploadProj] \in DOMAIN f.origin
          /\ RevisionOf(f, ref) = f.origin[pushes[UploadProj]]
          /\ Exists(f, ref) => RevisionOf(f, ref) \in Revs
      <4> HIDE DEF f
      <4> QED BY <3>5, RevisionType
    <3>7. /\ IsRepository(b.repo) /\ b.repo.theirs = UploadHere.theirs
          /\ DOMAIN b.repo.tip = DOMAIN UploadHere.tip
          /\ \A c \in DOMAIN UploadHere.tip : Range(UploadHere.tip[c].own) \subseteq Range(b.repo.tip[c].own)
          /\ b.res = "ok" => IsAncestor(RevisionOf(f, ref), HeadOf(b.repo))
      <4>1. b \in RebaseOrAbort(f, ref, TRUE)
        OBVIOUS
      <4> HIDE DEF f, ref
      <4>2. RebasedTo(f, ref, b)
        BY <4>1, <3>5, <3>6, RebaseIs
      <4> QED BY <4>2, <3>5 DEF RebasedTo
    <3>8. /\ \A p \in Projects \ {UploadProj} : urepo'[p] = urepo[p]
          /\ urepo'[UploadProj] = b.repo /\ urepo' = [p \in Projects |-> urepo'[p]]
      BY <3>1, <3>3 DEF UploadTypes
    <3>9. UploadTypes'
      <4>1. \A p \in Projects : IsRepository(urepo'[p])
        BY <3>7, <3>8 DEF UploadTypes
      <4>2. uploads' \in Seq(Projects) /\ DOMAIN pushes' \subseteq Projects /\ uflags' = uflags
        BY <3>1, <3>2, <3>3 DEF UploadTypes
      <4> QED BY <3>8, <4>1, <4>2 DEF UploadTypes
    <3>10. UploadKeeps'
      <4> SUFFICES ASSUME NEW p \in Projects, NEW c \in DOMAIN ufirst[p].tip
                   PROVE  c \in DOMAIN urepo'[p].tip /\ Range(ufirst[p].tip[c].own) \subseteq Range(urepo'[p].tip[c].own)
        BY <3>2 DEF UploadKeeps
      <4>1. c \in DOMAIN urepo[p].tip /\ Range(ufirst[p].tip[c].own) \subseteq Range(urepo[p].tip[c].own)
        BY DEF UploadKeeps
      <4>2. CASE p = UploadProj
        BY <4>1, <4>2, <3>7, <3>8 DEF UploadHere
      <4> QED BY <4>1, <4>2, <3>8
    <3>11. UploadStage'
      <4>1. CASE b.res = "ok"
        <5>1. upc' = "rebase" /\ uploads' = Tail(uploads) /\ UNCHANGED <<pushes, sent>>
          BY <3>1, <4>1 DEF UploadGoto
        <5>2. ASSUME NEW p, p = UploadProj PROVE OnTop(p)'
          <6> SUFFICES ASSUME pushes[p] \in DOMAIN b.repo.theirs
                       PROVE  IsAncestor(b.repo.theirs[pushes[p]], HeadOf(b.repo))
            BY <5>1, <5>2, <3>8 DEF OnTop
          <6>1. pushes[UploadProj] \in DOMAIN f.theirs
            BY <5>2, <3>5, <3>7
          <6>2. RevisionOf(f, ref) = b.repo.theirs[pushes[p]]
            BY <5>2, <6>1, <3>5, <3>6, <3>7
          <6> QED BY <6>2, <3>7, <4>1
        <5>3. ASSUME NEW p \in DOMAIN pushes, p # UploadProj, OnTop(p) PROVE OnTop(p)'
          BY <5>1, <5>3, <3>8 DEF OnTop, UploadTypes
        <5>4. \A p \in DOMAIN pushes' : p \in Range(uploads') \/ OnTop(p)'
          <6> SUFFICES ASSUME NEW p \in DOMAIN pushes, p \notin Range(Tail(uploads)) PROVE OnTop(p)'
            BY <5>1
          <6>1. p = UploadProj \/ OnTop(p)
            BY <3>2, <3>3 DEF UploadStage
          <6> QED BY <6>1, <5>2, <5>3
        <5> QED BY <5>1, <5>4, <3>2 DEF UploadStage, Nothing
      <4>2. CASE b.res # "ok"
        BY <4>2, <3>1, <3>2 DEF UploadReturn, UploadStage, Nothing
      <4> QED BY <4>1, <4>2
    <3> QED BY <3>9, <3>10, <3>11
  <2> QED BY <2>1, <2>2
<1>5. CASE RebasedAll
  <2>1. Still /\ UNCHANGED pushes /\ upc' = "push" /\ sent = Nothing /\ uploads' \in Seq(Projects)
    BY <1>5, <1>c DEF RebasedAll, UploadGoto, UploadStage
  <2>2. \A p \in DOMAIN pushes : OnTop(p)
    BY <1>5 DEF RebasedAll, UploadStage, Range
  <2>3. UploadTypes'
    BY <2>1 DEF UploadTypes
  <2>4. UploadStage'
    BY <2>1, <2>2, <1>b DEF UploadStage
  <2> QED BY <1>a, <2>1, <2>3, <2>4
<1>d. ASSUME upc = "push", upc' \in {"push", "done"}, UNCHANGED <<urepo, ufirst, uflags, pushes>>,
             uploads' \in Seq(Projects)
      PROVE  UploadInv'
  <2>1. UploadTypes' /\ UploadKeeps'
    BY <1>d DEF UploadTypes, UploadKeeps
  <2>2. \A p : OnTop(p)' <=> OnTop(p)
    BY <1>d DEF OnTop
  <2>3. UploadStage'
    BY <1>d, <2>2 DEF UploadStage
  <2> QED BY <2>1, <2>3
<1>6. CASE Push
  <2>1. upc = "push" /\ uploads # <<>> /\ UNCHANGED <<urepo, ufirst, uflags, pushes>> /\ upc' \in {"push", "done"}
    BY <1>6 DEF Push, UploadFault, UploadReturn, UploadGoto
  <2>2. uploads' = uploads \/ uploads' = Tail(uploads)
    BY <1>6 DEF Push, UploadFault
  <2>3. uploads' \in Seq(Projects)
    BY <2>1, <2>2, TailOf DEF UploadTypes
  <2> QED BY <1>d, <2>1, <2>3
<1>7. CASE PushedAll
  BY <1>d, <1>7 DEF PushedAll, UploadReturn, UploadTypes
<1>8. CASE UploadFinished
  BY <1>0, <1>8 DEF UploadFinished
<1> QED
  BY <1>0, <1>1, <1>2, <1>3, <1>4, <1>5, <1>6, <1>7, <1>8 DEF UploadNext, UploadStep

\* upload.go: however an upload ends, every branch is there with all its changes, rebased or
\* not; and as soon as one change is in Gerrit, every project is on top of the branch it is
\* sent to.
THEOREM UploadIsSafe == UploadSpec => []UploadSafe
<1>1. UploadInv => UploadSafe
  BY DEF UploadInv, UploadSafe, UploadStage, RebasedBeforePush, OnTop
<1> QED BY <1>1, UploadStarts, UploadGoesOn, PTL DEF UploadSpec

\* The projects that are meant, and the branch that p is to be sent to if HEAD's branch tracks
\* one of the remote.
Meant == IF uflags.multipart THEN {p \in Projects : ufirst[p].on = Current} ELSE {uflags.at}
Right(p, b) ==
  uflags.remoteBranch = NoName /\ ufirst[p].on # "none" /\ ufirst[p].up[ufirst[p].on][1] = "origin" =>
    b = ufirst[p].up[ufirst[p].on][2]
Whole(p, x) == Range(RevisionOf(ufirst[p], uflags.ref).own) \subseteq Range(x.own)

\* What a phase has done of what it is to do; until the command ends no HEAD has lost a change.
Progress ==
  /\ upc # "done" => uret = "none"
  /\ upc \in {"select", "check"} => urepo = ufirst
  /\ upc = "select" => pushes = Nothing
  /\ upc \notin {"select", "done"} => uflags.multipart \/ uflags.at # "root"
  /\ upc = "check" => (DOMAIN pushes) \cup Range(uploads) = Meant
  /\ upc \in {"rebase", "push"} => DOMAIN pushes = Meant
  /\ upc = "push" => (DOMAIN sent) \cup Range(uploads) = Meant
  /\ uret = "nil" => DOMAIN sent = Meant
Matches ==
  /\ ufirst = [p \in Projects |-> ufirst[p]] /\ uflags \in UploadCommands
  /\ \A p \in Projects : IsRepository(ufirst[p]) /\ DOMAIN urepo[p].tip = DOMAIN ufirst[p].tip
  /\ upc # "done" => \A p \in Projects : Range(HeadOf(ufirst[p]).own) \subseteq Range(HeadOf(urepo[p]).own)
Delivered ==
  /\ \A p \in DOMAIN pushes : Right(p, pushes[p])
  /\ \A p \in DOMAIN sent : Right(p, sent[p].branch) /\ Whole(p, sent[p].what)
UploadProgress == Progress /\ Matches /\ Delivered

LEMMA ProgressStarts == UploadInit => UploadProgress
<1> SUFFICES ASSUME UploadInit PROVE UploadProgress
  OBVIOUS
<1>1. Progress
  BY DEF UploadInit, Progress
<1>2. Matches
  <2>1. ufirst = [p \in Projects |-> ufirst[p]]
    BY DEF UploadInit
  <2>2. \A p \in Projects : IsRepository(ufirst[p])
    BY UploadAssumption DEF UploadInit
  <2> QED BY <2>1, <2>2 DEF UploadInit, Matches
<1>3. Delivered
  BY DEF UploadInit, Delivered, Nothing
<1> QED BY <1>1, <1>2, <1>3 DEF UploadProgress

\* The branch of the remote that HEAD's branch tracks is at the end of the chain that begins
\* with it.
LEMMA TracksRemote ==
  ASSUME NEW r, IsRepository(r), r.on # "none", r.up[r.on][1] = "origin"
  PROVE  RemoteBranchName(r) = r.up[r.on][2] /\ r.up[r.on][2] \in Branches
<1> DEFINE start == r.up[r.on]
           next(u) == IF Exists(r, u) THEN r.up[u[2]] ELSE NoRef
           refs == {start, NoRef} \cup {r.up[b] : b \in Names}
           goesOn(S) == start \in S /\ \A u \in S : u[1] = "local" => next(u) \in S
           ends == {u \in refs : u[1] # "local" /\ \A S \in SUBSET refs : goesOn(S) => u \in S}
<1>1. RemoteBranchName(r) = CASE ends = {} -> "hangs" [] ends = {NoRef} -> NoName [] OTHER -> (CHOOSE u \in ends : TRUE)[2]
  BY DEF RemoteBranchName
<1>2. r.on \in Names /\ start \in Refs
  BY DEF IsRepository, PartOf
<1>3. start # NoRef /\ \E b \in Branches : start = Remote(b)
  BY <1>2 DEF Refs, NoRef, Local
<1>4. start[2] \in Branches
  BY <1>3 DEF Remote
<1>5. goesOn({start}) /\ {start} \in SUBSET refs
  OBVIOUS
<1>6. start \in ends
  BY DEF goesOn
<1>7. \A u \in ends : u = start
  BY <1>5
<1> HIDE DEF start, refs, goesOn, ends
<1>8. ends = {start}
  BY <1>6, <1>7
<1>9. (CHOOSE u \in ends : TRUE) = start
  BY <1>8
<1>10. ends # {} /\ ends # {NoRef}
  BY <1>3, <1>8
<1>11. RemoteBranchName(r) = start[2]
  BY <1>1, <1>9, <1>10
<1> QED BY <1>4, <1>11 DEF start

\* What the ref of an upload is of a repository where no branch has lost anything.
LEMMA RefKept ==
  ASSUME NEW f, NEW r, IsRepository(f), IsRepository(r), DOMAIN r.tip = DOMAIN f.tip,
         Range(HeadOf(f).own) \subseteq Range(HeadOf(r).own),
         \A b \in DOMAIN f.tip : Range(f.tip[b].own) \subseteq Range(r.tip[b].own),
         uflags \in UploadCommands, Exists(r, uflags.ref)
  PROVE  Range(RevisionOf(f, uflags.ref).own) \subseteq Range(RevisionOf(r, uflags.ref).own)
<1>1. CASE uflags.ref = HeadRef
  BY <1>1 DEF HeadOf
<1>2. CASE \E b \in Names : uflags.ref = Local(b)
  <2>1. PICK b \in Names : uflags.ref = Local(b)
    BY <1>2
  <2>2. b \in DOMAIN f.tip /\ RevisionOf(f, uflags.ref) = f.tip[b] /\ RevisionOf(r, uflags.ref) = r.tip[b]
    BY <2>1, RevisionType
  <2> QED BY <2>2
<1> QED BY <1>1, <1>2, UploadAssumption

LEMMA ProgressStays ==
  ASSUME UploadProgress, UNCHANGED <<urepo, uploadGiven, pushes, sent>>
  PROVE  /\ (\A p, b : Right(p, b)' <=> Right(p, b)) /\ Meant' = Meant /\ Delivered'
         /\ (upc # "done" => Matches') /\ (upc' = "done" => Matches')
<1>1. ufirst' = ufirst /\ uflags' = uflags /\ urepo' = urepo
  BY DEF uploadGiven
<1>2. \A p, b : Right(p, b)' <=> Right(p, b)
  BY <1>1 DEF Right
<1>3. Meant' = Meant
  BY <1>1 DEF Meant, Current
<1>4. Delivered'
  BY <1>1 DEF UploadProgress, Delivered, Right, Whole
<1>5. (upc # "done" => Matches') /\ (upc' = "done" => Matches')
  BY <1>1 DEF UploadProgress, Matches
<1> QED BY <1>2, <1>3, <1>4, <1>5

LEMMA ProgressGoesOn == UploadInv /\ UploadProgress /\ [UploadNext]_uploadVars => UploadProgress'
<1> SUFFICES ASSUME UploadInv, UploadProgress, [UploadNext]_uploadVars PROVE UploadProgress'
  OBVIOUS
<1> DEFINE Still == UNCHANGED <<urepo, uploadGiven, pushes, sent>>
<1>0. CASE UNCHANGED uploadVars
  BY <1>0 DEF uploadVars, UploadProgress, Progress, Matches, Delivered, Right, Whole, Meant, Current
<1>a. Progress /\ Matches /\ Delivered /\ uploads \in Seq(Projects) /\ DOMAIN pushes \subseteq Projects
  BY DEF UploadProgress, UploadInv, UploadTypes
<1>b. \A s \in SetToSeqs(DOMAIN pushes) : Range(s) = DOMAIN pushes
  <2>1. IsFiniteSet(DOMAIN pushes)
    BY <1>a, UploadAssumption, FS_Subset
  <2> QED BY <2>1, SeqOfSet
<1>c. uploads # <<>> => UploadProj \in Projects /\ Range(uploads) = {UploadProj} \cup Range(Tail(uploads))
  BY <1>a, TailOf DEF UploadProj
<1>d. uploads = <<>> => Range(uploads) = {}
  BY DEF Range
<1>1. CASE Select
  <2>1. upc = "select" /\ Still /\ pushes = Nothing /\ sent = Nothing /\ uret = "none" /\ urepo = ufirst
    BY <1>1, <1>a DEF Select, Progress, UploadInv, UploadStage
  <2>2. CASE UploadReturn("error")
    <3>1. Progress'
      BY <2>1, <2>2 DEF Progress, UploadReturn, uploadGiven
    <3> QED BY <2>1, <3>1, ProgressStays DEF UploadProgress
  <2>3. CASE ~UploadReturn("error")
    <3>1. Selected # {} /\ UploadGoto("check") /\ \E s \in SetToSeqs(Selected) : uploads' = s
      BY <1>1, <2>3 DEF Select
    <3>2. Selected = Meant /\ (uflags.multipart \/ uflags.at # "root")
      BY <2>1, <3>1 DEF Selected, Meant
    <3>3. Selected \subseteq Projects
      BY DEF Selected, UploadInv, UploadTypes
    <3>4. IsFiniteSet(Selected)
      BY <3>3, UploadAssumption, FS_Subset
    <3>5. Range(uploads') = Meant
      BY <3>1, <3>2, <3>4, SeqOfSet
    <3>6. upc' = "check" /\ uret' = "none" /\ DOMAIN pushes' = {} /\ uflags' = uflags /\ urepo' = urepo /\ ufirst' = ufirst
      BY <2>1, <3>1 DEF UploadGoto, Nothing, uploadGiven
    <3>7. Meant' = Meant /\ Delivered' /\ Matches'
      BY <2>1, ProgressStays
    <3>8. Progress'
      BY <2>1, <3>2, <3>5, <3>6, <3>7 DEF Progress
    <3> QED BY <3>7, <3>8 DEF UploadProgress
  <2> QED BY <2>2, <2>3
<1>2. CASE Check
  <2> DEFINE p == UploadProj
             tracked == IF uflags.remoteBranch # NoName THEN uflags.remoteBranch
                        ELSE IF Current = NoName THEN NoName ELSE RemoteBranchName(UploadHere)
             branch == CASE tracked # NoName -> tracked
                         [] tracked = NoName /\ UploadProj \in DOMAIN Manifest -> Manifest[UploadProj]
                         [] OTHER -> "master"
  <2>1. /\ upc = "check" /\ uploads # <<>> /\ UNCHANGED <<urepo, uploadGiven, sent, ufaults>>
        /\ sent = Nothing /\ uret = "none" /\ urepo = ufirst
    BY <1>2, <1>a DEF Check, Progress, UploadInv, UploadStage
  <2>2. \/ (UploadReturn("error") \/ UploadReturn("hangs")) /\ UNCHANGED <<uploads, pushes>>
        \/ /\ tracked # "hangs" \/ (uflags.rebase /\ UploadHere.dirty)
           /\ UploadGoto("check") /\ uploads' = Tail(uploads) /\ pushes' = Put(pushes, UploadProj, branch)
    BY <1>2 DEF Check
  <2>3. CASE (UploadReturn("error") \/ UploadReturn("hangs")) /\ UNCHANGED <<uploads, pushes>>
    <3>1. Progress'
      BY <2>1, <2>3 DEF Progress, UploadReturn, uploadGiven
    <3> QED BY <2>1, <2>3, <3>1, ProgressStays DEF UploadProgress
  <2>4. CASE UploadGoto("check") /\ uploads' = Tail(uploads) /\ pushes' = Put(pushes, UploadProj, branch)
    <3>1. upc' = "check" /\ uret' = "none" /\ uflags' = uflags /\ urepo' = urepo /\ ufirst' = ufirst /\ sent' = sent
      BY <2>1, <2>4 DEF UploadGoto, uploadGiven
    <3>2. p \in Projects /\ Range(uploads) = {p} \cup Range(Tail(uploads)) /\ p \in Meant
          /\ (uflags.multipart \/ uflags.at # "root") /\ (DOMAIN pushes) \cup Range(uploads) = Meant
      BY <1>a, <1>c, <2>1 DEF Progress
    <3>3. Right(p, branch)
      <4> SUFFICES ASSUME uflags.remoteBranch = NoName, ufirst[p].on # "none", ufirst[p].up[ufirst[p].on][1] = "origin"
                   PROVE  branch = ufirst[p].up[ufirst[p].on][2]
        BY DEF Right
      <4>1. IsRepository(ufirst[p]) /\ UploadHere = ufirst[p]
        BY <1>a, <2>1, <3>2 DEF Matches, UploadHere
      <4>2. RemoteBranchName(UploadHere) = ufirst[p].up[ufirst[p].on][2] /\ ufirst[p].up[ufirst[p].on][2] \in Branches
        BY <4>1, TracksRemote
      <4>3. Current = ufirst[p].on
        BY <3>2 DEF Current, Meant
      <4>4. Current # NoName /\ ufirst[p].up[ufirst[p].on][2] # NoName
        BY <4>1, <4>2, <4>3, NamesAssumption DEF IsRepository, PartOf
      <4> QED BY <4>2, <4>4
    <3> HIDE DEF p, branch
    <3>4. pushes' = Put(pushes, p, branch)
      BY <2>4 DEF p
    <3>5. DOMAIN pushes' = (DOMAIN pushes) \cup {p} /\ pushes'[p] = branch
          /\ \A q \in (DOMAIN pushes) \ {p} : pushes'[q] = pushes[q]
      BY <3>4 DEF Put
    <3>6. \A q, b : Right(q, b)' <=> Right(q, b)
      BY <3>1 DEF Right
    <3>7. \A q \in DOMAIN pushes' : Right(q, pushes'[q])
      BY <1>a, <3>3, <3>5 DEF Delivered
    <3>8. Meant' = Meant
      BY <3>1 DEF Meant, Current
    <3>9. Delivered'
      BY <2>1, <3>1, <3>6, <3>7 DEF Delivered, Nothing
    <3>10. Matches'
      BY <1>a, <2>1, <3>1 DEF Matches
    <3>11. (DOMAIN pushes') \cup Range(uploads') = Meant
      BY <2>4, <3>2, <3>5
    <3>12. Progress'
      BY <2>1, <3>1, <3>2, <3>8, <3>11 DEF Progress
    <3> QED BY <3>9, <3>10, <3>12 DEF UploadProgress
  <2> QED BY <2>2, <2>3, <2>4
<1>3. CASE CheckedAll
  <2>1. /\ upc = "check" /\ uploads = <<>> /\ Still /\ sent = Nothing /\ uret = "none"
        /\ DOMAIN pushes = Meant /\ (uflags.multipart \/ uflags.at # "root")
    BY <1>3, <1>a, <1>d DEF CheckedAll, Progress, UploadInv, UploadStage
  <2>2. upc' \in {"rebase", "push"} /\ uret' = "none" /\ Range(uploads') = DOMAIN pushes /\ uflags' = uflags
    BY <1>3, <1>b, <2>1 DEF CheckedAll, UploadGoto, uploadGiven
  <2>3. Meant' = Meant /\ Delivered' /\ Matches'
    BY <2>1, ProgressStays
  <2>4. DOMAIN sent' = {} /\ pushes' = pushes
    BY <2>1 DEF Nothing
  <2>5. Progress'
    BY <2>1, <2>2, <2>3, <2>4 DEF Progress
  <2> QED BY <2>3, <2>5 DEF UploadProgress
<1>4. CASE UploadRebase
  <2>1. /\ upc = "rebase" /\ uploads # <<>> /\ UNCHANGED uploadGiven /\ sent = Nothing /\ uret = "none"
        /\ DOMAIN pushes = Meant /\ (uflags.multipart \/ uflags.at # "root")
    BY <1>4, <1>a DEF UploadRebase, Progress, UploadInv, UploadStage
  <2>2. CASE UploadFault
    <3>1. Still /\ upc' = "done" /\ uret' = "error"
      BY <2>1, <2>2 DEF UploadFault, UploadReturn
    <3>2. Progress'
      BY <3>1 DEF Progress
    <3> QED BY <3>1, <3>2, ProgressStays DEF UploadProgress
  <2>3. CASE ~UploadFault
    <3> DEFINE p == UploadProj
               g == FetchAll(UploadHere, FALSE)
               ref == Remote(pushes[UploadProj])
    <3>1. PICK b \in RebaseOrAbort(g.repo, ref, TRUE) :
            /\ urepo' = [urepo EXCEPT ![p] = b.repo]
            /\ IF b.res # "ok" THEN UploadReturn("error") /\ UNCHANGED uploads
               ELSE UploadGoto("rebase") /\ uploads' = Tail(uploads)
            /\ UNCHANGED <<pushes, sent, ufaults>>
      BY <1>4, <2>3 DEF UploadRebase
    <3>2. p \in Projects /\ IsRepository(urepo[p]) /\ UploadHere = urepo[p] /\ urepo = [q \in Projects |-> urepo[q]]
      BY <1>c, <2>1 DEF UploadInv, UploadTypes, UploadHere
    <3>3. g = FetchAll(urepo[p], TRUE) \/ g = FetchAll(urepo[p], FALSE)
      BY <3>2
    <3> HIDE DEF p, g
    <3>4. IsRepository(g.repo) /\ g.repo.tip = urepo[p].tip /\ HeadOf(g.repo) = HeadOf(urepo[p])
      BY <3>2, <3>3, FetchAllIs
    <3>5. Exists(g.repo, ref) => RevisionOf(g.repo, ref) \in Revs
      BY <3>4, RevisionType
    <3> HIDE DEF ref
    <3>6. RebasedTo(g.repo, ref, b)
      BY <3>4, <3>5, RebaseIs
    <3>7. /\ DOMAIN b.repo.tip = DOMAIN urepo[p].tip
          /\ b.res = "ok" => Range(HeadOf(urepo[p]).own) \subseteq Range(HeadOf(b.repo).own)
      BY <3>4, <3>6 DEF RebasedTo
    <3>8. urepo'[p] = b.repo /\ \A q \in Projects \ {p} : urepo'[q] = urepo[q]
      BY <3>1, <3>2
    <3>9. ufirst' = ufirst /\ uflags' = uflags /\ pushes' = pushes /\ sent' = sent
      BY <2>1, <3>1 DEF uploadGiven
    <3>10. \/ upc' = "done" /\ uret' = "error"
           \/ upc' = "rebase" /\ uret' = "none" /\ b.res = "ok"
      BY <2>1, <3>1 DEF UploadReturn, UploadGoto
    <3>11. Meant' = Meant
      BY <3>9 DEF Meant, Current
    <3>12. Delivered'
      BY <1>a, <3>9 DEF Delivered, Right, Whole
    <3>13. Matches'
      <4>1. \A q \in Projects : DOMAIN urepo'[q].tip = DOMAIN urepo[q].tip
        BY <3>7, <3>8
      <4>2. ASSUME upc' # "done", NEW q \in Projects
            PROVE  Range(HeadOf(ufirst[q]).own) \subseteq Range(HeadOf(urepo'[q]).own)
        <5>1. Range(HeadOf(ufirst[q]).own) \subseteq Range(HeadOf(urepo[q]).own)
          BY <1>a, <2>1 DEF Matches
        <5>2. Range(HeadOf(urepo[q]).own) \subseteq Range(HeadOf(urepo'[q]).own)
          BY <3>7, <3>8, <3>10, <4>2
        <5> QED BY <5>1, <5>2
      <4>3. (upc # "done" => \A q \in Projects : Range(HeadOf(ufirst[q]).own) \subseteq Range(HeadOf(urepo[q]).own))'
        BY <3>9, <4>2 DEF HeadOf, RevisionOf
      <4> QED BY <1>a, <3>9, <4>1, <4>3 DEF Matches
    <3>14. Progress'
      BY <2>1, <3>9, <3>10, <3>11 DEF Progress
    <3> QED BY <3>12, <3>13, <3>14 DEF UploadProgress
  <2> QED BY <2>2, <2>3
<1>5. CASE RebasedAll
  <2>1. /\ upc = "rebase" /\ Still /\ sent = Nothing /\ uret = "none"
        /\ DOMAIN pushes = Meant /\ (uflags.multipart \/ uflags.at # "root")
    BY <1>5, <1>a DEF RebasedAll, Progress, UploadInv, UploadStage
  <2>2. upc' = "push" /\ uret' = "none" /\ Range(uploads') = DOMAIN pushes /\ uflags' = uflags
    BY <1>5, <1>b, <2>1 DEF RebasedAll, UploadGoto, uploadGiven
  <2>3. Meant' = Meant /\ Delivered' /\ Matches'
    BY <2>1, ProgressStays
  <2>4. DOMAIN sent' = {} /\ pushes' = pushes
    BY <2>1 DEF Nothing
  <2>5. Progress'
    BY <2>1, <2>2, <2>3, <2>4 DEF Progress
  <2> QED BY <2>3, <2>5 DEF UploadProgress
<1>6. CASE Push
  <2>1. /\ upc = "push" /\ uploads # <<>> /\ UNCHANGED <<urepo, uploadGiven, pushes>> /\ uret = "none"
        /\ DOMAIN pushes = Meant /\ (uflags.multipart \/ uflags.at # "root")
        /\ (DOMAIN sent) \cup Range(uploads) = Meant
    BY <1>6, <1>a DEF Push, UploadFault, Progress
  <2>2. CASE UploadReturn("error") /\ UNCHANGED sent
    <3>1. Progress'
      BY <2>2 DEF Progress, UploadReturn
    <3>2. upc' = "done"
      BY <2>2 DEF UploadReturn
    <3> QED BY <2>1, <2>2, <3>1, <3>2, ProgressStays DEF UploadProgress
  <2>3. CASE ~(UploadReturn("error") /\ UNCHANGED sent)
    <3> DEFINE p == UploadProj
               x == [what |-> RevisionOf(UploadHere, uflags.ref), branch |-> pushes[UploadProj]]
    <3>1. /\ Exists(UploadHere, uflags.ref) /\ UploadGoto("push") /\ uploads' = Tail(uploads)
          /\ sent' = Put(sent, p, x)
      BY <1>6, <2>3 DEF Push, UploadFault, Deliver
    <3>2. p \in Projects /\ p \in DOMAIN pushes /\ Range(uploads) = {p} \cup Range(Tail(uploads)) /\ UploadHere = urepo[p]
      BY <1>c, <2>1 DEF UploadHere
    <3>3. Right(p, x.branch)
      BY <1>a, <3>2 DEF Delivered
    <3>4. Whole(p, x.what)
      <4>1. IsRepository(ufirst[p]) /\ IsRepository(urepo[p]) /\ DOMAIN urepo[p].tip = DOMAIN ufirst[p].tip
            /\ Range(HeadOf(ufirst[p]).own) \subseteq Range(HeadOf(urepo[p]).own) /\ uflags \in UploadCommands
        BY <1>a, <2>1, <3>2 DEF Matches, UploadInv, UploadTypes
      <4>2. \A b \in DOMAIN ufirst[p].tip : Range(ufirst[p].tip[b].own) \subseteq Range(urepo[p].tip[b].own)
        BY <3>2 DEF UploadInv, UploadKeeps
      <4>3. Range(RevisionOf(ufirst[p], uflags.ref).own) \subseteq Range(RevisionOf(urepo[p], uflags.ref).own)
        BY <3>1, <3>2, <4>1, <4>2, RefKept
      <4> QED BY <3>2, <4>3 DEF Whole
    <3> HIDE DEF p, x
    <3>5. DOMAIN sent' = (DOMAIN sent) \cup {p} /\ sent'[p] = x /\ \A q \in (DOMAIN sent) \ {p} : sent'[q] = sent[q]
      BY <3>1 DEF Put
    <3>6. ufirst' = ufirst /\ uflags' = uflags /\ urepo' = urepo /\ pushes' = pushes /\ upc' = "push" /\ uret' = "none"
      BY <2>1, <3>1 DEF uploadGiven, UploadGoto
    <3>7. Meant' = Meant
      BY <3>6 DEF Meant, Current
    <3>8. \A q \in DOMAIN sent' : Right(q, sent'[q].branch) /\ Whole(q, sent'[q].what)
      BY <1>a, <3>3, <3>4, <3>5 DEF Delivered
    <3>9. Delivered'
      BY <1>a, <3>6, <3>8 DEF Delivered, Right, Whole
    <3>10. Matches'
      BY <1>a, <2>1, <3>6 DEF Matches
    <3>11. (DOMAIN sent') \cup Range(uploads') = Meant
      BY <2>1, <3>1, <3>2, <3>5
    <3>12. Progress'
      BY <2>1, <3>6, <3>7, <3>11 DEF Progress
    <3> QED BY <3>9, <3>10, <3>12 DEF UploadProgress
  <2> QED BY <2>2, <2>3
<1>7. CASE PushedAll
  <2>1. upc = "push" /\ Still /\ upc' = "done" /\ DOMAIN sent = Meant
    BY <1>7, <1>a, <1>d DEF PushedAll, UploadReturn, Progress
  <2>2. Meant' = Meant /\ Delivered' /\ Matches' /\ sent' = sent
    BY <2>1, ProgressStays
  <2>3. Progress'
    BY <2>1, <2>2 DEF Progress
  <2> QED BY <2>2, <2>3 DEF UploadProgress
<1>8. CASE UploadFinished
  BY <1>0, <1>8 DEF UploadFinished
<1> QED
  BY <1>0, <1>1, <1>2, <1>3, <1>4, <1>5, <1>6, <1>7, <1>8 DEF UploadNext, UploadStep

LEMMA UploadCompletes == UploadProgress => UploadComplete
  BY DEF UploadProgress, UploadComplete, Progress, Delivered, Meant, Right, Whole
-----------------------------------------------------------------------------
(* "jiri patch". *)

\* Without -force no change may be lost, and without -delete no branch.
Careful == ~pflags.force /\ ~(pflags.noBranch /\ pflags.cherryPick)
Keeping == ~pflags.delete /\ ~(pflags.noBranch /\ pflags.cherryPick)

\* Where the changes of the repository f that there was are looked for in r, but for branch b.
Elsewhere(f, r, b) ==
  Range(HeadOf(f).own) \cup (UNION {Range(f.origin[c].own) : c \in DOMAIN f.origin})
    \cup (UNION {Range(r.tip[c].own) : c \in DOMAIN r.tip \ {b}})
SafeBut(f, r, b) == \A c \in DOMAIN f.tip : Range(f.tip[c].own) \subseteq Elsewhere(f, r, b)
Safe(f, r) == (Careful => SafeBut(f, r, "none")) /\ (Keeping => DOMAIN f.tip \subseteq DOMAIN r.tip)

SameHead(f, r) == r.on = f.on /\ HeadOf(r) = HeadOf(f)
Home(f) == IF f.on = "none" THEN Commit(HeadOf(f)) ELSE Local(f.on)

Named == {x \in Revs : x.own # <<>> /\ Last(x.own) \in Names}
Distinct(s) == \A i, j \in DOMAIN s : s[i][1] = s[j][1] => i = j
ToDo(s) == {s[i][1] : i \in DOMAIN s}
Busy == {"branch", "fetch", "create", "pick", "patched", "rebase"}

PatchTypes ==
  /\ prepo = [p \in Checkouts |-> prepo[p]] /\ pfirst = [p \in Checkouts |-> pfirst[p]]
  /\ \A p \in Checkouts : IsRepository(prepo[p]) /\ IsRepository(pfirst[p])
  /\ pflags \in PatchCommands /\ topic \in Topics
  /\ changes \in Seq((DOMAIN topic) \X Named) /\ Distinct(changes)
  /\ failures \in Nat /\ rebaseFailures \in Nat /\ rebaseFailures <= failures
  /\ ppc # "done" => pret = "none"
  /\ ppc \in Busy => changes # <<>> /\ PatchProj \in Checkouts
  /\ ppc = "choose" => changes = <<>> /\ prepo = pfirst

\* Nothing is lost, at any time; what is still to be patched is as it was; what was left
\* unpatched is as it was, or in the middle of a cherry-pick.
AllSafe == \A p \in Checkouts : Safe(pfirst[p], prepo[p])
Untouched ==
  ppc # "done" => \A p \in ToDo(changes) \cap Checkouts :
    prepo[p] = pfirst[p] \/ (ppc \in Busy \ {"branch"} /\ p = PatchProj)
LeftBack ==
  ~pflags.delete /\ pret # "error" =>
    \A p \in Checkouts \ applied :
      (ppc \in Busy /\ p = PatchProj) \/ prepo[p].midway \/ SameHead(pfirst[p], prepo[p])

\* As long as only rebases have failed, all is patched that is not still to be patched.
AllPatched ==
  /\ failures = rebaseFailures /\ ppc # "choose" /\ pret # "error" => DOMAIN topic \subseteq applied \cup ToDo(changes)
  /\ pret = "rebaseFailed" => DOMAIN topic \subseteq applied
  /\ ppc = "rebase" => PatchProj \in applied

\* A success so far means that all that is not still to be patched is as it should be.
Got(r, all) == Chain(all) => \A y \in all : Last(y.own) \in Range(HeadOf(r).own)
Finished(p) ==
  /\ p \in Checkouts /\ Got(prepo[p], topic[p])
  /\ pflags.rebase = "branch" => HeadOf(prepo[p]).base = prepo[p].theirs[BranchOf[p]].base
Covers(p, x) == x \in topic[p] /\ (Chain(topic[p]) => \A y \in topic[p] : Last(y.own) \in Range(x.own))
AllFinished ==
  /\ failures = 0 /\ ppc # "choose" /\ pret # "error" => \A p \in (DOMAIN topic) \ ToDo(changes) : Finished(p)
  /\ pret = "nil" => failures = 0 /\ changes = <<>>
  /\ \A i \in DOMAIN changes : Covers(changes[i][1], changes[i][2])
  /\ pflags.cherryPick /\ ppc \notin {"choose", "done"} => ~Stacked

\* The project f that is being patched: r, the name b of its branch and the change x.
BeforeBranch(f, r, b) ==
  /\ ~pflags.noBranch => b \notin DOMAIN r.tip
  /\ ~pflags.delete => r.tip = f.tip /\ SameHead(f, r)
BeforePick(f, r, b, x) ==
  /\ pflags.cherryPick /\ r.fetched = x
  /\ (\E c \in Names : lastRef = Local(c)) \/ (lastRef = Commit(lastRef[2]) /\ lastRef[2] \in Revs)
  /\ ~pflags.noBranch => r.on = b /\ (Careful => SafeBut(f, r, b))
  /\ ~pflags.delete => /\ HeadOf(r) = HeadOf(f) /\ lastRef = Home(f)
                       /\ f.on # "none" => f.on \in DOMAIN r.tip /\ r.tip[f.on] = HeadOf(f)
                       /\ ~pflags.noBranch => b \notin DOMAIN f.tip
Stage(f, r, b, x) ==
  /\ ppc \in {"fetch", "create"} => BeforeBranch(f, r, b)
  /\ ppc = "create" => r.fetched = x /\ (pflags.cherryPick => lastRef = Home(r))
  /\ ppc = "pick" => BeforePick(f, r, b, x)
  /\ ppc \in {"patched", "rebase"} => Got(r, topic[PatchProj])

PatchInv ==
  /\ PatchTypes /\ AllSafe /\ Untouched /\ LeftBack /\ AllPatched /\ AllFinished
  /\ ppc \in Busy => Stage(pfirst[PatchProj], PatchHere, BranchName, Change)

LEMMA PatchStarts == PatchInit => PatchInv
<1> SUFFICES ASSUME PatchInit PROVE PatchInv
  OBVIOUS
<1>1. \A p \in Checkouts : prepo[p] \in PatchRepos[p]
  BY DEF PatchInit
<1>2. \A p \in Checkouts : IsRepository(prepo[p])
  BY <1>1, PatchAssumption
<1>3. prepo = [p \in Checkouts |-> prepo[p]] /\ pfirst = prepo /\ changes = <<>> /\ ppc = "choose"
  BY DEF PatchInit
<1>4. PatchTypes
  <2>1. changes \in Seq((DOMAIN topic) \X Named) /\ Distinct(changes)
    BY <1>3 DEF Distinct
  <2> QED BY <1>2, <1>3, <2>1 DEF PatchInit, PatchTypes, Busy
<1>5. AllSafe
  <2> SUFFICES ASSUME NEW p \in Checkouts PROVE Safe(prepo[p], prepo[p])
    BY <1>3 DEF AllSafe
  <2>1. "none" \notin DOMAIN prepo[p].tip
    BY <1>2, NamesAssumption DEF IsRepository, PartOf
  <2>2. SafeBut(prepo[p], prepo[p], "none")
    BY <2>1 DEF SafeBut, Elsewhere
  <2> QED BY <2>2 DEF Safe
<1>6. Untouched
  BY <1>3 DEF Untouched
<1>7. LeftBack
  BY <1>3 DEF LeftBack, SameHead
<1>8. AllPatched
  BY <1>3 DEF AllPatched, PatchInit
<1>9. AllFinished
  BY <1>3 DEF AllFinished, PatchInit
<1> QED BY <1>3, <1>4, <1>5, <1>6, <1>7, <1>8, <1>9 DEF PatchInv, Busy

LEMMA PatchStays == PatchInv /\ UNCHANGED patchVars => PatchInv'
  BY DEF patchVars, PatchInv, PatchTypes, AllSafe, Safe, Careful, Keeping, Untouched, LeftBack, AllPatched, AllFinished,
         Finished, Got, Covers, Stacked, Stage, BeforeBranch, BeforePick, PatchProj, PatchHere, BranchName, Change

\* The changes of f that are safe in r are safe in s, where all branches are again with what
\* they had.
LEMMA SafeGrows ==
  ASSUME NEW f, NEW r, NEW s, NEW b, NEW c, SafeBut(f, r, b),
         \A d \in DOMAIN r.tip \ {b} : d \in DOMAIN s.tip \ {c} /\ Range(r.tip[d].own) \subseteq Range(s.tip[d].own)
  PROVE  SafeBut(f, s, c)
<1>1. Elsewhere(f, r, b) \subseteq Elsewhere(f, s, c)
  BY DEF Elsewhere
<1> QED BY <1>1 DEF SafeBut

LEMMA SafeStays ==
  ASSUME NEW f, NEW r, NEW s, Safe(f, r), IsRepository(s), DOMAIN r.tip \subseteq DOMAIN s.tip,
         \A d \in DOMAIN r.tip : Range(r.tip[d].own) \subseteq Range(s.tip[d].own)
  PROVE  Safe(f, s)
<1>1. "none" \notin DOMAIN s.tip
  BY NamesAssumption DEF IsRepository, PartOf
<1>2. SafeBut(f, r, "none") => SafeBut(f, s, "none")
  BY <1>1, SafeGrows
<1> QED BY <1>2 DEF Safe

\* What is there of the changes of a topic is there in what has grown, and what is finished
\* stays so if nothing is done to it.
LEMMA GotGrows ==
  ASSUME NEW r, NEW s, NEW all, Got(r, all), Range(HeadOf(r).own) \subseteq Range(HeadOf(s).own)
  PROVE  Got(s, all)
  BY DEF Got

LEMMA FinishedStays ==
  ASSUME NEW p, Finished(p), UNCHANGED patchGiven, prepo'[p] = prepo[p]
  PROVE  Finished(p)'
  BY DEF Finished, Got, patchGiven

LEMMA OneElement ==
  ASSUME NEW S, IsFiniteSet(S), ~(Cardinality(S) > 1), NEW x \in S, NEW y \in S
  PROVE  x = y
<1> SUFFICES ASSUME x # y PROVE FALSE
  OBVIOUS
<1>1. IsFiniteSet({x}) /\ Cardinality({x}) = 1
  BY FS_Singleton
<1>2. Cardinality({x} \cup {y}) = 2
  BY <1>1, FS_AddElement
<1>3. {x} \cup {y} \in SUBSET S
  OBVIOUS
<1>4. Cardinality({x} \cup {y}) <= Cardinality(S) /\ Cardinality(S) \in Nat
  BY <1>3, FS_Subset, FS_CardinalityType
<1> QED BY <1>2, <1>4

\* The newest of changes that are all related has them all below it.
LEMMA TopCovers ==
  ASSUME NEW all \in SUBSET Named, NEW S \in TopOf(all), NEW x \in S
  PROVE  x \in all /\ (Chain(all) => \A y \in all : Last(y.own) \in Range(x.own))
<1>1. x \in all /\ \A w \in all : Len(w.own) <= Len(x.own)
  BY DEF TopOf, Newest, Related
<1>2. ASSUME Chain(all), NEW y \in all PROVE Last(y.own) \in Range(x.own)
  <2>1. x \in Revs /\ y \in Revs /\ x.own # <<>> /\ y.own # <<>> /\ x.own \in Seq(Changes) /\ y.own \in Seq(Changes)
    BY <1>1 DEF Named, Revs
  <2>2. Len(y.own) \in DOMAIN y.own /\ Last(y.own) = y.own[Len(y.own)] /\ Len(x.own) \in DOMAIN x.own
    BY <2>1 DEF Last
  <2>3. CASE IsAncestor(y, x)
    <3>1. Range(y.own) \subseteq Range(x.own)
      BY <2>1, <2>3, AncestorHas
    <3> QED BY <2>2, <3>1 DEF Range
  <2>4. CASE IsAncestor(x, y)
    <3>1. IsPrefix(x.own, y.own)
      BY <2>1, <2>4 DEF IsAncestor
    <3>2. Len(x.own) <= Len(y.own) /\ \A i \in DOMAIN x.own : x.own[i] = y.own[i]
      BY <2>1, <3>1 DEF IsPrefix
    <3>3. Len(x.own) = Len(y.own)
      BY <1>1, <2>1, <3>2
    <3> QED BY <2>2, <3>2, <3>3 DEF Range
  <2> QED BY <1>1, <1>2, <2>3, <2>4 DEF Chain
<1> QED BY <1>1, <1>2

\* What is to be done after the change at hand.
LEMMA ToDoNext ==
  ASSUME PatchInv, changes # <<>>
  PROVE  /\ PatchProj \in DOMAIN topic /\ Change \in Named /\ PatchProj \in ToDo(changes)
         /\ Tail(changes) \in Seq((DOMAIN topic) \X Named) /\ Distinct(Tail(changes))
         /\ ToDo(changes) = {PatchProj} \cup ToDo(Tail(changes)) /\ PatchProj \notin ToDo(Tail(changes))
         /\ Covers(PatchProj, Change) /\ \A i \in DOMAIN Tail(changes) : Covers(Tail(changes)[i][1], Tail(changes)[i][2])
<1> DEFINE T == (DOMAIN topic) \X Named
           t == Tail(changes)
<1>1. changes \in Seq(T) /\ Distinct(changes)
  BY DEF PatchInv, PatchTypes
<1>2. Head(changes) \in T /\ t \in Seq(T) /\ Head(changes) = changes[1] /\ 1 \in DOMAIN changes
  BY <1>1
<1>3. \A i \in DOMAIN t : i + 1 \in DOMAIN changes /\ t[i] = changes[i + 1] /\ i + 1 # 1 /\ i \in Nat
  BY <1>1
<1>4. \A i \in DOMAIN changes : i = 1 \/ (i - 1 \in DOMAIN t /\ changes[i] = t[i - 1])
  BY <1>1
<1> HIDE DEF t
<1>5. PatchProj = changes[1][1]
  BY <1>2 DEF PatchProj
<1>6. PatchProj \in DOMAIN topic /\ Change \in Named
  BY <1>2 DEF PatchProj, Change
<1>7. Distinct(t)
  <2> SUFFICES ASSUME NEW i \in DOMAIN t, NEW j \in DOMAIN t, t[i][1] = t[j][1] PROVE i = j
    BY DEF Distinct
  <2>1. i + 1 = j + 1
    BY <1>1, <1>3 DEF Distinct
  <2> QED BY <2>1, <1>3
<1>8. PatchProj \notin ToDo(t)
  BY <1>1, <1>2, <1>3, <1>5 DEF ToDo, Distinct
<1>9. ToDo(changes) = {PatchProj} \cup ToDo(t)
  <2>1. \A i \in DOMAIN changes : changes[i][1] = PatchProj \/ changes[i][1] \in ToDo(t)
    BY <1>4, <1>5 DEF ToDo
  <2>2. \A i \in DOMAIN t : t[i][1] \in ToDo(changes)
    BY <1>3 DEF ToDo
  <2>3. PatchProj \in ToDo(changes)
    BY <1>2, <1>5 DEF ToDo
  <2> QED BY <2>1, <2>2, <2>3 DEF ToDo
<1>10. Covers(PatchProj, Change) /\ \A i \in DOMAIN t : Covers(t[i][1], t[i][2])
  <2>1. \A i \in DOMAIN changes : Covers(changes[i][1], changes[i][2])
    BY DEF PatchInv, AllFinished
  <2>2. Covers(changes[1][1], changes[1][2]) /\ Change = changes[1][2]
    BY <1>2, <2>1 DEF Change
  <2> QED BY <1>3, <1>5, <2>1, <2>2
<1> QED BY <1>2, <1>6, <1>7, <1>8, <1>9, <1>10 DEF t

\* The name of the branch of a change, and the project it is for.
LEMMA HereIs ==
  ASSUME PatchInv, changes # <<>>, PatchProj \in Checkouts
  PROVE  /\ IsRepository(PatchHere) /\ IsRepository(pfirst[PatchProj]) /\ Safe(pfirst[PatchProj], PatchHere)
         /\ BranchName \in Names /\ BranchName # "none" /\ BranchOf[PatchProj] \in Branches
         /\ Change \in Revs /\ Change.own # <<>>
         /\ ppc \in {"next", "branch"} => PatchHere = pfirst[PatchProj]
<1>1. Change \in Named /\ PatchProj \in ToDo(changes)
  BY ToDoNext
<1>2. BranchName \in Names
  BY <1>1, PatchAssumption DEF BranchName, Named, PatchInv, PatchTypes
<1>3. ppc \in {"next", "branch"} => PatchHere = pfirst[PatchProj]
  BY <1>1 DEF PatchInv, Untouched, PatchHere, Busy
<1> QED BY <1>1, <1>2, <1>3, NamesAssumption, PatchAssumption DEF Named, PatchHere, PatchInv, PatchTypes, AllSafe

\* What the step did is that the project at hand has another repository.
Changed ==
  /\ prepo' = [p \in Checkouts |-> prepo'[p]] /\ \A p \in Checkouts \ {PatchProj} : prepo'[p] = prepo[p]
  /\ PatchProj \in Checkouts => IsRepository(prepo'[PatchProj]) /\ Safe(pfirst[PatchProj], prepo'[PatchProj])

LEMMA ChangedTo ==
  ASSUME PatchInv, PatchProj \in Checkouts, NEW s, IsRepository(s), Safe(pfirst[PatchProj], s),
         prepo' = [prepo EXCEPT ![PatchProj] = s]
  PROVE  Changed /\ prepo'[PatchProj] = s
<1>1. prepo = [p \in Checkouts |-> prepo[p]]
  BY DEF PatchInv, PatchTypes
<1>2. prepo'[PatchProj] = s /\ prepo' = [p \in Checkouts |-> prepo'[p]] /\ \A p \in Checkouts \ {PatchProj} : prepo'[p] = prepo[p]
  BY <1>1
<1> QED BY <1>2 DEF Changed

LEMMA NotChanged ==
  ASSUME PatchInv, UNCHANGED prepo
  PROVE  Changed
  BY DEF Changed, PatchInv, PatchTypes, AllSafe

LEMMA SafeAgain ==
  ASSUME PatchInv, Changed, UNCHANGED patchGiven
  PROVE  /\ prepo' = [p \in Checkouts |-> prepo'[p]] /\ pfirst' = [p \in Checkouts |-> pfirst'[p]]
         /\ \A p \in Checkouts : IsRepository(prepo'[p]) /\ IsRepository(pfirst'[p])
         /\ AllSafe'
<1>1. \A p \in Checkouts : IsRepository(prepo'[p]) /\ Safe(pfirst[p], prepo'[p])
  BY DEF Changed, PatchInv, PatchTypes, AllSafe
<1>2. (Careful' <=> Careful) /\ (Keeping' <=> Keeping)
  BY DEF Careful, Keeping, patchGiven
<1>3. \A p \in Checkouts : (Safe(pfirst[p], prepo[p]))' <=> Safe(pfirst[p], prepo'[p])
  BY <1>2 DEF Safe, patchGiven
<1> QED BY <1>1, <1>3 DEF Changed, PatchInv, PatchTypes, AllSafe, patchGiven

\* An error returned: whatever was changed is safe.
LEMMA PatchFails ==
  ASSUME PatchInv, Changed, UNCHANGED <<patchGiven, changes, counters, applied>>, ppc' = "done", pret' = "error"
  PROVE  PatchInv'
<1>1. PatchTypes'
  BY SafeAgain DEF PatchInv, PatchTypes, patchGiven, counters, Busy
<1>2. AllFinished'
  BY DEF PatchInv, AllFinished, Covers, patchGiven
<1> QED BY <1>1, <1>2, SafeAgain DEF PatchInv, Untouched, LeftBack, AllPatched, Busy

\* On to the next step of the change at hand.
LEMMA PatchProceeds ==
  ASSUME PatchInv, changes # <<>>, PatchProj \in Checkouts, ppc \in Busy \cup {"next"}, ppc' \in Busy, Changed,
         UNCHANGED <<patchGiven, changes, counters, pret>>, applied \subseteq applied',
         ppc' = "branch" => prepo'[PatchProj] = pfirst[PatchProj],
         ppc' = "rebase" => PatchProj \in applied',
         Stage(pfirst[PatchProj], PatchHere, BranchName, Change)'
  PROVE  PatchInv'
<1>0. PatchProj' = PatchProj /\ ToDo(changes)' = ToDo(changes)
  BY DEF PatchProj
<1>1. ppc # "done" /\ ppc # "choose" /\ ppc' # "done" /\ ppc' # "choose"
  BY DEF Busy
<1>2. PatchTypes'
  BY <1>0, <1>1, SafeAgain DEF PatchInv, PatchTypes, patchGiven, counters
<1>3. Untouched'
  BY <1>0, <1>1 DEF PatchInv, Untouched, Changed, patchGiven
<1>4. LeftBack'
  <2> SUFFICES ASSUME ~pflags.delete, pret # "error", NEW p \in Checkouts \ applied', p # PatchProj
               PROVE  prepo'[p].midway \/ SameHead(pfirst[p], prepo'[p])
    BY <1>0 DEF LeftBack, patchGiven
  <2> QED BY DEF PatchInv, LeftBack, Changed
<1>5. AllPatched'
  BY <1>0, <1>1 DEF PatchInv, AllPatched, patchGiven, counters
<1>6. AllFinished'
  <2>1. ASSUME failures = 0, NEW p \in (DOMAIN topic) \ ToDo(changes) PROVE Finished(p)'
    <3>1. pret # "error" /\ Finished(p) /\ p # PatchProj
      BY <1>1, <2>1, ToDoNext DEF PatchInv, PatchTypes, AllFinished
    <3>2. prepo'[p] = prepo[p]
      BY <3>1 DEF Finished, Changed
    <3> QED BY <3>1, <3>2, FinishedStays
  <2>2. (pret = "nil" => failures = 0 /\ changes = <<>>)' /\ (pflags.cherryPick /\ ppc \notin {"choose", "done"} => ~Stacked)'
    BY <1>1 DEF PatchInv, PatchTypes, AllFinished, Stacked, patchGiven
  <2>3. (\A i \in DOMAIN changes : Covers(changes[i][1], changes[i][2]))'
    BY DEF PatchInv, AllFinished, Covers, patchGiven
  <2>4. failures' = failures /\ topic' = topic
    BY DEF counters, patchGiven
  <2>5. (failures = 0 /\ ppc # "choose" /\ pret # "error" => \A p \in (DOMAIN topic) \ ToDo(changes) : Finished(p))'
    BY <1>0, <2>1, <2>4
  <2> QED BY <2>2, <2>3, <2>5 DEF AllFinished
<1> QED BY <1>1, <1>2, <1>3, <1>4, <1>5, <1>6, SafeAgain DEF PatchInv

\* On to the next change.
LEMMA PatchMovesOn ==
  ASSUME PatchInv, changes # <<>>, ppc \in Busy \cup {"next"}, Changed,
         changes' = Tail(changes), ppc' = "next", UNCHANGED <<patchGiven, pret>>, applied \subseteq applied',
         failures' \in Nat, rebaseFailures' \in Nat, rebaseFailures' <= failures',
         failures' = rebaseFailures' => failures = rebaseFailures /\ PatchProj \in applied',
         failures' = 0 => failures = 0 /\ \A p : p = PatchProj => Finished(p)',
         ~pflags.delete /\ PatchProj \in Checkouts =>
           \/ PatchProj \in applied'
           \/ prepo'[PatchProj].midway \/ SameHead(pfirst[PatchProj], prepo'[PatchProj])
  PROVE  PatchInv'
<1>0. /\ ToDo(changes) = {PatchProj} \cup ToDo(changes') /\ PatchProj \notin ToDo(changes')
      /\ changes' \in Seq((DOMAIN topic) \X Named) /\ Distinct(changes')
      /\ \A i \in DOMAIN changes' : Covers(changes'[i][1], changes'[i][2])
  BY ToDoNext
<1>1. ppc # "done" /\ ppc # "choose" /\ ppc' \notin Busy
  BY DEF Busy
<1>2. PatchTypes'
  BY <1>0, <1>1, SafeAgain DEF PatchInv, PatchTypes, patchGiven
<1>3. Untouched'
  BY <1>0, <1>1 DEF PatchInv, Untouched, Changed, patchGiven
<1>4. LeftBack'
  <2> SUFFICES ASSUME ~pflags.delete, pret # "error", NEW p \in Checkouts \ applied'
               PROVE  prepo'[p].midway \/ SameHead(pfirst[p], prepo'[p])
    BY DEF LeftBack, patchGiven
  <2>1. CASE p = PatchProj
    BY <2>1
  <2>2. CASE p # PatchProj
    BY <2>2 DEF PatchInv, LeftBack, Changed
  <2> QED BY <2>1, <2>2
<1>5. AllPatched'
  <2>1. pret = "none"
    BY <1>1 DEF PatchInv, PatchTypes
  <2>2. failures' = rebaseFailures' => DOMAIN topic \subseteq applied' \cup ToDo(changes')
    BY <1>0, <1>1, <2>1 DEF PatchInv, AllPatched
  <2> QED BY <2>1, <2>2 DEF AllPatched, patchGiven
<1>6. AllFinished'
  <2>1. ASSUME failures' = 0, NEW p \in (DOMAIN topic) \ ToDo(changes') PROVE Finished(p)'
    <3>1. CASE p = PatchProj
      BY <2>1, <3>1
    <3>2. CASE p # PatchProj
      <4>1. Finished(p)
        BY <1>0, <1>1, <2>1, <3>2 DEF PatchInv, PatchTypes, AllFinished
      <4>2. prepo'[p] = prepo[p]
        BY <3>2, <4>1 DEF Finished, Changed
      <4> QED BY <4>1, <4>2, FinishedStays
    <3> QED BY <3>1, <3>2
  <2>2. (pret = "nil" => failures = 0 /\ changes = <<>>)' /\ (pflags.cherryPick /\ ppc \notin {"choose", "done"} => ~Stacked)'
    BY <1>1 DEF PatchInv, PatchTypes, AllFinished, Stacked, patchGiven
  <2>3. (\A i \in DOMAIN changes : Covers(changes[i][1], changes[i][2]))'
    BY <1>0 DEF Covers, patchGiven
  <2>4. topic' = topic
    BY DEF patchGiven
  <2>5. (failures = 0 /\ ppc # "choose" /\ pret # "error" => \A p \in (DOMAIN topic) \ ToDo(changes) : Finished(p))'
    BY <2>1, <2>4
  <2> QED BY <2>2, <2>3, <2>5 DEF AllFinished
<1> QED BY <1>1, <1>2, <1>3, <1>4, <1>5, <1>6, SafeAgain DEF PatchInv

\* A failure counted.
LEMMA PatchCounts ==
  ASSUME PatchInv, ppc \in Busy, NEW s, IsRepository(s), Safe(pfirst[PatchProj], s),
         UNCHANGED patchGiven, Count(s, FALSE) \/ (Count(s, TRUE) /\ PatchProj \in applied),
         ~pflags.delete => PatchProj \in applied \/ s.midway \/ SameHead(pfirst[PatchProj], s)
  PROVE  PatchInv'
<1>1. changes # <<>> /\ PatchProj \in Checkouts /\ failures \in Nat /\ rebaseFailures \in Nat /\ rebaseFailures <= failures
  BY DEF PatchInv, PatchTypes
<1>2. /\ prepo' = [prepo EXCEPT ![PatchProj] = s] /\ changes' = Tail(changes) /\ ppc' = "next"
      /\ UNCHANGED <<pret, applied>> /\ failures' = failures + 1
      /\ rebaseFailures' = rebaseFailures \/ (rebaseFailures' = rebaseFailures + 1 /\ PatchProj \in applied)
  BY <1>1 DEF Count, PatchGoto
<1>3. Changed /\ prepo'[PatchProj] = s
  BY <1>1, <1>2, ChangedTo
<1>4. failures' \in Nat /\ rebaseFailures' \in Nat /\ rebaseFailures' <= failures'
  BY <1>1, <1>2
<1>5. (failures' = rebaseFailures' => failures = rebaseFailures /\ PatchProj \in applied') /\ failures' # 0
  BY <1>1, <1>2
<1> QED BY <1>1, <1>2, <1>3, <1>4, <1>5, PatchMovesOn

LEMMA PatchErrs ==
  ASSUME PatchInv, ppc \in Busy, NEW s, IsRepository(s), Safe(pfirst[PatchProj], s), UNCHANGED patchGiven, Fail(s)
  PROVE  PatchInv'
<1>1. PatchProj \in Checkouts /\ prepo' = [prepo EXCEPT ![PatchProj] = s]
  BY DEF PatchInv, PatchTypes, Fail
<1>2. Changed
  BY <1>1, ChangedTo
<1> QED BY <1>2, PatchFails DEF Fail, PatchReturn, counters

LEMMA PatchFaults ==
  ASSUME PatchInv, UNCHANGED patchGiven, PatchFault
  PROVE  PatchInv'
<1>1. Changed
  BY NotChanged DEF PatchFault
<1> QED BY <1>1, PatchFails DEF PatchFault, PatchReturn, counters

LEMMA PatchSteps ==
  ASSUME PatchInv, ppc \in Busy, NEW s, IsRepository(s), Safe(pfirst[PatchProj], s), UNCHANGED patchGiven,
         NEW l \in Busy \ {"branch", "rebase"}, Proceed(s, l)
  PROVE  /\ PatchHere' = s /\ BranchName' = BranchName /\ Change' = Change /\ PatchProj' = PatchProj
         /\ Stage(pfirst[PatchProj], PatchHere, BranchName, Change)' => PatchInv'
<1>1. PatchProj \in Checkouts /\ changes # <<>> /\ prepo' = [prepo EXCEPT ![PatchProj] = s] /\ ppc' = l
      /\ UNCHANGED <<changes, counters, applied, pret>>
  BY DEF PatchInv, PatchTypes, Proceed, PatchGoto
<1>2. Changed /\ prepo'[PatchProj] = s
  BY <1>1, ChangedTo
<1>3. PatchHere' = s /\ BranchName' = BranchName /\ Change' = Change /\ PatchProj' = PatchProj
  BY <1>1, <1>2 DEF PatchHere, BranchName, Change, PatchProj, patchGiven
<1> QED BY <1>1, <1>2, <1>3, PatchProceeds

\* The change of each project is one of its topic's, of a project once.
LEMMA ChooseGoesOn == PatchInv /\ Choose => PatchInv'
<1> SUFFICES ASSUME PatchInv, Choose PROVE PatchInv'
  OBVIOUS
<1>1. ppc = "choose" /\ UNCHANGED <<patchGiven, lastRef>>
  BY DEF Choose
<1>2. CASE PatchFault
  BY <1>1, <1>2, PatchFaults
<1>3. CASE PatchReturn("error") /\ UNCHANGED <<prepo, changes, counters, applied>>
  BY <1>1, <1>3, NotChanged, PatchFails DEF PatchReturn, counters
<1>4. CASE ~PatchFault /\ ~(PatchReturn("error") /\ UNCHANGED <<prepo, changes, counters, applied>>)
  <2>1. PICK c \in TopicChoices : /\ PatchGoto("next") /\ ~(pflags.cherryPick /\ Stacked)
               /\ \E s \in SetToSeqs(DOMAIN c) : changes' \in {f \in [DOMAIN s -> UNION {{p} \X c[p] : p \in DOMAIN c}] : \A i \in DOMAIN s : f[i][1] = s[i]}
               /\ UNCHANGED <<prepo, counters, applied, pfaults>>
    BY <1>4 DEF Choose
  <2>2. PICK s \in SetToSeqs(DOMAIN c) : changes' \in {f \in [DOMAIN s -> UNION {{p} \X c[p] : p \in DOMAIN c}] : \A i \in DOMAIN s : f[i][1] = s[i]}
    BY <2>1
  <2>3. topic \in Topics /\ prepo = pfirst
    BY <1>1 DEF PatchInv, PatchTypes
  <2>4. DOMAIN c = DOMAIN topic /\ \A p \in DOMAIN topic : c[p] \in TopOf(topic[p])
    BY DEF TopicChoices
  <2>5. \A p \in DOMAIN topic : c[p] \subseteq Named
    <3> SUFFICES ASSUME NEW p \in DOMAIN topic, NEW x \in c[p] PROVE x \in Named
      OBVIOUS
    <3>1. c[p] \subseteq topic[p]
      BY <2>4 DEF TopOf, Newest, Related
    <3> QED BY <2>3, <3>1, PatchAssumption DEF Named
  <2>6. s \in Seq(DOMAIN topic) /\ Range(s) = DOMAIN topic /\ IsInjective(s)
    <3>1. IsFiniteSet(DOMAIN topic)
      BY <2>3, PatchAssumption
    <3> QED BY <2>2, <2>4, <3>1, SeqOfSet
  <2>7. /\ DOMAIN changes' = DOMAIN s
        /\ \A i \in DOMAIN s : changes'[i] \in UNION {{p} \X c[p] : p \in DOMAIN c} /\ changes'[i][1] = s[i]
    BY <2>2
  <2>8. \A i \in DOMAIN s : changes'[i] \in (DOMAIN topic) \X Named
    BY <2>4, <2>5, <2>7
  <2>9. changes' \in Seq((DOMAIN topic) \X Named)
    <3>1. changes' = [i \in 1..Len(s) |-> changes'[i]] /\ Len(s) \in Nat /\ DOMAIN s = 1..Len(s)
      BY <2>2, <2>6
    <3> QED BY <3>1, <2>8
  <2>10. Distinct(changes')
    BY <2>6, <2>7 DEF Distinct, IsInjective
  <2>11. ToDo(changes') = DOMAIN topic
    BY <2>6, <2>7 DEF ToDo, Range
  <2>12. ppc' = "next" /\ UNCHANGED <<prepo, patchGiven, counters, applied, pret>>
    BY <1>1, <2>1 DEF PatchGoto
  <2>13. /\ prepo' = [p \in Checkouts |-> prepo'[p]] /\ pfirst' = [p \in Checkouts |-> pfirst'[p]]
         /\ \A p \in Checkouts : IsRepository(prepo'[p]) /\ IsRepository(pfirst'[p])
         /\ AllSafe'
    BY <2>12, NotChanged, SafeAgain
  <2>14. PatchTypes'
    <3>1. topic' = topic /\ pflags' = pflags /\ failures' = failures /\ rebaseFailures' = rebaseFailures
      BY <2>12 DEF patchGiven, counters
    <3>2. changes' \in Seq((DOMAIN topic') \X Named)
      BY <2>9, <3>1
    <3> QED BY <2>10, <2>12, <2>13, <3>1, <3>2, <1>1 DEF PatchInv, PatchTypes, Busy
  <2>15. Untouched'
    BY <2>3, <2>12 DEF Untouched, patchGiven
  <2>16. LeftBack'
    BY <2>3, <2>12 DEF LeftBack, patchGiven, SameHead
  <2>17. AllPatched'
    BY <1>1, <2>11, <2>12 DEF PatchInv, PatchTypes, AllPatched, patchGiven
  <2>18. AllFinished'
    <3>1. ASSUME NEW i \in DOMAIN changes' PROVE Covers(changes'[i][1], changes'[i][2])
      <4>1. PICK p \in DOMAIN topic : changes'[i] \in {p} \X c[p]
        BY <2>4, <2>7, <3>1
      <4>2. topic[p] \in SUBSET Named
        BY <2>3, PatchAssumption DEF Named
      <4>3. changes'[i][1] = p /\ changes'[i][2] \in c[p] /\ c[p] \in TopOf(topic[p])
        BY <2>4, <4>1
      <4>4. changes'[i][2] \in topic[p]
            /\ (Chain(topic[p]) => \A y \in topic[p] : Last(y.own) \in Range(changes'[i][2].own))
        BY <4>2, <4>3, TopCovers
      <4> QED BY <4>3, <4>4 DEF Covers
    <3>2. (\A i \in DOMAIN changes : Covers(changes[i][1], changes[i][2]))'
      BY <3>1, <2>12 DEF Covers, patchGiven
    <3>3. pret' = "none" /\ ToDo(changes)' = DOMAIN topic' /\ (pflags.cherryPick => ~Stacked)'
      BY <1>1, <2>1, <2>11, <2>12 DEF PatchInv, PatchTypes, Stacked, patchGiven
    <3> QED BY <3>2, <3>3 DEF AllFinished
  <2> QED BY <2>12, <2>13, <2>14, <2>15, <2>16, <2>17, <2>18 DEF PatchInv, Busy
<1> QED BY <1>2, <1>3, <1>4

LEMMA TakeGoesOn == PatchInv /\ Take => PatchInv'
<1> SUFFICES ASSUME PatchInv, Take PROVE PatchInv'
  OBVIOUS
<1>1. ppc = "next" /\ changes # <<>> /\ UNCHANGED <<patchGiven, lastRef, prepo, applied, pret>> /\ DOMAIN prepo = Checkouts
  BY DEF Take, PatchGoto, PatchInv, PatchTypes
<1>2. CASE PatchProj \in Checkouts
  <2>1. ppc' \in {"fetch", "branch"} /\ (ppc' = "fetch" => pflags.noBranch) /\ UNCHANGED <<changes, counters>>
    BY <1>1, <1>2 DEF Take, PatchGoto
  <2>2. PatchHere = pfirst[PatchProj]
    BY <1>1, <1>2, HereIs
  <2>3. Stage(pfirst[PatchProj], PatchHere, BranchName, Change)'
    BY <1>1, <2>1, <2>2 DEF Stage, BeforeBranch, SameHead, PatchHere, PatchProj, patchGiven
  <2> QED BY <1>1, <1>2, <2>1, <2>2, <2>3, NotChanged, PatchProceeds DEF Busy, PatchHere, counters
<1>3. CASE PatchProj \notin Checkouts
  <2>1. ppc' = "next" /\ changes' = Tail(changes) /\ failures' = failures + 1 /\ rebaseFailures' = rebaseFailures
    BY <1>1, <1>3 DEF Take, PatchGoto
  <2>2. failures \in Nat /\ rebaseFailures \in Nat /\ rebaseFailures <= failures
    BY DEF PatchInv, PatchTypes
  <2>3. failures' \in Nat /\ rebaseFailures' \in Nat /\ rebaseFailures' <= failures' /\ failures' # rebaseFailures' /\ failures' # 0
    BY <2>1, <2>2
  <2> QED BY <1>1, <1>3, <2>1, <2>3, NotChanged, PatchMovesOn
<1> QED BY <1>2, <1>3

\* A branch that git deletes without force takes no change with it.
LEMMA DiscardOldGoesOn == PatchInv /\ DiscardOld => PatchInv'
<1> SUFFICES ASSUME PatchInv, DiscardOld PROVE PatchInv'
  OBVIOUS
<1> DEFINE f == pfirst[PatchProj]
           b == BranchName
           to == Remote(BranchOf[PatchProj])
<1>1. ppc = "branch" /\ ppc \in Busy /\ pflags.delete /\ UNCHANGED patchGiven
  BY DEF DiscardOld, Busy
<1>2. changes # <<>> /\ PatchProj \in Checkouts
  BY <1>1 DEF PatchInv, PatchTypes
<1>3. /\ IsRepository(f) /\ Safe(f, f) /\ PatchHere = f /\ b \in Names /\ b # "none"
      /\ BranchOf[PatchProj] \in Branches
  BY <1>1, <1>2, HereIs
<1>4. PICK c \in IF f.on = b THEN CheckoutBranch(f, to, TRUE) ELSE {Done(f)} :
        LET d == DeleteBranch(c.repo, b, pflags.force) IN
        \/ c.res # "ok" /\ Fail(c.repo)
        \/ c.res = "ok" /\ d.res = "ok" /\ Proceed(d.repo, "fetch")
        \/ c.res = "ok" /\ d.res # "ok" /\ Count(d.repo, FALSE)
  BY <1>3 DEF DiscardOld
<1> DEFINE r == c.repo
           d == DeleteBranch(r, b, pflags.force)
           s == d.repo
<1>5. /\ IsRepository(r) /\ r.tip = f.tip /\ r.origin = f.origin
      /\ HeadOf(r) = HeadOf(f) \/ \E o \in DOMAIN f.origin : HeadOf(r) = f.origin[o]
  <2>1. CASE f.on = b
    <3>1. c \in CheckoutBranch(f, to, TRUE)
      BY <1>4, <2>1
    <3>2. to[1] # "local" /\ to # HeadRef
      BY DEF Remote, HeadRef
    <3>3. /\ Exists(f, to) <=> BranchOf[PatchProj] \in DOMAIN f.origin
          /\ RevisionOf(f, to) = f.origin[BranchOf[PatchProj]]
          /\ Exists(f, to) => RevisionOf(f, to) \in Revs
      BY <1>3, RevisionType
    <3> HIDE DEF f, to
    <3>4. /\ MovedTo(f, c)
          /\ c.res = "ok" => Exists(f, to) /\ c.repo.on = "none" /\ c.repo.at = RevisionOf(f, to)
      BY <1>3, <3>1, <3>2, <3>3, CheckoutRev
    <3>5. IsRepository(r) /\ r.tip = f.tip /\ r.origin = f.origin /\ (c.res # "ok" => r = f)
      BY <3>4 DEF MovedTo
    <3>6. c.res = "ok" => HeadOf(r) = f.origin[BranchOf[PatchProj]] /\ BranchOf[PatchProj] \in DOMAIN f.origin
      BY <3>3, <3>4, <3>5, RevisionType
    <3> QED BY <3>5, <3>6
  <2>2. CASE f.on # b
    BY <1>3, <1>4, <2>2 DEF Done
  <2> QED BY <2>1, <2>2
<1>6. d = Refused(r) \/ (d = Done(Deleted(r, b)) /\ b \in DOMAIN r.tip /\ r.on # b /\ (pflags.force \/ IsMerged(r, b)))
  BY DEF DeleteBranch
<1> HIDE DEF f, b, r, d
<1>7. DeletedTo(r, b, d)
  BY <1>3, <1>5, <1>6, DeletedIs
<1>8. Safe(f, r)
  BY <1>3, <1>5, SafeStays
<1>9. Safe(f, s)
  <2>1. ASSUME Careful PROVE SafeBut(f, s, "none")
    <3>1. Saved(r) \subseteq Saved(s) /\ s.origin = f.origin /\ HeadOf(s) = HeadOf(r)
      BY <1>5, <1>6, <1>7, <2>1 DEF DeletedTo, Careful
    <3>2. "none" \notin DOMAIN s.tip
      BY <1>7, NamesAssumption DEF DeletedTo, IsRepository, PartOf
    <3>3. Saved(s) \subseteq Elsewhere(f, s, "none")
      BY <1>5, <3>1, <3>2 DEF Saved, Elsewhere
    <3>4. \A e \in DOMAIN f.tip : Range(f.tip[e].own) \subseteq Saved(r)
      BY <1>5, SavedHas
    <3> QED BY <3>1, <3>3, <3>4 DEF SafeBut
  <2> QED BY <2>1, <1>1 DEF Safe, Keeping
<1>10. IsRepository(s) /\ (d.res = "ok" => b \notin DOMAIN s.tip)
  BY <1>7 DEF DeletedTo, Restrict
<1>11. CASE c.res # "ok" /\ Fail(r)
  BY <1>1, <1>5, <1>8, <1>11, PatchErrs DEF f
<1>12. CASE d.res = "ok" /\ Proceed(s, "fetch")
  <2>1. /\ PatchHere' = s /\ BranchName' = BranchName
        /\ Stage(pfirst[PatchProj], PatchHere, BranchName, Change)' => PatchInv'
    BY <1>1, <1>9, <1>10, <1>12, PatchSteps DEF f, Busy
  <2>2. Stage(pfirst[PatchProj], PatchHere, BranchName, Change)'
    BY <1>1, <1>10, <1>12, <2>1 DEF Stage, BeforeBranch, Proceed, PatchGoto, patchGiven, b
  <2> QED BY <2>1, <2>2
<1>13. CASE Count(s, FALSE)
  BY <1>1, <1>9, <1>10, <1>13, PatchCounts DEF f
<1> QED BY <1>4, <1>11, <1>12, <1>13 DEF r, d, b

LEMMA CollideGoesOn == PatchInv /\ Collide => PatchInv'
<1> SUFFICES ASSUME PatchInv, Collide PROVE PatchInv'
  OBVIOUS
<1>1. ppc = "branch" /\ ppc \in Busy /\ UNCHANGED patchGiven /\ changes # <<>> /\ PatchProj \in Checkouts
  BY DEF Collide, Busy, PatchInv, PatchTypes
<1>2. IsRepository(PatchHere) /\ Safe(pfirst[PatchProj], PatchHere) /\ PatchHere = pfirst[PatchProj]
  BY <1>1, HereIs
<1>3. CASE BranchName \in DOMAIN PatchHere.tip
  BY <1>1, <1>2, <1>3, PatchCounts DEF Collide, SameHead
<1>4. CASE BranchName \notin DOMAIN PatchHere.tip
  <2>1. Proceed(PatchHere, "fetch")
    BY <1>4 DEF Collide
  <2>2. /\ PatchHere' = PatchHere /\ BranchName' = BranchName /\ PatchProj' = PatchProj
        /\ Stage(pfirst[PatchProj], PatchHere, BranchName, Change)' => PatchInv'
    BY <1>1, <1>2, <2>1, PatchSteps DEF Busy
  <2>3. Stage(pfirst[PatchProj], PatchHere, BranchName, Change)'
    BY <1>1, <1>2, <1>4, <2>1, <2>2 DEF Stage, BeforeBranch, SameHead, Proceed, PatchGoto, patchGiven
  <2> QED BY <2>2, <2>3
<1> QED BY <1>3, <1>4

LEMMA FetchGoesOn == PatchInv /\ FetchChange => PatchInv'
<1> SUFFICES ASSUME PatchInv, FetchChange PROVE PatchInv'
  OBVIOUS
<1> DEFINE s == FetchRev(PatchHere, Change).repo
           f == pfirst[PatchProj]
<1>1. ppc = "fetch" /\ ppc \in Busy /\ UNCHANGED patchGiven /\ changes # <<>> /\ PatchProj \in Checkouts
  BY DEF FetchChange, Busy, PatchInv, PatchTypes
<1>2. CASE PatchFault
  BY <1>1, <1>2, PatchFaults
<1>3. CASE ~PatchFault
  <2>1. /\ Proceed(s, "create")
        /\ lastRef' = CASE ~pflags.cherryPick -> NoRef
                        [] pflags.cherryPick /\ StateOf(PatchHere, FALSE).current # "none" -> Local(StateOf(PatchHere, FALSE).current)
                        [] OTHER -> Commit(StateOf(PatchHere, FALSE).revision)
    BY <1>3 DEF FetchChange
  <2>2. pflags.cherryPick => lastRef' = Home(PatchHere)
    BY <2>1 DEF StateOf, Home
  <2>3. IsRepository(PatchHere) /\ Safe(f, PatchHere) /\ Change \in Revs
    BY <1>1, HereIs
  <2>4. /\ IsRepository(s) /\ s.tip = PatchHere.tip /\ s.on = PatchHere.on
        /\ HeadOf(s) = HeadOf(PatchHere) /\ s.fetched = Change
    BY <2>3, FetchRevIs
  <2>5. Safe(f, s)
    BY <2>3, <2>4, SafeStays
  <2> HIDE DEF s
  <2>6. /\ PatchHere' = s /\ BranchName' = BranchName /\ Change' = Change /\ PatchProj' = PatchProj
        /\ Stage(pfirst[PatchProj], PatchHere, BranchName, Change)' => PatchInv'
    BY <1>1, <2>1, <2>4, <2>5, PatchSteps DEF Busy
  <2>7. BeforeBranch(f, PatchHere, BranchName)
    BY <1>1 DEF PatchInv, Stage
  <2>8. ppc' = "create" /\ pflags' = pflags /\ pfirst' = pfirst
    BY <2>1, <1>1 DEF Proceed, PatchGoto, patchGiven
  <2>9. BeforeBranch(f, s, BranchName)
    BY <2>4, <2>7 DEF BeforeBranch, SameHead
  <2>10. BeforeBranch(pfirst[PatchProj], PatchHere, BranchName)'
    BY <2>6, <2>8, <2>9 DEF BeforeBranch
  <2>11. pflags.cherryPick => lastRef' = Home(s)
    BY <2>2, <2>4 DEF Home
  <2>12. (PatchHere.fetched = Change /\ (pflags.cherryPick => lastRef = Home(PatchHere)))'
    BY <2>4, <2>6, <2>8, <2>11
  <2> QED BY <2>6, <2>8, <2>10, <2>12 DEF Stage
<1> QED BY <1>2, <1>3

\* A new branch b of x; there is nothing else new.
CreatedTo(r, b, x, n) ==
  /\ IsRepository(n.repo) /\ n.repo.tip = Put(r.tip, b, x)
  /\ n.repo.on = r.on /\ n.repo.at = r.at /\ n.repo.midway = r.midway /\ n.repo.fetched = r.fetched
  /\ HeadOf(n.repo) = HeadOf(r)

LEMMA CreatedIs ==
  ASSUME NEW r, IsRepository(r), NEW b \in Names \ DOMAIN r.tip, NEW ref, RevisionOf(r, ref) \in Revs,
         NEW m \in Branches
  PROVE  CreatedTo(r, b, RevisionOf(r, ref), CreateBranch(r, b, ref, Remote(m)))
<1> DEFINE t == Put(r.tip, b, RevisionOf(r, ref))
           s == [r EXCEPT !.tip = t, !.up[b] = NoRef]
           u == [s EXCEPT !.up[b] = Remote(m)]
           n == CreateBranch(r, b, ref, Remote(m))
<1>1. n = Refused(s) \/ n = Done(u)
  BY DEF CreateBranch
<1>2. DOMAIN t = DOMAIN r.tip \cup {b} /\ PartOf(t, Names, Revs) /\ \A c \in DOMAIN r.tip : t[c] = r.tip[c]
  BY DEF Put, PartOf, IsRepository
<1>3. ASSUME NEW v, NEW up, v = [r EXCEPT !.tip = t, !.up = up], up \in [Names -> Refs], \A c \in Names : up[c] # Local(c)
      PROVE  /\ IsRepository(v) /\ v.tip = t /\ v.on = r.on /\ v.at = r.at /\ v.midway = r.midway /\ v.fetched = r.fetched
             /\ HeadOf(v) = HeadOf(r)
  <2> HIDE DEF t
  <2>1. v.tip = t /\ v.on = r.on /\ v.at = r.at /\ v.midway = r.midway /\ v.fetched = r.fetched
        /\ v.origin = r.origin /\ v.theirs = r.theirs /\ v.up = up
    BY <1>3 DEF IsRepository
  <2>2. v \in [tip : {v.tip}, up : [Names -> Refs], on : Names \cup {"none"}, at : Revs,
            origin : {v.origin}, theirs : {v.theirs}, fetched : Revs,
            dirty : BOOLEAN, untracked : BOOLEAN, midway : BOOLEAN]
    BY <1>3 DEF IsRepository
  <2>3. r.on \in DOMAIN t \cup {"none"}
    BY <1>2 DEF IsRepository
  <2>4. PartOf(r.origin, Branches, Revs) /\ PartOf(r.theirs, Branches, Revs)
    BY DEF IsRepository
  <2>5. IsRepository(v)
    BY <1>2, <1>3, <2>1, <2>2, <2>3, <2>4 DEF IsRepository
  <2>6. HeadOf(v) = HeadOf(r)
    BY <1>2, <2>1, <2>5, RevisionType DEF IsRepository
  <2> QED BY <2>1, <2>5, <2>6
<1>4. Remote(m) \in Refs /\ NoRef \in Refs /\ \A c : NoRef # Local(c) /\ Remote(m) # Local(c)
  BY DEF Refs, Remote, NoRef, Local
<1>5. r.up \in [Names -> Refs] /\ \A c \in Names : r.up[c] # Local(c)
  BY DEF IsRepository
<1> DEFINE up1 == [r.up EXCEPT ![b] = NoRef]
           up2 == [r.up EXCEPT ![b] = Remote(m)]
<1>6. /\ up1 \in [Names -> Refs] /\ \A c \in Names : up1[c] # Local(c)
      /\ up2 \in [Names -> Refs] /\ \A c \in Names : up2[c] # Local(c)
  BY <1>4, <1>5
<1>7. s = [r EXCEPT !.tip = t, !.up = up1] /\ u = [r EXCEPT !.tip = t, !.up = up2]
  <2> HIDE DEF t
  <2> QED BY DEF IsRepository
<1>8. n.repo = s \/ n.repo = u
  <2>1. CASE n = Refused(s)
    BY <2>1 DEF Refused
  <2>2. CASE n = Done(u)
    BY <2>2 DEF Done
  <2> QED BY <1>1, <2>1, <2>2
<1> HIDE DEF s, u, n, up1, up2, t
<1>9. ASSUME NEW v, v = s \/ v = u
      PROVE  /\ IsRepository(v) /\ v.tip = t /\ v.on = r.on /\ v.at = r.at /\ v.midway = r.midway /\ v.fetched = r.fetched
             /\ HeadOf(v) = HeadOf(r)
  <2>1. CASE v = s
    BY <1>3, <1>6, <1>7, <2>1
  <2>2. CASE v = u
    BY <1>3, <1>6, <1>7, <2>2
  <2> QED BY <1>9, <2>1, <2>2
<1>10. /\ IsRepository(n.repo) /\ n.repo.tip = t
       /\ n.repo.on = r.on /\ n.repo.at = r.at /\ n.repo.midway = r.midway /\ n.repo.fetched = r.fetched
       /\ HeadOf(n.repo) = HeadOf(r)
  BY <1>8, <1>9
<1>11. CreatedTo(r, b, RevisionOf(r, ref), n)
  BY <1>10 DEF CreatedTo, t
<1> QED BY <1>11 DEF n

LEMMA CreateGoesOn == PatchInv /\ Create => PatchInv'
<1> SUFFICES ASSUME PatchInv, Create PROVE PatchInv'
  OBVIOUS
<1> DEFINE f == pfirst[PatchProj]
           r == PatchHere
           b == BranchName
           base == IF pflags.cherryPick THEN HeadRef ELSE FetchHead
           new == IF pflags.noBranch THEN Done(r) ELSE CreateBranch(r, b, base, Remote(BranchOf[PatchProj]))
           next == IF pflags.cherryPick THEN "pick" ELSE "patched"
<1>1. ppc = "create" /\ ppc \in Busy /\ UNCHANGED <<patchGiven, lastRef>> /\ changes # <<>> /\ PatchProj \in Checkouts
  BY DEF Create, Busy, PatchInv, PatchTypes
<1>2. /\ IsRepository(r) /\ IsRepository(f) /\ Safe(f, r) /\ b \in Names /\ b # "none"
      /\ BranchOf[PatchProj] \in Branches
  BY <1>1, HereIs
<1>3. BeforeBranch(f, r, b) /\ r.fetched = Change /\ (pflags.cherryPick => lastRef = Home(r))
  BY <1>1 DEF PatchInv, Stage
<1>4. r.fetched \in Revs /\ HeadOf(r) \in Revs /\ r.on \in DOMAIN r.tip \cup {"none"} /\ (r.on \in DOMAIN r.tip => r.on \in Names)
      /\ HeadOf(r) = IF r.on = "none" THEN r.at ELSE r.tip[r.on]
  BY <1>2, RevisionType DEF IsRepository, PartOf
<1>5. RevisionOf(r, HeadRef) = HeadOf(r) /\ RevisionOf(r, FetchHead) = r.fetched /\ Exists(r, FetchHead)
      /\ FetchHead[1] # "local" /\ FetchHead # HeadRef
  BY DEF HeadOf, RevisionOf, FetchHead, Exists, NoRef, HeadRef
<1>6. \/ new.res # "ok" /\ Fail(new.repo)
      \/ /\ new.res = "ok"
         /\ \E c \in CheckoutBranch(new.repo, IF pflags.noBranch THEN base ELSE Local(b), FALSE) :
              IF c.res = "ok" THEN Proceed(c.repo, next) ELSE Fail(c.repo)
  BY DEF Create
<1>7. /\ IsRepository(new.repo) /\ new.repo.fetched = r.fetched /\ HeadOf(new.repo) = HeadOf(r)
      /\ IF pflags.noBranch THEN new.repo = r
         ELSE b \notin DOMAIN r.tip /\ new.repo.tip = Put(r.tip, b, RevisionOf(r, base))
  <2>1. CASE pflags.noBranch
    BY <2>1, <1>2 DEF Done
  <2>2. CASE ~pflags.noBranch
    <3>1. b \in Names \ DOMAIN r.tip
      BY <1>2, <1>3, <2>2 DEF BeforeBranch
    <3>2. RevisionOf(r, base) \in Revs
      BY <1>4, <1>5
    <3>3. new = CreateBranch(r, b, base, Remote(BranchOf[PatchProj]))
      BY <2>2
    <3> HIDE DEF new, base, r, b
    <3>4. CreatedTo(r, b, RevisionOf(r, base), new)
      BY <1>2, <3>1, <3>2, <3>3, CreatedIs
    <3> QED BY <2>2, <3>1, <3>4 DEF CreatedTo
  <2> QED BY <2>1, <2>2
<1> HIDE DEF new
<1>8. /\ DOMAIN r.tip \subseteq DOMAIN new.repo.tip /\ \A d \in DOMAIN r.tip : new.repo.tip[d] = r.tip[d]
      /\ ~pflags.noBranch => b \notin DOMAIN r.tip
  BY <1>7 DEF Put
<1>9. Safe(f, new.repo)
  BY <1>2, <1>7, <1>8, SafeStays
<1>10. CASE Fail(new.repo)
  BY <1>1, <1>7, <1>9, <1>10, PatchErrs
<1>11. ASSUME NEW c \in CheckoutBranch(new.repo, IF pflags.noBranch THEN base ELSE Local(b), FALSE)
       PROVE  /\ IsRepository(c.repo) /\ c.repo.tip = new.repo.tip /\ c.repo.fetched = r.fetched
              /\ c.res = "ok" /\ ~pflags.noBranch => c.repo.on = b
              /\ c.res = "ok" /\ pflags.noBranch /\ pflags.cherryPick => c.repo = r
              /\ c.res = "ok" /\ ~pflags.cherryPick => HeadOf(c.repo) = Change
  <2>1. CASE ~pflags.noBranch
    <3>1. c \in CheckoutBranch(new.repo, Local(b), FALSE)
      BY <2>1
    <3>2. MovedTo(new.repo, c) /\ (c.res = "ok" => c.repo.on = b)
      BY <1>7, <3>1, CheckoutLocal
    <3>3. ASSUME c.res = "ok", ~pflags.cherryPick PROVE HeadOf(c.repo) = Change
      <4>1. new.repo.tip[b] = Change
        BY <1>3, <1>5, <1>7, <2>1, <3>3 DEF Put
      <4>2. c.repo.on = b /\ b # "none" /\ c.repo.tip = new.repo.tip /\ IsRepository(c.repo)
        BY <1>2, <3>2, <3>3 DEF MovedTo
      <4> QED BY <4>1, <4>2, RevisionType
    <3> QED BY <2>1, <3>2, <3>3, <1>7 DEF MovedTo
  <2>2. CASE pflags.noBranch /\ ~pflags.cherryPick
    <3>1. c \in CheckoutBranch(r, FetchHead, FALSE)
      BY <2>2, <1>7
    <3>2. MovedTo(r, c) /\ (c.res = "ok" => c.repo.on = "none" /\ c.repo.at = RevisionOf(r, FetchHead))
      <4> HIDE DEF r
      <4> QED BY <1>2, <1>4, <1>5, <3>1, CheckoutRev
    <3>3. c.res = "ok" => HeadOf(c.repo) = Change
      BY <1>3, <1>5, <3>2, RevisionType DEF MovedTo
    <3> QED BY <2>2, <3>2, <3>3, <1>7 DEF MovedTo
  <2>3. CASE pflags.noBranch /\ pflags.cherryPick
    <3>1. c \in CheckoutBranch(r, HeadRef, FALSE)
      BY <2>3, <1>7
    <3>2. HeadRef[1] # "local"
      BY DEF HeadRef
    <3>3. c = Refused(r) \/ c = Done(r)
      BY <1>5, <3>1, <3>2 DEF CheckoutBranch
    <3>4. c.repo = r
      <4>1. CASE c = Refused(r)
        BY <4>1 DEF Refused
      <4>2. CASE c = Done(r)
        BY <4>2 DEF Done
      <4> QED BY <3>3, <4>1, <4>2
    <3> QED BY <2>3, <3>4, <1>2, <1>7
  <2> QED BY <2>1, <2>2, <2>3
<1>12. ASSUME NEW c \in CheckoutBranch(new.repo, IF pflags.noBranch THEN base ELSE Local(b), FALSE)
       PROVE  Safe(f, c.repo)
  BY <1>9, <1>11, SafeStays
<1>13. ASSUME NEW c \in CheckoutBranch(new.repo, IF pflags.noBranch THEN base ELSE Local(b), FALSE), Fail(c.repo)
       PROVE  PatchInv'
  BY <1>1, <1>11, <1>12, <1>13, PatchErrs
<1>14. ASSUME NEW c \in CheckoutBranch(new.repo, IF pflags.noBranch THEN base ELSE Local(b), FALSE), c.res = "ok", Proceed(c.repo, next)
       PROVE  PatchInv'
  <2>1. next \in Busy \ {"branch", "rebase"}
    BY DEF Busy
  <2>2. /\ PatchHere' = c.repo /\ BranchName' = BranchName /\ Change' = Change /\ PatchProj' = PatchProj
        /\ Stage(pfirst[PatchProj], PatchHere, BranchName, Change)' => PatchInv'
    <3> HIDE DEF next
    <3> QED BY <1>1, <1>11, <1>12, <1>14, <2>1, PatchSteps
  <2>3. ppc' = next /\ pflags' = pflags /\ pfirst' = pfirst /\ lastRef' = lastRef
    BY <1>1, <1>14 DEF Proceed, PatchGoto, patchGiven
  <2>4. CASE ~pflags.cherryPick
    <3>1. topic' = topic
      BY <1>1 DEF patchGiven
    <3>2. Got(c.repo, topic[PatchProj])
      BY <1>1, <1>11, <1>14, <2>4, ToDoNext DEF Covers, Got
    <3>3. Got(PatchHere, topic[PatchProj])'
      BY <2>2, <3>1, <3>2 DEF Got
    <3> QED BY <2>2, <2>3, <2>4, <3>3 DEF Stage
  <2>5. CASE pflags.cherryPick
    <3> DEFINE s == c.repo
    <3>1. (\E d \in Names : lastRef = Local(d)) \/ (lastRef = Commit(lastRef[2]) /\ lastRef[2] \in Revs)
      BY <1>3, <1>4, <2>5 DEF Home, Commit
    <3>2. ~pflags.noBranch => s.on = b
      BY <1>11, <1>14
    <3>3. ASSUME ~pflags.noBranch, Careful PROVE SafeBut(f, s, b)
      <4>1. SafeBut(f, r, "none") /\ "none" \notin DOMAIN r.tip
        BY <1>2, <3>3, NamesAssumption DEF Safe, IsRepository, PartOf
      <4>2. \A d \in DOMAIN r.tip \ {"none"} : d \in DOMAIN s.tip \ {b} /\ s.tip[d] = r.tip[d]
        BY <1>8, <1>11, <3>3
      <4> QED BY <4>1, <4>2, SafeGrows
    <3>4. HeadOf(s) = HeadOf(r)
      <4>1. CASE pflags.noBranch
        BY <4>1, <1>11, <1>14, <2>5
      <4>2. CASE ~pflags.noBranch
        <5>1. s.on = b /\ s.on # "none" /\ s.tip[b] = RevisionOf(r, base)
          BY <4>2, <1>2, <1>7, <1>11, <3>2 DEF Put
        <5> QED BY <5>1, <1>5, <1>11, <2>5, RevisionType
      <4> QED BY <4>1, <4>2
    <3>5. ASSUME ~pflags.delete
          PROVE  /\ HeadOf(s) = HeadOf(f) /\ lastRef = Home(f)
                 /\ f.on # "none" => f.on \in DOMAIN s.tip /\ s.tip[f.on] = HeadOf(f)
                 /\ ~pflags.noBranch => b \notin DOMAIN f.tip
      <4>1. r.tip = f.tip /\ r.on = f.on /\ HeadOf(r) = HeadOf(f)
        BY <3>5, <1>3 DEF BeforeBranch, SameHead
      <4>2. lastRef = Home(f)
        BY <4>1, <1>3, <2>5 DEF Home
      <4>3. f.on # "none" => f.on \in DOMAIN s.tip /\ s.tip[f.on] = HeadOf(f)
        BY <4>1, <1>4, <1>8, <1>11
      <4> QED BY <4>1, <4>2, <4>3, <3>4, <1>8
    <3>6. BeforePick(f, s, b, Change)
      BY <1>3, <1>11, <2>5, <3>1, <3>2, <3>3, <3>5 DEF BeforePick
    <3>7. Careful' <=> Careful
      BY <2>3 DEF Careful
    <3>8. BeforePick(pfirst[PatchProj], PatchHere, BranchName, Change)'
      BY <2>2, <2>3, <3>6, <3>7 DEF BeforePick
    <3> QED BY <2>2, <2>3, <2>5, <3>8 DEF Stage
  <2> QED BY <2>4, <2>5
<1> QED BY <1>6, <1>10, <1>13, <1>14

\* A cherry-pick adds the change to HEAD's branch, or leaves all as it was, or git is stuck in it.
PickedTo(r, o) ==
  /\ IsRepository(o.repo) /\ o.res \in {"ok", "failed", "error"}
  /\ DOMAIN o.repo.tip = DOMAIN r.tip
  /\ \A b \in DOMAIN r.tip : Range(r.tip[b].own) \subseteq Range(o.repo.tip[b].own)
  /\ o.res = "failed" => o.repo = r
  /\ o.res = "error" => o.repo.midway
  /\ o.res = "ok" => Last(r.fetched.own) \in Range(HeadOf(o.repo).own)

LEMMA PickedIs ==
  ASSUME NEW r, IsRepository(r), r.fetched.own # <<>>, NEW o \in CherryPickOrAbort(r, TRUE)
  PROVE  PickedTo(r, o)
<1> DEFINE x == HeadOf(r)
           c == Last(r.fetched.own)
           y == Rev(x.base, Append(x.own, c))
           s == SetHead(r, y)
           t == [r EXCEPT !.midway = TRUE]
<1>1. o = Refused(r) \/ o = Done(s) \/ o = Broken(t)
  BY DEF CherryPickOrAbort
<1>2. CASE o = Refused(r)
  <2>1. o.repo = r /\ o.res = "failed"
    BY <1>2 DEF Refused
  <2> QED BY <2>1 DEF PickedTo
<1>3. CASE o = Broken(t)
  <2>1. IsRepository(t) /\ t.tip = r.tip /\ t.midway
    BY DEF IsRepository
  <2>2. o.repo = t /\ o.res = "error"
    BY <1>3 DEF Broken
  <2> HIDE DEF t
  <2> QED BY <2>1, <2>2 DEF PickedTo
<1>4. CASE o = Done(s)
  <2>1. x \in Revs /\ x.own \in Seq(Changes) /\ r.fetched.own \in Seq(Changes)
    BY RevisionType DEF IsRepository, Revs
  <2>2. c \in Changes
    BY <2>1 DEF Last
  <2> HIDE DEF x, c
  <2>3. y \in Revs
    BY <2>1, <2>2 DEF Rev, Revs
  <2>4. y.own = Append(x.own, c)
    BY DEF Rev
  <2>5. \A i \in DOMAIN x.own : i \in DOMAIN y.own /\ y.own[i] = x.own[i]
    BY <2>1, <2>2, <2>4
  <2>6. Range(x.own) \subseteq Range(y.own) /\ c \in Range(y.own)
    <3>1. Len(x.own) + 1 \in DOMAIN y.own /\ y.own[Len(x.own) + 1] = c
      BY <2>1, <2>2, <2>4
    <3> QED BY <2>5, <3>1 DEF Range
  <2> HIDE DEF y
  <2>7. IsRepository(s) /\ DOMAIN s.tip = DOMAIN r.tip /\ HeadOf(s) = y
        /\ \A b \in DOMAIN r.tip : s.tip[b] = IF b = r.on THEN y ELSE r.tip[b]
    BY <2>3, SetHeadIs
  <2>8. r.on \in DOMAIN r.tip => x = r.tip[r.on]
    BY RevisionType, NamesAssumption DEF x, IsRepository, PartOf
  <2>9. \A b \in DOMAIN r.tip : Range(r.tip[b].own) \subseteq Range(s.tip[b].own)
    BY <2>6, <2>7, <2>8
  <2>10. o.repo = s /\ o.res = "ok"
    BY <1>4 DEF Done
  <2> HIDE DEF s
  <2> QED BY <2>6, <2>7, <2>9, <2>10 DEF PickedTo, c
<1> QED BY <1>1, <1>2, <1>3, <1>4

\* Nothing is in the way of a checkout of what HEAD is at.
LEMMA CheckoutSame ==
  ASSUME NEW r, NEW ref, Exists(r, ref), ~r.midway, RevisionOf(r, ref) = HeadOf(r), ref # HeadRef,
         NEW o \in CheckoutBranch(r, ref, FALSE)
  PROVE  o.res = "ok"
<1>1. o = Done(OnBranch(r, ref[2])) \/ o = Done(DetachedAt(r, HeadOf(r)))
  BY DEF CheckoutBranch
<1> QED BY <1>1 DEF Done

LEMMA PickGoesOn == PatchInv /\ Pick => PatchInv'
<1> SUFFICES ASSUME PatchInv, Pick PROVE PatchInv'
  OBVIOUS
<1> DEFINE f == pfirst[PatchProj]
           r == PatchHere
           n == BranchName
<1>1. ppc = "pick" /\ ppc \in Busy /\ UNCHANGED patchGiven /\ changes # <<>> /\ PatchProj \in Checkouts
  BY DEF Pick, Busy, PatchInv, PatchTypes
<1>2. /\ IsRepository(r) /\ IsRepository(f) /\ Safe(f, r) /\ n \in Names /\ n # "none"
      /\ Change \in Revs /\ Change.own # <<>>
  BY <1>1, HereIs
<1>3. BeforePick(f, r, n, Change)
  BY <1>1 DEF PatchInv, Stage
<1>4. PICK c \in CherryPickOrAbort(r, TRUE) :
       \/ c.res = "ok" /\ Proceed(c.repo, "patched")
       \/ c.res = "error" /\ Count(c.repo, FALSE)
       \/ /\ c.res = "failed"
          /\ \E b \in CheckoutBranch(c.repo, lastRef, FALSE) :
               Count(IF b.res # "ok" \/ (pflags.noBranch /\ pflags.branch = NoName) THEN b.repo
                     ELSE DeleteBranch(b.repo, n, TRUE).repo, FALSE)
  BY DEF Pick
<1> HIDE DEF r, n, f
<1>5. PickedTo(r, c)
  BY <1>2, <1>3, <1>4, PickedIs DEF BeforePick
<1>6. IsRepository(c.repo) /\ Safe(f, c.repo)
  BY <1>2, <1>5, SafeStays DEF PickedTo
<1>7. CASE c.res = "ok" /\ Proceed(c.repo, "patched")
  <2>1. /\ Stage(pfirst[PatchProj], PatchHere, BranchName, Change)' => PatchInv'
        /\ PatchHere' = c.repo /\ PatchProj' = PatchProj
    BY <1>1, <1>6, <1>7, PatchSteps DEF f, Busy
  <2>2. ppc' = "patched" /\ topic' = topic
    BY <1>1, <1>7 DEF Proceed, PatchGoto, patchGiven
  <2>3. Got(c.repo, topic[PatchProj])
    <3> DEFINE S == topic[PatchProj]
    <3>1. PatchProj \in DOMAIN topic /\ Change \in S
      BY <1>1, ToDoNext DEF Covers
    <3>2. IsFiniteSet(S) /\ ~(Cardinality(S) > 1)
      BY <1>1, <1>3, <3>1, PatchAssumption DEF BeforePick, Stacked, PatchInv, PatchTypes, AllFinished
    <3>3. \A y \in S : y = Change
      BY <3>1, <3>2, OneElement
    <3>4. Last(Change.own) \in Range(HeadOf(c.repo).own)
      BY <1>3, <1>5, <1>7 DEF PickedTo, BeforePick
    <3> QED BY <3>3, <3>4 DEF Got
  <2>4. Got(PatchHere, topic[PatchProj])'
    BY <2>1, <2>2, <2>3 DEF Got
  <2> QED BY <2>1, <2>2, <2>4 DEF Stage
<1>8. CASE c.res = "error" /\ Count(c.repo, FALSE)
  BY <1>1, <1>5, <1>6, <1>8, PatchCounts DEF f, PickedTo
<1>9. CASE c.res = "failed"
  <2>1. c.repo = r
    BY <1>5, <1>9 DEF PickedTo
  <2>2. PICK b \in CheckoutBranch(r, lastRef, FALSE) :
               Count(IF b.res # "ok" \/ (pflags.noBranch /\ pflags.branch = NoName) THEN b.repo
                     ELSE DeleteBranch(b.repo, n, TRUE).repo, FALSE)
    BY <1>4, <1>9, <2>1
  <2> DEFINE q == b.repo
  <2>3. ASSUME NEW d \in Names, lastRef = Local(d)
        PROVE  MovedTo(r, b) /\ (~pflags.delete /\ ~r.midway => b.res = "ok" /\ SameHead(f, q))
    <3>1. lastRef = Local(d)
      BY <2>3
    <3>2. b \in CheckoutBranch(r, Local(d), FALSE)
      BY <3>1
    <3>3. MovedTo(r, b) /\ (b.res = "ok" => d \in DOMAIN r.tip /\ q.on = d)
      BY <1>2, <3>2, CheckoutLocal
    <3>4. ASSUME ~pflags.delete, ~r.midway PROVE b.res = "ok" /\ SameHead(f, q)
      <4>1. /\ HeadOf(r) = HeadOf(f) /\ lastRef = Home(f) /\ f.on # "none"
            /\ f.on \in DOMAIN r.tip /\ r.tip[f.on] = HeadOf(f)
        BY <1>3, <3>1, <3>4 DEF BeforePick, Home, Commit, Local
      <4>2. lastRef = Local(f.on) /\ d = f.on
        BY <3>1, <4>1 DEF Home, Local
      <4>3. Exists(r, lastRef) /\ RevisionOf(r, lastRef) = HeadOf(r) /\ lastRef # HeadRef
        <5>1. Exists(r, Local(f.on)) /\ RevisionOf(r, Local(f.on)) = r.tip[f.on]
          BY <1>2, <4>1, RevisionType
        <5> QED BY <4>1, <4>2, <5>1 DEF Local, HeadRef
      <4>4. b.res = "ok"
        BY <3>4, <4>3, <2>2, CheckoutSame
      <4>5. q.on = f.on /\ IsRepository(q) /\ q.tip = r.tip
        BY <3>3, <4>2, <4>4 DEF MovedTo
      <4>6. HeadOf(q) = HeadOf(f)
        BY <4>1, <4>5, RevisionType
      <4> QED BY <4>4, <4>5, <4>6 DEF SameHead
    <3> QED BY <3>3, <3>4
  <2>4. ASSUME lastRef = Commit(lastRef[2]), lastRef[2] \in Revs
        PROVE  MovedTo(r, b) /\ (~pflags.delete /\ ~r.midway => b.res = "ok" /\ SameHead(f, q))
    <3>1. lastRef[1] # "local" /\ lastRef # HeadRef /\ Exists(r, lastRef) /\ RevisionOf(r, lastRef) = lastRef[2]
      <4>1. lastRef[1] = "commit"
        BY <2>4 DEF Commit
      <4> QED BY <4>1 DEF Exists, RevisionOf, HeadRef, FetchHead, NoRef
    <3>2. MovedTo(r, b) /\ (b.res = "ok" => q.on = "none" /\ q.at = lastRef[2])
      BY <1>2, <2>2, <2>4, <3>1, CheckoutRev
    <3>3. ASSUME ~pflags.delete, ~r.midway PROVE b.res = "ok" /\ SameHead(f, q)
      <4>1. HeadOf(r) = HeadOf(f) /\ lastRef = Home(f)
        BY <1>3, <3>3 DEF BeforePick
      <4>2. f.on = "none" /\ lastRef[2] = HeadOf(f)
        BY <2>4, <4>1 DEF Home, Commit, Local
      <4>3. b.res = "ok"
        BY <2>2, <3>1, <3>3, <4>1, <4>2, CheckoutSame
      <4>4. q.on = "none" /\ q.at = HeadOf(f) /\ IsRepository(q)
        BY <3>2, <4>2, <4>3 DEF MovedTo
      <4>5. HeadOf(q) = HeadOf(f)
        BY <4>4, RevisionType
      <4> QED BY <4>2, <4>3, <4>4, <4>5 DEF SameHead
    <3> QED BY <3>2, <3>3
  <2>5. MovedTo(r, b) /\ (~pflags.delete /\ ~r.midway => b.res = "ok" /\ SameHead(f, q))
    BY <1>3, <2>3, <2>4 DEF BeforePick
  <2>6. IsRepository(q) /\ q.tip = r.tip /\ q.midway = r.midway
    BY <2>5 DEF MovedTo
  <2>7. CASE b.res # "ok" \/ (pflags.noBranch /\ pflags.branch = NoName)
    <3>1. Count(q, FALSE)
      BY <2>2, <2>7
    <3>2. Safe(f, q)
      BY <1>2, <2>6, SafeStays
    <3> HIDE DEF q
    <3> QED BY <1>1, <2>5, <2>6, <3>1, <3>2, PatchCounts DEF f
  <2>8. CASE ~(b.res # "ok" \/ (pflags.noBranch /\ pflags.branch = NoName))
    <3> DEFINE d == DeleteBranch(q, n, TRUE)
               s == d.repo
    <3>1. Count(s, FALSE)
      BY <2>2, <2>8
    <3>2. d = Refused(q) \/ (d = Done(Deleted(q, n)) /\ n \in DOMAIN q.tip /\ q.on # n)
      BY <1>2, <2>6, DeleteIs
    <3> HIDE DEF d, q
    <3>3. DeletedTo(q, n, d)
      BY <1>2, <2>6, <3>2, DeletedIs
    <3>4. /\ IsRepository(s) /\ s.on = q.on /\ HeadOf(s) = HeadOf(q) /\ s.midway = q.midway
          /\ s.tip = q.tip \/ s.tip = Restrict(q.tip, DOMAIN q.tip \ {n})
      BY <3>3 DEF DeletedTo
    <3>5. \A e \in DOMAIN r.tip \ {n} : e \in DOMAIN s.tip \ {"none"} /\ s.tip[e] = r.tip[e]
      BY <1>2, <2>6, <3>4, NamesAssumption DEF Restrict, IsRepository, PartOf
    <3> HIDE DEF s
    <3>6. ASSUME Careful PROVE SafeBut(f, s, "none")
      <4>1. SafeBut(f, r, n)
        BY <1>3, <3>6 DEF BeforePick, Careful
      <4> QED BY <4>1, <3>5, SafeGrows
    <3>7. ASSUME Keeping PROVE DOMAIN f.tip \subseteq DOMAIN s.tip
      <4>1. n \notin DOMAIN f.tip /\ DOMAIN f.tip \subseteq DOMAIN r.tip
        BY <1>2, <1>3, <3>7 DEF BeforePick, Keeping, Safe
      <4> QED BY <4>1, <3>5
    <3>8. Safe(f, s)
      BY <3>6, <3>7 DEF Safe
    <3>9. ~pflags.delete => s.midway \/ SameHead(f, s)
      BY <2>5, <2>6, <3>4 DEF SameHead, q
    <3> QED BY <1>1, <3>1, <3>4, <3>8, <3>9, PatchCounts DEF f
  <2> QED BY <2>7, <2>8
<1> QED BY <1>4, <1>5, <1>7, <1>8, <1>9 DEF PickedTo

LEMMA PatchedGoesOn == PatchInv /\ Patched => PatchInv'
<1> SUFFICES ASSUME PatchInv, Patched PROVE PatchInv'
  OBVIOUS
<1>1. ppc = "patched" /\ ppc \in Busy /\ UNCHANGED <<patchGiven, lastRef, prepo, counters, pret>>
      /\ changes # <<>> /\ PatchProj \in Checkouts /\ applied' = applied \cup {PatchProj}
  BY DEF Patched, PatchGoto, Busy, PatchInv, PatchTypes
<1>a. topic' = topic /\ pflags' = pflags /\ prepo' = prepo /\ Got(PatchHere, topic[PatchProj])
  BY <1>1 DEF patchGiven, PatchInv, Stage
<1>2. CASE pflags.rebase = "no"
  <2>1. ppc' = "next" /\ changes' = Tail(changes)
    BY <1>2 DEF Patched, PatchGoto
  <2>2. /\ failures' = failures /\ rebaseFailures' = rebaseFailures
        /\ failures' \in Nat /\ rebaseFailures' \in Nat /\ rebaseFailures' <= failures'
    BY <1>1 DEF counters, PatchInv, PatchTypes
  <2>3. ASSUME NEW p, p = PatchProj PROVE Finished(p)'
    BY <1>1, <1>a, <1>2, <2>3 DEF Finished, Got, PatchHere
  <2> QED BY <1>1, <2>1, <2>2, <2>3, NotChanged, PatchMovesOn
<1>3. CASE pflags.rebase # "no"
  <2>1. ppc' = "rebase" /\ changes' = changes
    BY <1>3 DEF Patched, PatchGoto
  <2>2. Got(PatchHere, topic[PatchProj])'
    BY <1>a, <2>1 DEF Got, PatchHere, PatchProj
  <2>3. Stage(pfirst[PatchProj], PatchHere, BranchName, Change)'
    BY <2>1, <2>2 DEF Stage
  <2> QED BY <1>1, <2>1, <2>3, NotChanged, PatchProceeds DEF Busy
<1> QED BY <1>2, <1>3

\* A rebase loses nothing, and the change was applied before.
LEMMA RebaseGoesOn == PatchInv /\ PatchRebase => PatchInv'
<1> SUFFICES ASSUME PatchInv, PatchRebase PROVE PatchInv'
  OBVIOUS
<1> DEFINE f == pfirst[PatchProj]
           r == PatchHere
           g == IF pflags.rebase = "revision" THEN FetchRev(FetchAll(r, TRUE).repo, Pinned)
                ELSE FetchBranch(r, BranchOf[PatchProj])
           onto == IF pflags.rebase = "revision" THEN Commit(Pinned) ELSE Remote(BranchOf[PatchProj])
<1>1. ppc = "rebase" /\ ppc \in Busy /\ UNCHANGED patchGiven /\ changes # <<>> /\ PatchProj \in Checkouts
      /\ PatchProj \in applied
  BY DEF PatchRebase, Busy, PatchInv, PatchTypes, AllPatched
<1>2. IsRepository(r) /\ Safe(f, r) /\ BranchOf[PatchProj] \in Branches /\ Got(r, topic[PatchProj])
  BY <1>1, HereIs DEF PatchInv, Stage
<1>3. \/ g.res # "ok" /\ Count(g.repo, FALSE)
      \/ /\ pfaults' = pfaults + 1 /\ PatchGoto("next") /\ failures' = failures + 1
         /\ changes' = Tail(changes) /\ UNCHANGED <<prepo, rebaseFailures, applied>>
      \/ g.res = "ok" /\ \E b \in RebaseOrAbort(g.repo, onto, TRUE) :
           \/ b.res = "error" /\ Fail(b.repo)
           \/ b.res = "failed" /\ Count(b.repo, TRUE)
           \/ /\ b.res = "ok" /\ PatchGoto("next") /\ changes' = Tail(changes)
              /\ prepo' = [prepo EXCEPT ![PatchProj] = b.repo] /\ UNCHANGED <<counters, applied, pfaults>>
  BY DEF PatchRebase
<1> HIDE DEF f, r
<1>4. /\ IsRepository(g.repo) /\ g.repo.tip = r.tip /\ HeadOf(g.repo) = HeadOf(r)
      /\ pflags.rebase = "branch" /\ g.res = "ok" =>
           LET b == BranchOf[PatchProj] IN b \in DOMAIN g.repo.origin /\ g.repo.origin[b] = g.repo.theirs[b]
  <2>1. CASE pflags.rebase = "revision"
    <3> DEFINE a == FetchAll(r, TRUE)
    <3>1. a = FetchAll(r, TRUE) \/ a = FetchAll(r, FALSE)
      OBVIOUS
    <3>2. g = FetchRev(a.repo, Pinned)
      BY <2>1
    <3> HIDE DEF a, g
    <3>3. IsRepository(a.repo) /\ a.repo.tip = r.tip /\ HeadOf(a.repo) = HeadOf(r)
      BY <1>2, <3>1, FetchAllIs
    <3>4. /\ IsRepository(FetchRev(a.repo, Pinned).repo) /\ FetchRev(a.repo, Pinned).repo.tip = a.repo.tip
          /\ HeadOf(FetchRev(a.repo, Pinned).repo) = HeadOf(a.repo)
      BY <3>3, PatchAssumption, FetchRevIs
    <3> QED BY <2>1, <3>2, <3>3, <3>4
  <2>2. CASE pflags.rebase # "revision"
    <3>1. g = FetchBranch(r, BranchOf[PatchProj])
      BY <2>2
    <3> HIDE DEF g
    <3> QED BY <1>2, <3>1, FetchBranchIs
  <2> QED BY <2>1, <2>2
<1> HIDE DEF g
<1>5. Exists(g.repo, onto) => RevisionOf(g.repo, onto) \in Revs
  <2>1. CASE onto = Commit(Pinned)
    <3>1. onto[1] = "commit" /\ onto[2] = Pinned
      BY <2>1 DEF Commit
    <3> HIDE DEF onto
    <3> QED BY <3>1, PatchAssumption DEF RevisionOf, HeadRef, FetchHead
  <2>2. CASE onto = Remote(BranchOf[PatchProj])
    <3> HIDE DEF onto
    <3> QED BY <1>4, <2>2, RevisionType
  <2> QED BY <2>1, <2>2
<1> HIDE DEF onto
<1>6. Safe(f, g.repo)
  BY <1>2, <1>4, SafeStays
<1>7. ASSUME NEW b \in RebaseOrAbort(g.repo, onto, TRUE)
      PROVE  /\ IsRepository(b.repo) /\ Safe(f, b.repo) /\ b.repo.theirs = g.repo.theirs
             /\ b.res = "ok" => /\ Range(HeadOf(r).own) \subseteq Range(HeadOf(b.repo).own)
                                /\ HeadOf(b.repo).base = RevisionOf(g.repo, onto).base
  <2>1. /\ IsRepository(b.repo) /\ DOMAIN b.repo.tip = DOMAIN g.repo.tip /\ b.repo.theirs = g.repo.theirs
        /\ \A d \in DOMAIN g.repo.tip : Range(g.repo.tip[d].own) \subseteq Range(b.repo.tip[d].own)
        /\ b.res = "ok" => /\ Range(HeadOf(g.repo).own) \subseteq Range(HeadOf(b.repo).own)
                           /\ HeadOf(b.repo).base = RevisionOf(g.repo, onto).base
    <3>1. RebasedTo(g.repo, onto, b)
      BY <1>4, <1>5, RebaseIs
    <3> QED BY <3>1 DEF RebasedTo
  <2> QED BY <1>4, <1>6, <2>1, SafeStays
<1>8. CASE Count(g.repo, FALSE)
  BY <1>1, <1>4, <1>6, <1>8, PatchCounts DEF f
<1>9. failures \in Nat /\ rebaseFailures \in Nat /\ rebaseFailures <= failures
  BY DEF PatchInv, PatchTypes
<1>10. CASE /\ PatchGoto("next") /\ failures' = failures + 1
            /\ changes' = Tail(changes) /\ UNCHANGED <<prepo, rebaseFailures, applied>>
  <2>1. failures' \in Nat /\ rebaseFailures' \in Nat /\ rebaseFailures' <= failures' /\ failures' # rebaseFailures' /\ failures' # 0
    BY <1>9, <1>10
  <2> QED BY <1>1, <1>10, <2>1, NotChanged, PatchMovesOn DEF PatchGoto
<1>11. ASSUME NEW b \in RebaseOrAbort(g.repo, onto, TRUE), Fail(b.repo)
       PROVE  PatchInv'
  BY <1>1, <1>7, <1>11, PatchErrs DEF f
<1>12. ASSUME NEW b \in RebaseOrAbort(g.repo, onto, TRUE), Count(b.repo, TRUE)
       PROVE  PatchInv'
  BY <1>1, <1>7, <1>12, PatchCounts DEF f
<1>13. ASSUME NEW b \in RebaseOrAbort(g.repo, onto, TRUE), PatchGoto("next"), changes' = Tail(changes),
              prepo' = [prepo EXCEPT ![PatchProj] = b.repo], UNCHANGED <<counters, applied>>, b.res = "ok", g.res = "ok"
       PROVE  PatchInv'
  <2>1. Changed /\ prepo'[PatchProj] = b.repo
    BY <1>1, <1>7, <1>13, ChangedTo DEF f
  <2>2. /\ failures' = failures /\ rebaseFailures' = rebaseFailures
        /\ failures' \in Nat /\ rebaseFailures' \in Nat /\ rebaseFailures' <= failures'
    BY <1>9, <1>13 DEF counters
  <2>3. Got(b.repo, topic[PatchProj])
    BY <1>2, <1>7, <1>13, GotGrows
  <2>4. pflags.rebase = "branch" => HeadOf(b.repo).base = b.repo.theirs[BranchOf[PatchProj]].base
    <3> SUFFICES ASSUME pflags.rebase = "branch" PROVE HeadOf(b.repo).base = b.repo.theirs[BranchOf[PatchProj]].base
      OBVIOUS
    <3>1. RevisionOf(g.repo, Remote(BranchOf[PatchProj])) = g.repo.origin[BranchOf[PatchProj]]
      BY <1>4, RevisionType
    <3>2. onto = Remote(BranchOf[PatchProj])
      BY DEF onto
    <3> QED BY <1>4, <1>7, <1>13, <3>1, <3>2
  <2>5. ASSUME NEW p, p = PatchProj PROVE Finished(p)'
    <3>1. topic' = topic /\ pflags' = pflags /\ prepo'[p] = b.repo
      BY <1>1, <2>1, <2>5 DEF patchGiven
    <3> QED BY <1>1, <2>3, <2>4, <2>5, <3>1 DEF Finished, Got
  <2> QED BY <1>1, <1>13, <2>1, <2>2, <2>5, PatchMovesOn DEF PatchGoto
<1> QED BY <1>3, <1>8, <1>10, <1>11, <1>12, <1>13

LEMMA EndGoesOn == PatchInv /\ End => PatchInv'
<1> SUFFICES ASSUME PatchInv, End PROVE PatchInv'
  OBVIOUS
<1>1. /\ ppc = "next" /\ changes = <<>> /\ ppc' = "done" /\ UNCHANGED <<prepo, patchGiven, changes, counters, applied>>
      /\ (pret' = "rebaseFailed" => rebaseFailures = failures) /\ (pret' = "nil" => failures = 0)
  <2>1. failures \in Nat
    BY DEF PatchInv, PatchTypes
  <2> QED BY <2>1 DEF End, PatchReturn
<1>2. PatchTypes'
  BY <1>1, NotChanged, SafeAgain DEF PatchInv, PatchTypes, patchGiven, counters, Busy
<1>3. pret = "none"
  BY <1>1 DEF PatchInv, PatchTypes
<1>4. LeftBack'
  BY <1>1, <1>3 DEF PatchInv, LeftBack, patchGiven, SameHead, Busy
<1>5. AllPatched'
  <2>1. rebaseFailures = failures => DOMAIN topic \subseteq applied \cup ToDo(changes)
    BY <1>1, <1>3 DEF PatchInv, AllPatched
  <2>2. ToDo(changes) = {}
    BY <1>1 DEF ToDo
  <2> QED BY <1>1, <2>1, <2>2 DEF AllPatched, patchGiven, counters
<1>6. AllFinished'
  <2>1. \A p : Finished(p) => Finished(p)'
    BY <1>1, FinishedStays
  <2>2. failures' = failures /\ topic' = topic /\ changes' = changes /\ ppc' = "done"
    BY <1>1 DEF counters, patchGiven
  <2>3. failures = 0 => \A p \in (DOMAIN topic) \ ToDo(changes) : Finished(p)'
    BY <1>1, <1>3, <2>1 DEF PatchInv, AllFinished
  <2>4. (\A i \in DOMAIN changes : Covers(changes[i][1], changes[i][2]))'
    BY <1>1 DEF Range
  <2> QED BY <1>1, <2>2, <2>3, <2>4 DEF AllFinished
<1> QED BY <1>1, <1>2, <1>4, <1>5, <1>6, NotChanged, SafeAgain DEF PatchInv, Untouched, Busy

LEMMA PatchGoesOn == PatchInv /\ [PatchNext]_patchVars => PatchInv'
  BY PatchStays, ChooseGoesOn, TakeGoesOn, DiscardOldGoesOn, CollideGoesOn, FetchGoesOn, CreateGoesOn, PickGoesOn,
     PatchedGoesOn, RebaseGoesOn, EndGoesOn DEF PatchNext, PatchStep, PatchFinished

\* patch.go: whatever repositories and changes there are, whatever the flags, wherever git
\* fails: without -force no change of a branch is lost, without -delete no branch; a project
\* that was not patched is where it was, or in a cherry-pick that git could not abort; and
\* only a patch that was applied everywhere is said to have failed in its rebases alone.
THEOREM PatchIsKept == PatchSpec => []PatchKept
<1>1. PatchInv => PatchKept
  <2> SUFFICES ASSUME PatchInv PROVE PatchKept
    OBVIOUS
  <2>1. Unforced
    <3> SUFFICES ASSUME Careful, NEW p \in Checkouts, NEW b \in DOMAIN pfirst[p].tip
                 PROVE  Range(pfirst[p].tip[b].own)
      \subseteq Range(HeadOf(pfirst[p]).own)
          \cup (UNION {Range(pfirst[p].origin[c].own) : c \in DOMAIN pfirst[p].origin})
          \cup (UNION {Range(prepo[p].tip[c].own) : c \in DOMAIN prepo[p].tip})
      BY DEF Unforced, Careful
    <3>1. SafeBut(pfirst[p], prepo[p], "none")
      BY DEF PatchInv, AllSafe, Safe
    <3> QED BY <3>1 DEF SafeBut, Elsewhere
  <2>2. DeletesOnlyWhenTold
    BY DEF DeletesOnlyWhenTold, PatchInv, AllSafe, Safe, Keeping
  <2>3. TakenBack
    BY DEF TakenBack, PatchInv, LeftBack, AllPatched, SameHead, Busy
  <2> QED BY <2>1, <2>2, <2>3 DEF PatchKept
<1> QED BY <1>1, PatchStarts, PatchGoesOn, PTL DEF PatchSpec
-----------------------------------------------------------------------------
(* All commands. *)

LEMMA PatchCompletes == PatchInv => PatchComplete
<1> SUFFICES ASSUME PatchInv, pret = "nil", ppc = "done", NEW p \in DOMAIN topic, Chain(topic[p])
             PROVE  /\ {Last(x.own) : x \in topic[p]} \subseteq Range(HeadOf(prepo[p]).own)
                    /\ pflags.rebase = "branch" => HeadOf(prepo[p]).base = prepo[p].theirs[BranchOf[p]].base
  BY DEF PatchComplete
<1>1. failures = 0 /\ ToDo(changes) = {}
  BY DEF PatchInv, AllFinished, ToDo
<1>2. Finished(p)
  BY <1>1 DEF PatchInv, AllFinished
<1> QED BY <1>2 DEF Finished, Got

CommandsInv ==
  \/ cmd = "branch" /\ pret = "none" /\ uret = "none"
  \/ cmd = "patch" /\ PatchInv /\ uret = "none"
  \/ cmd = "upload" /\ UploadInv /\ UploadProgress /\ pret = "none"

\* patch.go, upload.go: when jiri patch returns no error, every project of the topic has the
\* changes of the topic at HEAD, as far as they are a chain, and HEAD is based where the branch
\* of the remote is if that was asked for; when jiri upload does, Gerrit has all that the ref
\* had in each of the projects that were meant, and for the branch that HEAD's branch tracks.
THEOREM CommandsComplete == Spec => []DoneIfNil
<1>1. Init => CommandsInv
  BY PatchStarts, UploadStarts, ProgressStarts
     DEF Init, CommandsInv, NoPatchCmd, NoUploadCmd
<1>2. CommandsInv /\ [Next]_allVars => CommandsInv'
  <2> SUFFICES ASSUME CommandsInv, [Next]_allVars PROVE CommandsInv'
    OBVIOUS
  <2>1. cmd' = cmd
    BY DEF Next, allVars
  <2>2. CASE cmd = "branch"
    <3>1. UNCHANGED <<pret, uret>>
      BY <2>2 DEF Next, allVars, patchVars, uploadVars
    <3> QED BY <2>1, <2>2, <3>1 DEF CommandsInv
  <2>3. CASE cmd = "patch"
    <3>1. PatchInv /\ [PatchNext]_patchVars /\ uret' = uret
      BY <2>3 DEF Next, allVars, uploadVars, CommandsInv
    <3> QED BY <2>1, <2>3, <3>1, PatchGoesOn DEF CommandsInv
  <2>4. CASE cmd = "upload"
    <3>1. UploadInv /\ UploadProgress /\ [UploadNext]_uploadVars /\ pret' = pret
      BY <2>4 DEF Next, allVars, patchVars, CommandsInv
    <3> QED BY <2>1, <2>4, <3>1, UploadGoesOn, ProgressGoesOn DEF CommandsInv
  <2> QED BY <2>2, <2>3, <2>4 DEF CommandsInv
<1>3. CommandsInv => DoneIfNil
  BY PatchCompletes, UploadCompletes DEF CommandsInv, DoneIfNil, PatchComplete, UploadComplete
<1> QED BY <1>1, <1>2, <1>3, PTL DEF Spec
=============================================================================
