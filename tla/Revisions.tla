------------------------------ MODULE Revisions ------------------------------
(***************************************************************************)
(* Revisions of a project.  The history of the remote is linear, and a     *)
(* revision is a commit of the remote with local changes on top, in order. *)
(***************************************************************************)
EXTENDS Naturals, FiniteSets, SequencesExt

Rev(base, own) == [base |-> base, own |-> own]
Upstream(n) == Rev(n, <<>>)

\* Is x reached from y?
IsAncestor(x, y) ==
  \/ x.own = <<>> /\ x.base <= y.base
  \/ x.base = y.base /\ IsPrefix(x.own, y.own)

\* What is left of sequence s without the elements of S, in order.
Kept(s, S) == {i \in DOMAIN s : s[i] \notin S}
PlaceOf(s, S, i) == Cardinality({j \in Kept(s, S) : j <= i})
Without(s, S) ==
  [k \in 1..Cardinality(Kept(s, S)) |-> s[CHOOSE i \in Kept(s, S) : PlaceOf(s, S, i) = k]]

\* x with its changes on top of y.
Rebased(x, y) == Rev(y.base, y.own \o Without(x.own, Range(y.own)))
==============================================================================
