----------------------------- MODULE CreateOrder -----------------------------
(***************************************************************************)
(* What the create phase of an update promises, whatever pool of workers   *)
(* carries it out: a project nested in the directory of another one is     *)
(* created after it, never when the outer one failed, every project that   *)
(* can be created is tried exactly once, and the phase returns exactly the *)
(* errors of the projects that failed.                                     *)
(***************************************************************************)
EXTENDS Naturals, FiniteSets, SequencesExt

CONSTANTS
  Ops,       \* the create operations of the update
  Dest,      \* Dest[o]: the destination of o, as a sequence of path components
  Limit      \* the number of operations that may be in progress at once

VARIABLES
  outcome,   \* outcome[o]: what has become of o
  reported   \* {} until the phase returns, then {the set of reported failures}

vars == <<outcome, reported>>

Outcomes == {"pending", "running", "ok", "failed"}

\* The operations whose destination strictly contains that of o.
Outer(o) == {p \in Ops : IsStrictPrefix(Dest[p], Dest[o])}
\* The other operations with the very same destination.
Rivals(o) == {p \in Ops \ {o} : Dest[p] = Dest[o]}

With(v) == {o \in Ops : outcome[o] = v}

Init ==
  /\ outcome = [o \in Ops |-> "pending"]
  /\ reported = {}

MayStart(o) ==
  /\ outcome[o] = "pending"
  /\ reported = {}
  /\ Outer(o) \subseteq With("ok")
  /\ Rivals(o) \cap (With("running") \cup With("failed")) = {}

Start(o) ==
  /\ MayStart(o)
  /\ Cardinality(With("running")) < Limit
  /\ outcome' = [outcome EXCEPT ![o] = "running"]
  /\ UNCHANGED reported

\* The operation is refused before it touches its destination.
Refuse(o) ==
  /\ MayStart(o)
  /\ outcome' = [outcome EXCEPT ![o] = "failed"]
  /\ UNCHANGED reported

Finish(o) ==
  /\ outcome[o] = "running"
  /\ \E r \in {"ok", "failed"} : outcome' = [outcome EXCEPT ![o] = r]
  /\ UNCHANGED reported

\* The phase is over when nothing runs and nothing can be started: whatever was
\* not tried has, at or above its destination, an operation that failed.
Return ==
  /\ reported = {}
  /\ With("running") = {}
  /\ \A o \in Ops : ~MayStart(o)
  /\ reported' = {With("failed")}
  /\ UNCHANGED outcome

Next ==
  \/ \E o \in Ops : Start(o) \/ Refuse(o) \/ Finish(o)
  \/ Return

Spec == Init /\ [][Next]_vars
=============================================================================
