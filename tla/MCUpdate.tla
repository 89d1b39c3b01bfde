------------------------------- MODULE MCUpdate -------------------------------
(***************************************************************************)
(* Small workspaces for Update: one run of TLC goes through several of     *)
(* them, each with its projects, the manifests it may be given, and what   *)
(* may happen to it.                                                       *)
(***************************************************************************)
EXTENDS Update

CONSTANTS
  P, Q, R, I,  \* projects, I being ignored
  Workspaces   \* the workspaces the run goes through

VARIABLE ws

a == <<1>>
ab == <<1, 2>>      \* as a string, a is a prefix of ab
ac == <<1, 0, 3>>
b == <<4>>
bc == <<4, 0, 3>>
d == <<5>>
dc == <<5, 0, 3>>
e == <<6>>

\* Q lies in P.
NestedStart == (P :> a) @@ (Q :> ac)

\* Both move, apart or together; one of them or both go away; Q moves out of P, R
\* appears in the place of either.
NestedManifests ==
  { (P :> b) @@ (Q :> bc),
    (P :> ac) @@ (Q :> b),
    (Q :> b),
    (P :> a) @@ (Q :> bc),
    (R :> ac),
    (P :> a) @@ (Q :> ac) @@ (R :> b) }

\* Side by side, with names of which one begins with the other.
SiblingStart(q) == (P :> a) @@ (q :> ab)
SiblingManifests(q) ==
  { (P :> b) @@ (q :> ab),
    (P :> bc) @@ (q :> ab) @@ (R :> b),
    (q :> ab) @@ (R :> a),
    (P :> ab) @@ (q :> a),
    (P :> a) @@ (R :> ab),
    (P :> a) @@ (q :> ab) @@ (R :> ac),
    (P :> b) @@ (q :> bc) }

\* R lies in P, and Q may be given the place to which P carries it.
CrowdedStart == (P :> a) @@ (Q :> b) @@ (R :> ac)
CrowdedManifests == { (P :> d) @@ (Q :> dc) @@ (R :> e), (P :> d) @@ (Q :> a) @@ (R :> dc), (P :> bc) @@ (Q :> d) @@ (R :> e) }

\* Both go away, and R appears in their place.
DroppedManifests == { (R :> b), (R :> a), (P :> a) @@ (Q :> ac), (P :> a) }

\* Only P goes away.
ParentDropped == { (Q :> ac) }

\* What differs between the workspaces.
StartOf(w) == CASE w = "siblings" -> SiblingStart(Q) [] w = "ignored" -> SiblingStart(I)
                [] w = "crowded" -> CrowdedStart  [] OTHER -> NestedStart
ManifestsOf(w) ==
  CASE w = "nested" -> NestedManifests [] w = "siblings" -> SiblingManifests(Q) [] w = "ignored" -> SiblingManifests(I)
    [] w = "crowded" -> CrowdedManifests [] w = "dropped" -> DroppedManifests
    [] w = "covered" -> ParentDropped

\* "nested" may be killed.  "ignored" is "siblings" with an ignored project, which
\* the others do without.
\* "dropped" and "covered" have a .gitignore that hides nested projects from git.
W(w) == INSTANCE Update WITH
  Start <- StartOf(w), Manifests <- ManifestsOf(w),
  Moved <- IF w = "siblings" THEN {Q} ELSE {},
  NoUpdate <- IF w = "siblings" THEN {P} ELSE {},
  Covers <- IF w \in {"dropped", "covered"} THEN {P} ELSE {},
  Edited <- IF w \in {"nested", "covered"} THEN {Q} ELSE IF w = "ignored" THEN {P} ELSE {P, Q},
  GC <- IF w \in {"dropped", "covered"} THEN {TRUE} ELSE BOOLEAN,
  MaxCrashes <- IF w \in {"nested", "dropped", "ignored"} THEN MaxCrashes ELSE 0

WsInit == \E w \in Workspaces : ws = w /\ W(w)!Init
WsNext == (\E w \in Workspaces : ws = w /\ W(w)!Next) /\ UNCHANGED ws

\* A run of jiri that is under way goes on.
WsSpec ==
  /\ WsInit /\ [][WsNext]_<<vars, ws>>
  /\ WF_vars(\E w \in Workspaces : ws = w /\ W(w)!Step)
=============================================================================
