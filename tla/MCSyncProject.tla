---------------------------- MODULE MCSyncProject ----------------------------
(* Small checkouts for SyncProject. *)
EXTENDS SyncProject

CONSTANTS A, B

Two == <<A, B>>

Update(t, u, a, s) ==
  [name |-> "update", tracked |-> t, untracked |-> u, all |-> a, snapshot |-> s]
Clean(a) ==
  [name |-> "clean", tracked |-> FALSE, untracked |-> FALSE, all |-> a, snapshot |-> FALSE]

\* Every combination of the flags.
AllCommands ==
  {Update(t, u, a, s) : t, u, a, s \in BOOLEAN} \cup {Clean(a) : a \in BOOLEAN}
=============================================================================
