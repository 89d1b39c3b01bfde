----------------------------- MODULE MCCreateOps -----------------------------
(* A small instance of CreateOps. *)
EXTENDS CreateOps

CONSTANTS o1, o2, o3, o4, o5

MCPart == {"jiri", "a", "b", "c", "d"}
MCRoot == <<"jiri">>

\* The project in the root, three directories side by side in it, one of them
\* claimed twice, one with a project nested in it, and one that is only on the way
\* to a destination and holds files there already.
MCOps == {o1, o2, o3, o4, o5}
MCDest == (o1 :> MCRoot)
       @@ (o2 :> <<"jiri", "a">>) @@ (o3 :> <<"jiri", "a">>)
       @@ (o4 :> <<"jiri", "b">>) @@ (o5 :> <<"jiri", "c", "d">>)
MCOccupied == { <<"jiri", "b", "d">> }
=============================================================================
