---------------------------- MODULE SubmoduleTree ----------------------------
(***************************************************************************)
(* "jiri generate-gitmodules": the projects are put, in the order of their *)
(* keys, into the prefix tree of project.go, which drops those nested      *)
(* under another one, and the rest is written as submodules.  A path is    *)
(* the sequence of its elements below the root; the root of the checkout   *)
(* itself is <<>>.  The tree is a function of the paths of its nodes, the  *)
(* node's project or NoProject.                                            *)
(***************************************************************************)
EXTENDS Naturals, SequencesExt

CONSTANTS Keys,        \* the projects, as numbers in the order of ProjectKey.Less
          Paths,       \* where they may be
          MirrorPath   \* the name of the root project with "-mirror", as a path

VARIABLES path,          \* project |-> its path
          redirectRoot,  \* -redir-root
          todo,          \* the entries still to add
          tree, dropped, \* ProjectTreeRoot
          modules,       \* the .gitmodules file: the set of [project, path], {} before it is written
          result         \* "running", "ok" or "error"

ASSUME TreeAssumption ==
  Keys \subseteq Nat \ {0} /\ MirrorPath \in Seq(STRING) /\ Paths \subseteq Seq(STRING)

treeVars == <<path, redirectRoot, todo, tree, dropped, modules, result>>

NoProject == 0

GenerateSubmoduleTree ==
  /\ \E K \in SUBSET Keys : path \in [K -> Paths] /\ todo = K
  /\ redirectRoot \in BOOLEAN
  /\ tree = [p \in {} |-> NoProject]
  /\ dropped = {} /\ modules = {} /\ result = "running"

NodesTo(p) == Prefixes(p) \ {<<>>}
Below(p) == {q \in DOMAIN tree : IsStrictPrefix(p, q)}
Taken(p) == \E q \in NodesTo(p) \cap DOMAIN tree : tree[q] # NoProject

\* Mutant: only the children of p.
PrunedChildren(p) == {tree[q] : q \in {r \in Below(p) : Len(r) = Len(p) + 1}} \ {NoProject}

\* prune: the nodes under p go, and their projects are dropped.
Pruned(p) == {tree[q] : q \in Below(p)} \ {NoProject}

Grown(p, k) ==
  [q \in (DOMAIN tree \ Below(p)) \cup NodesTo(p) |->
     IF q = p THEN k ELSE IF q \in DOMAIN tree THEN tree[q] ELSE NoProject]

\* The entries come in the order of their keys.
add(k) ==
  /\ \A j \in todo : k <= j
  /\ IF path[k] = <<>> \/ Taken(path[k])
       THEN dropped' = dropped \cup {k} /\ UNCHANGED tree
       ELSE /\ dropped' = dropped \cup Pruned(path[k])
            /\ tree' = Grown(path[k], k)
  /\ todo' = todo \ {k}
  /\ UNCHANGED <<path, redirectRoot, modules, result>>

\* writeGitModules.  With -redir-root the project at the root becomes a submodule too,
\* and no entry, dropped or not, may be at its place.
Entries == DOMAIN path
AtRoot == {k \in Entries : path[k] = <<>>}
Mirror == IF redirectRoot THEN {[project |-> k, path |-> MirrorPath] : k \in AtRoot} ELSE {}
writeGitModules ==
  /\ todo = {} /\ result = "running"
  /\ IF \/ \E j, k \in AtRoot : redirectRoot /\ j # k
        \/ \E k \in Entries : Mirror # {} /\ path[k] = MirrorPath
       THEN result' = "error" /\ UNCHANGED modules
       ELSE /\ modules' = Mirror \cup {[project |-> k, path |-> path[k]] : k \in Entries \ dropped}
            /\ result' = "ok"
  /\ UNCHANGED <<path, redirectRoot, todo, tree, dropped>>

TreeNext == (\E k \in todo : add(k)) \/ writeGitModules
TreeSpec == GenerateSubmoduleTree /\ [][TreeNext]_treeVars
-------------------------------------------------------------------------------
\* Of the projects below the root exactly those stay that are nested under no other
\* one, the first in the order of keys where two have one path: so no submodule is
\* placed under another, apart from one under the mirror of the root, and none is
\* dropped because of a project that is itself dropped.
Nested(k) == \E j \in Entries \ {k} : /\ path[j] # <<>>
                                      /\ IsPrefix(path[j], path[k])
                                      /\ path[j] = path[k] => j < k
TreeRight ==
  /\ todo = {} => dropped = {k \in Entries : path[k] = <<>> \/ Nested(k)}
  /\ result = "ok" =>
       /\ {m.project : m \in modules} = Entries \ (IF redirectRoot THEN dropped \ AtRoot ELSE dropped)
       /\ \A m, n \in modules : m # n => ~IsPrefix(m.path, n.path) \/ m \in Mirror
===============================================================================
