----------------------------- MODULE MCCommands ------------------------------
(***************************************************************************)
(* A small instance of Commands: repositories of two branches that track   *)
(* anything, each other too.                                               *)
(***************************************************************************)
EXTENDS Commands

\* The names of branches are those there are and those of the changes that are patched.
ListedNames == <<"w", "c", "d", "e", "g">>
AllChanges == {"x", "y", "z", "c", "d", "e", "g"}
Heads == Remote("m")
ForBranch == [p \in {"p", "q"} |-> "m"]
InManifest == [p \in {"p", "q"} |-> IF p = "p" THEN "m" ELSE "d"]
PinnedTo == Upstream(2)

\* A repository: its branches, what they track, HEAD, what is known of the remote and what
\* is there.
Repository(tip, up, on, origin, theirs, dirty) ==
  [tip |-> tip, up |-> [b \in Names |-> IF b \in DOMAIN up THEN up[b] ELSE NoRef],
   on |-> on, at |-> Upstream(1), origin |-> origin, theirs |-> theirs,
   fetched |-> Upstream(0), dirty |-> dirty, untracked |-> FALSE, midway |-> FALSE]

Tips == {Upstream(0), Rev(0, <<"x">>), Rev(1, <<"x">>), Rev(1, <<"x", "y">>), Rev(1, <<"y">>)}
Tracked == {NoRef, Remote("m"), Remote("d"), Local("w"), Local("c")}
FoundByBranch ==
  {r \in {Repository(tip, up, on, origin, origin, dirty) :
            tip \in UNION {[S -> Tips] : S \in SUBSET {"w", "c"}}, up \in [{"w", "c"} -> Tracked],
            on \in {"none", "w", "c"}, dirty \in BOOLEAN,
            origin \in {"m" :> Upstream(1) @@ "d" :> Rev(0, <<"x">>), "d" :> Upstream(0)}} :
     /\ r.on \in DOMAIN r.tip \cup {"none"}
     /\ \A b \in {"w", "c"} : r.up[b] # Local(b) /\ (b \notin DOMAIN r.tip => r.up[b] = NoRef)}
BranchGiven ==
  [mode : {"-d", "-D", "-delete-merged", "-delete-merged-cl"}, branch : {"", "w"}, override : {FALSE}]
    \cup [mode : {"-d"}, branch : {""}, override : {TRUE}]

Below == Rev(1, <<"c">>)
Above == Rev(1, <<"c", "d">>)
Beside == Rev(1, <<"c", "e">>)
Alone == Rev(0, <<"g">>)
InGerrit == {"p" :> {Below}, "x" :> {Alone}, "p" :> {Below, Above} @@ "q" :> {Alone},
           "p" :> {Alone} @@ "q" :> {Alone}, "p" :> {Below, Above, Beside}, "p" :> {Below, Alone}}
Loose == "w" :> NoRef @@ "c" :> NoRef
Bare(dirty) == Repository(<<>>, Loose, "none", "m" :> Upstream(1), "m" :> Upstream(2), dirty)
FoundByPatch ==
  "q" :> {Bare(FALSE)} @@
  "p" :> {Bare(d) : d \in BOOLEAN} \cup
         {Repository("w" :> x, [Loose EXCEPT !["w"] = u], on, o, "m" :> Upstream(2), FALSE) :
            x \in {Upstream(1), Rev(1, <<"y">>)}, u \in {NoRef, Remote("m")}, on \in {"w", "none"},
            o \in {"m" :> Upstream(1), <<>>}}
PatchGiven == [branch : {"", "w"}, delete : BOOLEAN, force : BOOLEAN, cherryPick : BOOLEAN,
               noBranch : BOOLEAN, rebase : {"no", "branch", "revision"}]

Known == "m" :> Upstream(1) @@ "d" :> Upstream(0)
Theirs == "m" :> Upstream(2) @@ "d" :> Rev(1, <<"y">>) @@ "master" :> Upstream(1)
FoundByUpload ==
  "p" :> {Repository("w" :> w @@ "c" :> Rev(1, <<"x", "z">>), "w" :> uw @@ "c" :> uc, on, Known, Theirs, dirty) :
            w \in {Rev(1, <<"x">>), Rev(0, <<"y">>)}, uw \in {NoRef, Remote("m"), Local("c")},
            uc \in {Remote("d"), Local("w")}, on \in {"w", "c", "none"}, dirty \in BOOLEAN} @@
  "q" :> {Repository("w" :> Rev(1, <<"x">>), "w" :> Remote("d") @@ "c" :> NoRef, "w", Known, Theirs, dirty) :
            dirty \in BOOLEAN}
UploadGiven ==
  {c \in [at : {"p", "root"}, multipart : BOOLEAN, rebase : BOOLEAN, branch : {"w"}, remoteBranch : {"", "m"},
          ref : {HeadRef, Local("c")}] : c.at = "root" => c.multipart}
==============================================================================
