------------------------------ MODULE MCProjects ------------------------------
(***************************************************************************)
(* A checkout and what jiri writes out about checkouts, in behaviours of   *)
(* their own: the branches of a project in an update or a clean            *)
(* (SyncProject), the submodules of a .gitmodules file (SubmoduleTree),    *)
(* the difference of two snapshots (DiffCmd), the wrapping of text         *)
(* (WrapWriter) and the runes of chunks of it (ChunkDecoder).              *)
(***************************************************************************)
EXTENDS MCSyncProject, SubmoduleTree, DiffCmd, Integers, TLC

VARIABLES
  part,   \* "sync", "wrap", "chunks", "tree" or "diff"
  text, width, indents, w, out, flushed,
  bytes, rest, chunk, partial, runes, phase

wrapVars == <<text, width, indents, w, out, flushed>>
chunkVars == <<bytes, rest, chunk, partial, runes, phase>>
-----------------------------------------------------------------------------
\* Any text of six runes, with a width of three runes, of none or no bound, and an indent or none.
W == INSTANCE WrapWriter WITH Widths <- {-1, 0, 3}, Indents <- {<<>>, <<1, 0>>}, MaxRunes <- 6

\* Any text of five bytes.
C == INSTANCE ChunkDecoder WITH MaxBytes <- 5

\* Up to four projects, at the root, side by side, nested up to three deep, in
\* one place, and where the mirror of the root would be.
MCKeys == 1..4
MCMirror == <<"mirror">>
MCPaths ==
  {<<>>, <<"a">>, <<"a", "b">>, <<"a", "b", "c">>, <<"a", "c">>, <<"b">>, MCMirror, <<"mirror", "x">>}

\* A project that stays, moves, or changes its name, its remote or its revision, and
\* perhaps another one; "R" is another way to write the remote "r".
Project(n, r, p, v, g) == [name |-> n, remote |-> r, path |-> p, rev |-> v, gerrit |-> g]
Olds == {Project("a", r, p, 1, g) : r \in {"r", "s"}, p \in {"x", "y"}, g \in BOOLEAN}
News == {Project(n, r, "x", v, TRUE) : n \in {"a", "c"}, r \in {"r", "R", "s"}, v \in {1, 3, 4}}
Other(v) == {{}, {Project("b", "t", "z", v, TRUE)}}
MCSnapshots ==
  {<<{p} \cup o, {q} \cup n>> : p \in Olds, q \in News, o \in Other(1), n \in Other(1) \cup Other(3)}
MCNormal == "r" :> "r" @@ "R" :> "r" @@ "s" :> "s" @@ "t" :> "t"

\* The changes from revision 1 to 3 and on to 4, with one missing, a merge, or the first commit.
MCHistories ==
  {3 :> {2} @@ 2 :> {1}, 3 :> {2} @@ 2 :> {1} @@ 4 :> {3}, 3 :> {} @@ 4 :> {3, 2}, 2 :> {1} @@ 4 :> {3}}
-----------------------------------------------------------------------------
NoSync ==
  /\ tip = <<>> /\ track = <<>> /\ head = "none" /\ dirty = FALSE /\ untracked = FALSE /\ config = ""
  /\ barred = {} /\ target = 0 /\ cmd = [name |-> "none"] /\ seen = "none" /\ pc = "none" /\ queue = {}
  /\ home = "none" /\ midway = "no" /\ failed = FALSE /\ ret = "none" /\ faults = 0
NoWrap == text = "none" /\ width = "none" /\ indents = "none" /\ w = "none" /\ out = "none" /\ flushed = "none"
NoChunks == bytes = "none" /\ rest = "none" /\ chunk = "none" /\ partial = "none" /\ runes = "none" /\ phase = "none"
NoTree ==
  /\ path = "none" /\ redirectRoot = "none" /\ todo = {0} /\ tree = "none" /\ dropped = "none"
  /\ modules = "none" /\ result = "none"
NoDiff ==
  /\ first = "none" /\ old = "none" /\ new = "none" /\ history = "none" /\ withCls = FALSE /\ deleted = {} /\ added = {}
  /\ updatedKeys = {0} /\ worker = "none" /\ updated = "none"

ProjectsInit ==
  \/ part = "sync" /\ Init /\ NoWrap /\ NoChunks /\ NoTree /\ NoDiff
  \/ part = "wrap" /\ W!NewWrapWriter /\ NoSync /\ NoChunks /\ NoTree /\ NoDiff
  \/ part = "chunks" /\ C!Init /\ NoSync /\ NoWrap /\ NoTree /\ NoDiff
  \/ part = "tree" /\ GenerateSubmoduleTree /\ NoSync /\ NoWrap /\ NoChunks /\ NoDiff
  \/ part = "diff" /\ getDiff /\ NoSync /\ NoWrap /\ NoChunks /\ NoTree

\* A behaviour may stop only when its command is done; that of a project says so itself.
Over == \/ part = "wrap" /\ flushed
        \/ part = "chunks" /\ phase = "done"
        \/ part = "tree" /\ result # "running"
        \/ part = "diff" /\ Done

reportVars == <<wrapVars, chunkVars, treeVars, diffVars>>

ProjectsNext ==
  /\ UNCHANGED part
  /\ \/ part = "sync" /\ Next /\ UNCHANGED reportVars
     \/ part = "wrap" /\ W!Next /\ UNCHANGED <<vars, chunkVars, treeVars, diffVars>>
     \/ part = "chunks" /\ C!Next /\ UNCHANGED <<vars, wrapVars, treeVars, diffVars>>
     \/ part = "tree" /\ TreeNext /\ UNCHANGED <<vars, wrapVars, chunkVars, diffVars>>
     \/ part = "diff" /\ DiffNext /\ UNCHANGED <<vars, wrapVars, chunkVars, treeVars>>
     \/ Over /\ UNCHANGED <<vars, reportVars>>

ProjectsSpec == ProjectsInit /\ [][ProjectsNext]_<<part, vars, reportVars>>
-----------------------------------------------------------------------------
\* A text comes out of the wrapper with its words and the spaces between them, in lines that
\* are filled as far as the width allows, but for the place an end of line of the text may
\* take although it is not written (WrapWriter!WrapRight, Reserved).
WrapRight == part = "wrap" => W!WrapRight

\* The same runes come out however the text is cut into writes (ChunkDecoder!ChunksRight).
ChunksRight == part = "chunks" => C!ChunksRight
==============================================================================
