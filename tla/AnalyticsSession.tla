--------------------------- MODULE AnalyticsSession ---------------------------
(***************************************************************************)
(* The analytics session of a command (analytics_util/analytics_session.go)*)
(* as X.Run uses it: the command and what it measures are added, and at    *)
(* the end all are sent, by a goroutine for each, and waited for.          *)
(***************************************************************************)
EXTENDS Naturals

CONSTANT MaxObjects    \* bound: the objects of one command

ASSUME SessionAssumption == MaxObjects \in Nat \ {0}

VARIABLES
  objects,    \* those added and not sent, by their ids
  nextId,
  awaited,    \* the ids that SendAllAndWaitToFinish waits for
  mutex,      \* as.lock: who holds it, a goroutine or X.Run (<<0, "All">>); <<>> when it is free
  at,         \* where X.Run is
  todo,       \* what the loop of SendAllAndWaitToFinish has before it
  sender,     \* [<<id, who called Send>> -> its goroutine: "none", "lock", "post", "leave", "unlock" or "gone"]
  complete,   \* the commands that have an end time
  posted      \* history: [id -> how often it was posted, with an end time if it is a command]

sessionVars == <<objects, nextId, awaited, mutex, at, todo, sender, complete, posted>>

Ids == 1..MaxObjects
Senders == Ids \X {"Done", "All"}

\* The first object is the command.
SessionInit ==
  /\ objects = {1} /\ nextId = 2 /\ awaited = {}
  /\ mutex = <<>> /\ at = "run" /\ todo = {}
  /\ sender = [g \in Senders |-> "none"]
  /\ complete = {} /\ posted = [i \in Ids |-> 0]

\* AddCommandExecutionTiming, while the command runs.
Add ==
  /\ at = "run" /\ nextId <= MaxObjects
  /\ objects' = objects \cup {nextId} /\ nextId' = nextId + 1
  /\ UNCHANGED <<awaited, mutex, at, todo, sender, complete, posted>>

SendOne(i, caller) == sender' = [sender EXCEPT ![<<i, caller>>] = "lock"] /\ awaited' = awaited \cup {i}

\* The command has returned: its time is taken, and it is sent, before all the others are.
CommandDone ==
  /\ at = "run"
  /\ complete' = complete \cup {1} /\ SendOne(1, "Done")
  /\ at' = "all"
  /\ UNCHANGED <<objects, nextId, mutex, todo, posted>>

\* SendAllAndWaitToFinish: what is still there is sent, the command perhaps a second time.
SendAll ==
  /\ at = "all" /\ mutex = <<>>
  /\ mutex' = <<0, "All">> /\ todo' = objects /\ at' = "each"
  /\ UNCHANGED <<objects, nextId, awaited, sender, complete, posted>>

SendNext ==
  /\ at = "each"
  /\ \/ \E i \in todo : SendOne(i, "All") /\ todo' = todo \ {i} /\ UNCHANGED <<mutex, at>>
     \/ todo = {} /\ mutex' = <<>> /\ at' = "wait" /\ UNCHANGED <<awaited, sender, todo>>
  /\ UNCHANGED <<objects, nextId, complete, posted>>

Finish ==
  /\ at = "wait" /\ awaited = {}
  /\ at' = "end"
  /\ UNCHANGED <<objects, nextId, awaited, mutex, todo, sender, complete, posted>>

\* The goroutine of Send: who comes second finds nothing to send.  It ends with X.Run.
Advance(g, from, to) == at # "end" /\ sender[g] = from /\ sender' = [sender EXCEPT ![g] = to]

LockSession(g) ==
  /\ mutex = <<>> /\ mutex' = g
  /\ Advance(g, "lock", IF g[1] \in objects THEN "post" ELSE "leave")
  /\ objects' = objects \ {g[1]}
  /\ UNCHANGED <<nextId, awaited, at, todo, complete, posted>>
Post(g) ==
  /\ Advance(g, "post", "leave")
  /\ posted' = [posted EXCEPT ![g[1]] = IF g[1] = 1 /\ 1 \notin complete THEN @ ELSE @ + 1]
  /\ UNCHANGED <<objects, nextId, awaited, mutex, at, todo, complete>>
Leave(g) ==
  /\ Advance(g, "leave", "unlock")
  /\ awaited' = awaited \ {g[1]}
  /\ UNCHANGED <<objects, nextId, mutex, at, todo, complete, posted>>
UnlockSession(g) ==
  /\ Advance(g, "unlock", "gone")
  /\ mutex' = <<>>
  /\ UNCHANGED <<objects, nextId, awaited, at, todo, complete, posted>>

SenderStep(g) == LockSession(g) \/ Post(g) \/ Leave(g) \/ UnlockSession(g)
SessionMain == SendAll \/ SendNext \/ Finish
SessionNext == Add \/ CommandDone \/ SessionMain \/ \E g \in Senders : SenderStep(g)
SessionSpec == SessionInit /\ [][SessionNext]_sessionVars
-------------------------------------------------------------------------------
\* When jiri exits everything it measured has been sent, and once, though the command is
\* handed to two goroutines and the first to be done takes it from the ones waited for.
SentOnce == at = "end" => \A i \in 1..(nextId - 1) : posted[i] = 1
===============================================================================
