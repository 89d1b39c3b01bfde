----------------------------- MODULE ScanProjects -----------------------------
(***************************************************************************)
(* findLocalProjects of project/project.go: jirix.Jobs workers take        *)
(* directories from the channel workq, look for a project in each and      *)
(* start a goroutine that puts its subdirectories on the same channel.     *)
(* Errors and warnings go through two more channels, each with a goroutine *)
(* that drains it.  pwg counts what is left to do; when it is zero the     *)
(* channels are closed.                                                    *)
(*                                                                         *)
(* What a directory holds does not change during the scan, but that an old *)
(* metadata directory gets its new name by the one worker that looks at it *)
(* and is from then on like any other.                                     *)
(***************************************************************************)
EXTENDS Naturals, FiniteSets, SequencesExt

CONSTANTS
  Places,   \* the directories that may be looked at
  Tops,     \* the directories from which projects are looked for
  Tree,     \* Tree[t]: the directories in and below t
  Kids,     \* Kids[d]: the subdirectories of d whose names do not start with ".",
            \* in the order of ReadDir; none if it lacks the permission
  Kind,     \* Kind[d]: what IsLocalProject and ProjectAtPath find in d
  KeyOf,    \* KeyOf[d]: the key of the project in d
  Workers   \* the workers there may be: jirix.Jobs of them take part in a scan

\* "stale" is a project whose metadata names another path, "broken" one that cannot
\* be read, or whose old metadata directory cannot get its new name, "closed" a directory
\* without one that cannot be listed, "sealed" a project whose directory cannot.
Kinds == {"none", "project", "stale", "broken", "closed", "sealed"}
IsProject(d) == Kind[d] \in {"project", "sealed"}
IsListed(d) == Kind[d] \notin {"closed", "sealed"}

ScanAssumption ==
  /\ IsFiniteSet(Places) /\ Tree \in [Tops -> SUBSET Places]
  /\ \A t \in Tops : t \in Tree[t] /\ \A d \in Tree[t] : Range(Kids[d]) \subseteq Tree[t]
  /\ Kids \in [Places -> Seq(Places)]
  /\ \A d, e \in Places : d # e => Range(Kids[d]) \cap Range(Kids[e]) = {}
  /\ \A d \in Places : Range(Kids[d]) \cap Tops = {} /\ IsInjective(Kids[d])
  /\ Kind \in [Places -> Kinds] /\ DOMAIN KeyOf = Places
  /\ IsFiniteSet(Workers) /\ Workers # {}

VARIABLES
  top, crew,  \* the root of the scan, the workers that take part
  stage,     \* where findLocalProjects itself is
  workq,     \* contents of the channels
  errors, log,
  closed,    \* have they been closed?
  pwg,       \* the counter of the WaitGroup of the work
  doing, cur,   \* each worker: where it is, the directory it looks at
  taken,     \* history: the directories workers have taken from workq
  left,      \* left[d]: the subdirectories the goroutine of d has not sent yet
  sending,   \* sending[d]: is that goroutine there, and about to send?
  found,     \* the map of projects: directories entered in it
  multiErr,  \* directories of the errors received
  warned     \* directories of the warnings received

given == <<top, crew>>
workerVars == <<doing, cur, taken>>
senderVars == <<left, sending>>
outVars == <<found, multiErr, warned>>
scanVars == <<top, crew, stage, workq, errors, log, closed, pwg, doing, cur, taken, left, sending, found, multiErr, warned>>

Cap == Cardinality(crew)

Found == {KeyOf[d] : d \in found}
-----------------------------------------------------------------------------
(***************************************************************************)
(* processPath, as worker w carries it out.                                *)
(***************************************************************************)
Turns(w, here, there) == doing[w] = here /\ doing' = [doing EXCEPT ![w] = there]

Take(w) ==
  /\ workq # <<>>
  /\ Turns(w, "idle", "look")
  /\ cur' = [cur EXCEPT ![w] = Head(workq)]
  /\ workq' = Tail(workq) /\ taken' = taken \cup {Head(workq)}
  /\ UNCHANGED <<given, stage, errors, log, closed, pwg, senderVars, outVars>>

\* IsLocalProject and ProjectAtPath.
Look(w) ==
  /\ \/ Kind[cur[w]] = "broken" /\ Turns(w, "look", "error")
     \/ Kind[cur[w]] = "stale" /\ Turns(w, "look", "warn")
     \/ IsProject(cur[w]) /\ Turns(w, "look", "enter")
     \/ Kind[cur[w]] \in {"none", "closed"} /\ Turns(w, "look", "list")
  /\ UNCHANGED <<given, stage, workq, errors, log, closed, pwg, cur, taken, senderVars, outVars>>

\* Mutant: the lock is given up between the look at the map and the entry.
EnterUnchecked(w) ==
  /\ Turns(w, "enter", "list")
  /\ found' = found \cup {cur[w]}
  /\ UNCHANGED <<given, stage, workq, errors, log, closed, pwg, cur, taken, senderVars, multiErr, warned>>

\* What happens under projectsMutex.
Enter(w) ==
  /\ \/ /\ KeyOf[cur[w]] \in Found
        /\ Turns(w, "enter", "error")
        /\ UNCHANGED found
     \/ /\ KeyOf[cur[w]] \notin Found
        /\ Turns(w, "enter", "list")
        /\ found' = found \cup {cur[w]}
  /\ UNCHANGED <<given, stage, workq, errors, log, closed, pwg, cur, taken, senderVars, multiErr, warned>>

\* Mutant: a project is taken to hold no other.
ListOutside(w) ==
  /\ Turns(w, "list", "done")
  /\ IF Kind[cur[w]] # "none" THEN UNCHANGED <<pwg, senderVars>>
     ELSE /\ pwg' = pwg + 1
          /\ left' = [left EXCEPT ![cur[w]] = Kids[cur[w]]]
          /\ sending' = [sending EXCEPT ![cur[w]] = "next"]
  /\ UNCHANGED <<given, stage, workq, errors, log, closed, cur, taken, outVars>>

\* Mutant: the goroutine that sends is not counted before it starts.
ListUncounted(w) ==
  /\ IsListed(cur[w]) /\ Turns(w, "list", "done")
  /\ left' = [left EXCEPT ![cur[w]] = Kids[cur[w]]]
  /\ sending' = [sending EXCEPT ![cur[w]] = "next"]
  /\ UNCHANGED <<given, stage, workq, errors, log, closed, pwg, cur, taken, outVars>>

\* ReadDir, and the start of the goroutine that sends the subdirectories.
List(w) ==
  /\ \/ /\ ~IsListed(cur[w])
        /\ Turns(w, "list", "error")
        /\ UNCHANGED <<pwg, senderVars>>
     \/ /\ IsListed(cur[w])
        /\ Turns(w, "list", "done")
        /\ pwg' = pwg + 1
        /\ left' = [left EXCEPT ![cur[w]] = Kids[cur[w]]]
        /\ sending' = [sending EXCEPT ![cur[w]] = "next"]
  /\ UNCHANGED <<given, stage, workq, errors, log, closed, cur, taken, outVars>>

\* Mutant: a directory that gave an error is tried again.
SendErrorRetry(w) ==
  /\ Len(errors) < Cap
  /\ Turns(w, "error", "look")
  /\ errors' = Append(errors, cur[w])
  /\ UNCHANGED <<given, stage, workq, log, closed, pwg, cur, taken, senderVars, outVars>>

SendError(w) ==
  /\ Len(errors) < Cap
  /\ Turns(w, "error", "done")
  /\ errors' = Append(errors, cur[w])
  /\ UNCHANGED <<given, stage, workq, log, closed, pwg, cur, taken, senderVars, outVars>>

SendWarning(w) ==
  /\ Len(log) < Cap
  /\ Turns(w, "warn", "done")
  /\ log' = Append(log, cur[w])
  /\ UNCHANGED <<given, stage, workq, errors, closed, pwg, cur, taken, senderVars, outVars>>

Done(w) ==
  /\ Turns(w, "done", "idle")
  /\ pwg' = pwg - 1
  /\ UNCHANGED <<given, stage, workq, errors, log, closed, cur, taken, senderVars, outVars>>

Exit(w) ==
  /\ closed /\ workq = <<>>
  /\ Turns(w, "idle", "exit")
  /\ UNCHANGED <<given, stage, workq, errors, log, closed, pwg, cur, taken, senderVars, outVars>>
-----------------------------------------------------------------------------
(***************************************************************************)
(* The goroutine that sends the subdirectories of d.                       *)
(***************************************************************************)
\* Mutant: a directory is sent without being counted.
CountForgotten(d) ==
  /\ sending[d] = "next" /\ left[d] # <<>>
  /\ sending' = [sending EXCEPT ![d] = "send"]
  /\ UNCHANGED <<given, stage, workq, errors, log, closed, pwg, workerVars, left, outVars>>

Count(d) ==
  /\ sending[d] = "next" /\ left[d] # <<>>
  /\ pwg' = pwg + 1
  /\ sending' = [sending EXCEPT ![d] = "send"]
  /\ UNCHANGED <<given, stage, workq, errors, log, closed, workerVars, left, outVars>>

Send(d) ==
  /\ sending[d] = "send"
  /\ Len(workq) < Cap
  /\ workq' = Append(workq, Head(left[d]))
  /\ left' = [left EXCEPT ![d] = Tail(@)]
  /\ sending' = [sending EXCEPT ![d] = "next"]
  /\ UNCHANGED <<given, stage, errors, log, closed, pwg, workerVars, outVars>>

Sent(d) ==
  /\ sending[d] = "next" /\ left[d] = <<>>
  /\ sending' = [sending EXCEPT ![d] = "no"]
  /\ pwg' = pwg - 1
  /\ UNCHANGED <<given, stage, workq, errors, log, closed, workerVars, left, outVars>>
-----------------------------------------------------------------------------
(***************************************************************************)
(* findLocalProjects: the goroutines that drain, and the main one.         *)
(***************************************************************************)
TakeError ==
  /\ errors # <<>>
  /\ multiErr' = multiErr \cup {Head(errors)}
  /\ errors' = Tail(errors)
  /\ UNCHANGED <<given, stage, workq, log, closed, pwg, workerVars, senderVars, found, warned>>

TakeWarning ==
  /\ log # <<>>
  /\ warned' = warned \cup {Head(log)}
  /\ log' = Tail(log)
  /\ UNCHANGED <<given, stage, workq, errors, closed, pwg, workerVars, senderVars, found, multiErr>>

\* pwg.Wait and the three closes.
Close ==
  /\ stage = "wait" /\ pwg = 0
  /\ stage' = "join" /\ closed' = TRUE
  /\ UNCHANGED <<given, workq, errors, log, pwg, workerVars, senderVars, outVars>>

\* wg.Wait: the drains and the workers have ended.
Collect ==
  /\ stage = "join" /\ errors = <<>> /\ log = <<>>
  /\ \A w \in Workers : doing[w] = "exit"
  /\ stage' = "done"
  /\ UNCHANGED <<given, workq, errors, log, closed, pwg, workerVars, senderVars, outVars>>
-----------------------------------------------------------------------------
ScanInit ==
  /\ top \in Tops /\ crew \in (SUBSET Workers) \ {{}}
  /\ stage = "wait"
  /\ workq = <<top>> /\ errors = <<>> /\ log = <<>> /\ closed = FALSE
  /\ pwg = 1
  /\ doing = [w \in Workers |-> IF w \in crew THEN "idle" ELSE "exit"]
  /\ cur = [w \in Workers |-> top] /\ taken = {}
  /\ left = [d \in Places |-> <<>>] /\ sending = [d \in Places |-> "no"]
  /\ found = {} /\ multiErr = {} /\ warned = {}

Worker(w) ==
  \/ Take(w) \/ Look(w) \/ Enter(w) \/ List(w) \/ SendError(w) \/ SendWarning(w)
  \/ Done(w) \/ Exit(w)

Sender(d) == Count(d) \/ Send(d) \/ Sent(d)

Finished == stage = "done" /\ UNCHANGED scanVars

ScanNext ==
  \/ \E w \in Workers : Worker(w)
  \/ \E d \in Places : Sender(d)
  \/ TakeError \/ TakeWarning \/ Close \/ Collect
  \/ Finished

ScanSpec == ScanInit /\ [][ScanNext]_scanVars

-----------------------------------------------------------------------------
\* The values the variables take; the counter is never negative, where Done panics.
ScanTypes ==
  /\ top \in Tops /\ crew \subseteq Workers
  /\ stage \in {"wait", "join", "done"} /\ closed \in BOOLEAN /\ pwg \in Nat
  /\ workq \in Seq(Places) /\ errors \in Seq(Places) /\ log \in Seq(Places)
  /\ doing \in [Workers -> {"idle", "look", "enter", "list", "error", "warn", "done", "exit"}]
  /\ cur \in [Workers -> Places] /\ taken \subseteq Places
  /\ left \in [Places -> Seq(Places)] /\ sending \in [Places -> {"no", "next", "send"}]
  /\ found \subseteq Places /\ multiErr \subseteq Places /\ warned \subseteq Places

Busy == {w \in Workers : doing[w] \notin {"idle", "exit"}}
Feeders == {d \in Places : sending[d] # "no"}

\* The WaitGroup counts the directories on the channel and on the way to it, the
\* workers that process one and the goroutines that send.
Counted ==
  pwg = Len(workq) + Cardinality(Busy) + Cardinality(Feeders)
        + Cardinality({d \in Places : sending[d] = "send"})

\* Once the channels are closed nothing is on its way to them: a send would panic.
QuietWhenClosed == closed => workq = <<>> /\ Busy = {} /\ Feeders = {}

\* The directories at which the scan goes no deeper whatever the order.
Barrier(d) == Kind[d] \in {"stale", "broken", "closed", "sealed"}

\* What a walk of the tree by one hand reaches: the least set with the root and, for each
\* directory but those, its subdirectories.
Reach ==
  {d \in Tree[top] : \A S \in SUBSET Tree[top] :
     top \in S /\ (\A e \in S : ~Barrier(e) => Range(Kids[e]) \subseteq S) => d \in S}

ProjectsIn(S) == {d \in S : IsProject(d)}

OneEach(S) == \A d, e \in ProjectsIn(S) : d # e => KeyOf[d] # KeyOf[e]

\* Where no two projects have one key the scan finds what a sequential walk finds: all
\* projects in their place and not below a stale or unreadable directory, with a
\* warning for each stale one and an error for each unreadable one.
Complete ==
  stage = "done" /\ OneEach(Reach) =>
    /\ found = ProjectsIn(Reach)
    /\ warned = {d \in Reach : Kind[d] = "stale"}
    /\ multiErr = {d \in Reach : Kind[d] \in {"broken", "closed", "sealed"}}

\* Two projects with one key are never both entered; one of them is, an error is
\* reported for such a project only if another is in the map with its key, or it is there
\* itself and cannot be listed, and a scan that returns no error has met no such pair.
Conflicts ==
  /\ OneEach(found) /\ found \subseteq ProjectsIn(Reach)
  /\ \A d \in ProjectsIn(multiErr) : \/ Kind[d] = "sealed" /\ d \in found
                                     \/ \E e \in found \ {d} : KeyOf[e] = KeyOf[d]
  /\ stage = "done" /\ multiErr = {} => found = ProjectsIn(Reach)

\* The scan finds what a walk by one hand finds (Complete); of two checkouts of one project
\* one is entered and the other reported (Conflicts); no send comes after the channels are
\* closed (QuietWhenClosed), their counter being what is left to do (Counted).
ScanRight == ScanTypes /\ Counted /\ QuietWhenClosed /\ Complete /\ Conflicts

\* The scan ends, however small the channels: no worker waits for a place that only
\* workers make.
Terminates == <>(stage = "done")
=============================================================================
