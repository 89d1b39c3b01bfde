------------------------------ MODULE PoolsProofs ------------------------------
(***************************************************************************)
(* What is proved about the scan for projects, for any tree of directories *)
(* and any number of workers.  The counter of the WaitGroup is exactly     *)
(* what is left to do (Counted), so that nothing is left when the channels *)
(* are closed; and since each directory has one parent it is handed out    *)
(* once (OneHand), so that what became of it (Outcome) is known for good.  *)
(*                                                                         *)
(* Then what is proved about the caches, for any projects, remotes, jobs,  *)
(* faults, kills, pushes and runs.  While one goroutine holds the mutex of *)
(* a cache no other is in it (Locked), so what that one found of the cache *)
(* stays true (Stage); and a project that is done finds in a cache not     *)
(* taken for a corrupted one what it came for (Served).                    *)
(*                                                                         *)
(* And what is proved about the hooks, for any hooks and attempts; about   *)
(* the analytics of a command, for any number of objects; and about the    *)
(* client of cipd, for any processes, packages, faults and kills.          *)
(***************************************************************************)
EXTENDS Pools, FiniteSetTheorems, SequenceTheorems, TLAPS

-----------------------------------------------------------------------------
(***************************************************************************)
(* The scan: the invariant.                                                *)
(***************************************************************************)
\* The directories that have been put on the channel.
Out == taken \cup Range(workq)

\* A worker has a directory and has not started to send what is below it.
LookedAt(d) == \E w \in Workers : doing[w] \in {"look", "enter", "list"} /\ cur[w] = d

\* A directory is on the channel, about to be sent or with a worker, once and in one of
\* these places; below one that has not been listed none has been handed out.
ToSend(d) ==
  /\ sending[d] = "no" => left[d] = <<>>
  /\ sending[d] = "send" => left[d] # <<>>
  /\ IsInjective(left[d])
  /\ Range(left[d]) \subseteq Range(Kids[d]) \ Out
  /\ d \notin taken \/ LookedAt(d) => sending[d] = "no" /\ Range(Kids[d]) \cap Out = {}
OneHand ==
  /\ \A w \in Busy : cur[w] \in taken
  /\ \A v, w \in Busy : cur[v] = cur[w] => v = w
  /\ IsInjective(workq) /\ Range(workq) \cap taken = {}
  /\ \A d \in Places : ToSend(d)

\* An error is due to the directory, or to a project with its key that was found before.
Failed(d) ==
  \/ Kind[d] \in {"broken", "closed"}
  \/ Kind[d] = "sealed" /\ d \in found
  \/ IsProject(d) /\ \E e \in found \ {d} : KeyOf[e] = KeyOf[d]

\* What a worker knows of its directory.
Known ==
  \A w \in Workers :
    /\ doing[w] \in {"look", "enter"} => cur[w] \notin found
    /\ doing[w] = "enter" => IsProject(cur[w])
    /\ doing[w] = "list" => Kind[cur[w]] \in {"none", "closed"} \/ (IsProject(cur[w]) /\ cur[w] \in found)
    /\ doing[w] = "warn" => Kind[cur[w]] = "stale"
    /\ doing[w] = "error" => Failed(cur[w])

\* What is found and reported is right.
Erred == Range(errors) \cup multiErr
Warned == Range(log) \cup warned
Right ==
  /\ found \subseteq ProjectsIn(taken) /\ OneEach(found)
  /\ \A d \in Erred : d \in taken /\ Failed(d)
  /\ \A d \in Warned : d \in taken /\ Kind[d] = "stale"

\* The scan stays where a walk by one hand would come.
Within == top \in Out /\ Out \subseteq Reach /\ \A d \in Places : Range(left[d]) \subseteq Reach

\* What has become of a directory that was taken.
Followed(d) == Range(Kids[d]) \subseteq Out \cup Range(left[d])
Outcome(d) ==
  \/ \E w \in Workers : doing[w] \in {"look", "enter", "list", "error", "warn"} /\ cur[w] = d
  \/ Kind[d] = "stale" /\ d \in Warned
  \/ d \in Erred
  \/ Kind[d] = "none" /\ Followed(d)
  \/ Kind[d] = "project" /\ d \in found /\ Followed(d)
Handled == \A d \in taken : Outcome(d)

\* The channels are closed once, when nothing is left; in the end they are empty.
Closing ==
  /\ closed <=> stage # "wait"
  /\ QuietWhenClosed
  /\ stage = "done" => errors = <<>> /\ log = <<>>

ScanInv == ScanTypes /\ Counted /\ OneHand /\ Known /\ Right /\ Within /\ Handled /\ Closing
-----------------------------------------------------------------------------
(***************************************************************************)
(* Sequences without repetition, and sets with one more or one less.       *)
(***************************************************************************)
LEMMA TailRange ==
  ASSUME NEW T, NEW s \in Seq(T), s # <<>>
  PROVE  /\ Tail(s) \in Seq(T) /\ Len(Tail(s)) = Len(s) - 1 /\ Len(s) \in Nat \ {0}
         /\ Head(s) \in Range(s) /\ Head(s) \in T /\ Range(s) = Range(Tail(s)) \cup {Head(s)}
         /\ IsInjective(s) => IsInjective(Tail(s)) /\ Head(s) \notin Range(Tail(s))
<1>1. /\ Tail(s) \in Seq(T) /\ Len(Tail(s)) = Len(s) - 1 /\ Len(s) \in Nat \ {0} /\ Head(s) = s[1]
      /\ DOMAIN s = 1..Len(s) /\ DOMAIN Tail(s) = 1..(Len(s) - 1)
      /\ \A i \in 1..(Len(s) - 1) : Tail(s)[i] = s[i + 1] /\ i + 1 \in 1..Len(s)
  OBVIOUS
<1>2. Range(s) = Range(Tail(s)) \cup {Head(s)}
  <2>1. \A i \in 1..Len(s) : i = 1 \/ (i - 1 \in 1..(Len(s) - 1) /\ s[i] = Tail(s)[i - 1])
    BY <1>1
  <2>2. \A i \in DOMAIN Tail(s) : Tail(s)[i] \in Range(s)
    BY <1>1 DEF Range
  <2>3. \A i \in DOMAIN s : s[i] \in Range(Tail(s)) \cup {Head(s)}
    BY <1>1, <2>1 DEF Range
  <2>4. Head(s) \in Range(s)
    BY <1>1 DEF Range
  <2> QED BY <2>2, <2>3, <2>4 DEF Range
<1>3. ASSUME IsInjective(s) PROVE IsInjective(Tail(s)) /\ Head(s) \notin Range(Tail(s))
  <2>1. \A i, j \in 1..(Len(s) - 1) : Tail(s)[i] = Tail(s)[j] => i = j
    BY <1>1, <1>3 DEF IsInjective
  <2>2. \A i \in 1..(Len(s) - 1) : Tail(s)[i] # s[1]
    BY <1>1, <1>3 DEF IsInjective
  <2> QED BY <1>1, <2>1, <2>2 DEF IsInjective, Range
<1>4. Head(s) \in T
  BY <1>1
<1> QED BY <1>1, <1>2, <1>3, <1>4

LEMMA AppendRange ==
  ASSUME NEW T, NEW s \in Seq(T), NEW x \in T
  PROVE  /\ Append(s, x) \in Seq(T) /\ Len(Append(s, x)) = Len(s) + 1 /\ Len(s) \in Nat
         /\ Append(s, x) # <<>> /\ Range(Append(s, x)) = Range(s) \cup {x}
         /\ IsInjective(s) /\ x \notin Range(s) => IsInjective(Append(s, x))
<1>1. /\ Append(s, x) \in Seq(T) /\ Len(Append(s, x)) = Len(s) + 1 /\ Len(s) \in Nat
      /\ DOMAIN s = 1..Len(s) /\ DOMAIN Append(s, x) = 1..(Len(s) + 1)
      /\ \A i \in 1..Len(s) : Append(s, x)[i] = s[i]
      /\ Append(s, x)[Len(s) + 1] = x
  OBVIOUS
<1>2. \A i \in 1..(Len(s) + 1) : i \in 1..Len(s) \/ i = Len(s) + 1
  BY <1>1
<1>3. Range(Append(s, x)) = Range(s) \cup {x}
  <2>1. Range(Append(s, x)) \subseteq Range(s) \cup {x}
    BY <1>1, <1>2 DEF Range
  <2>2. Range(s) \subseteq Range(Append(s, x))
    BY <1>1 DEF Range
  <2>3. x \in Range(Append(s, x))
    BY <1>1 DEF Range
  <2> QED BY <2>1, <2>2, <2>3
<1>4. ASSUME IsInjective(s), x \notin Range(s) PROVE IsInjective(Append(s, x))
  <2>1. \A i \in 1..Len(s) : s[i] # x
    BY <1>1, <1>4 DEF Range
  <2> QED BY <1>1, <1>2, <1>4, <2>1 DEF IsInjective
<1>5. Append(s, x) # <<>>
  BY <1>1
<1> QED BY <1>1, <1>3, <1>4, <1>5

LEMMA EmptyRange == Range(<<>>) = {} /\ IsInjective(<<>>)
BY DEF Range, IsInjective

LEMMA RangeIn == ASSUME NEW T, NEW s \in Seq(T) PROVE Range(s) \subseteq T
BY DEF Range

LEMMA Counts ==
  ASSUME NEW S, IsFiniteSet(S), NEW T, T \subseteq S
  PROVE  /\ Cardinality(T) \in Nat /\ (Cardinality(T) = 0 <=> T = {})
         /\ \A x \in S \ T : Cardinality(T \cup {x}) = Cardinality(T) + 1
         /\ \A x \in T : Cardinality(T \ {x}) = Cardinality(T) - 1
<1>1. IsFiniteSet(T)
  BY FS_Subset
<1> QED BY <1>1, FS_CardinalityType, FS_EmptySet, FS_AddElement, FS_RemoveElement
-----------------------------------------------------------------------------
(***************************************************************************)
(* The types, and the counter of the WaitGroup.                            *)
(***************************************************************************)
Looks(w) == Look(w) \/ Enter(w) \/ SendError(w) \/ SendWarning(w)
Drains == TakeError \/ TakeWarning

LEMMA CountedSets ==
  ASSUME ScanAssumption, ScanTypes
  PROVE  /\ Cardinality(Busy) \in Nat /\ Cardinality(Feeders) \in Nat
         /\ Cardinality({d \in Places : sending[d] = "send"}) \in Nat
         /\ Cardinality(Busy) = 0 <=> Busy = {}
         /\ Cardinality(Feeders) = 0 <=> Feeders = {}
         /\ Len(workq) \in Nat /\ (Len(workq) = 0 <=> workq = <<>>)
<1>1. IsFiniteSet(Places) /\ IsFiniteSet(Workers)
  BY DEF ScanAssumption
<1>2. Cardinality(Busy) \in Nat /\ (Cardinality(Busy) = 0 <=> Busy = {})
  BY <1>1, Counts DEF Busy
<1>3. Cardinality(Feeders) \in Nat /\ (Cardinality(Feeders) = 0 <=> Feeders = {})
  BY <1>1, Counts DEF Feeders
<1>4. Cardinality({d \in Places : sending[d] = "send"}) \in Nat
  BY <1>1, Counts
<1>5. workq \in Seq(Places)
  BY DEF ScanTypes
<1>6. Len(workq) \in Nat /\ (Len(workq) = 0 <=> workq = <<>>)
  BY <1>5
<1> QED BY <1>2, <1>3, <1>4, <1>6

LEMMA InitTypes ==
  ASSUME ScanAssumption, ScanInit
  PROVE  ScanTypes /\ Counted
<1>1. ScanTypes
  <2>1. top \in Tops /\ crew \subseteq Workers
    BY DEF ScanInit
  <2>2. top \in Places
    BY <2>1 DEF ScanAssumption
  <2>3. <<top>> \in Seq(Places) /\ <<>> \in Seq(Places)
    BY <2>2
  <2> QED BY <2>1, <2>2, <2>3 DEF ScanInit, ScanTypes
<1>2. Busy = {} /\ Feeders = {} /\ {d \in Places : sending[d] = "send"} = {} /\ Len(workq) = 1
  BY DEF ScanInit, Busy, Feeders
<1>3. Cardinality({}) = 0
  BY FS_EmptySet
<1>4. pwg = 1
  BY DEF ScanInit
<1> QED BY <1>1, <1>2, <1>3, <1>4 DEF Counted

\* A worker that ends its directory, or a goroutine that ends, was counted.
LEMMA PositiveCount ==
  ASSUME ScanAssumption, ScanTypes, Counted
  PROVE  /\ \A w \in Workers : doing[w] = "done" => pwg \in Nat \ {0}
         /\ \A d \in Places : sending[d] = "next" => pwg \in Nat \ {0}
         /\ pwg = 0 => workq = <<>> /\ Busy = {} /\ Feeders = {}
<1>1. \A w \in Workers : doing[w] = "done" => w \in Busy
  BY DEF Busy
<1>2. \A d \in Places : sending[d] = "next" => d \in Feeders
  BY DEF Feeders
<1> DEFINE Sending == {d \in Places : sending[d] = "send"}
<1>3. pwg = Len(workq) + Cardinality(Busy) + Cardinality(Feeders) + Cardinality(Sending)
  BY DEF Counted
<1>4. Cardinality(Sending) \in Nat
  BY CountedSets
<1> HIDE DEF Sending
<1> QED BY <1>1, <1>2, <1>3, <1>4, CountedSets

\* The scan stays with its root and its workers.
LEMMA Given ==
  ASSUME ScanNext
  PROVE  top' = top /\ crew' = crew /\ Reach' = Reach
<1>1. UNCHANGED given
  <2>1. ASSUME NEW w \in Workers, Worker(w) PROVE UNCHANGED given
    BY <2>1 DEF Worker, Take, Look, Enter, List, SendError, SendWarning, Done, Exit
  <2>2. ASSUME NEW d \in Places, Sender(d) PROVE UNCHANGED given
    BY <2>2 DEF Sender, Count, Send, Sent
  <2> QED BY <2>1, <2>2 DEF ScanNext, TakeError, TakeWarning, Close, Collect, Finished, scanVars, given
<1> QED BY <1>1 DEF given, Reach

LEMMA ScanTypesPreserved ==
  ASSUME ScanAssumption, ScanTypes, Counted, OneHand, ScanNext
  PROVE  ScanTypes'
<1>g. top' = top /\ crew' = crew
  BY Given
<1> USE <1>g DEF ScanTypes
<1>1. ASSUME NEW w \in Workers, Take(w) PROVE ScanTypes'
  BY <1>1, TailRange DEF Take, Turns, senderVars, outVars
<1>2. ASSUME NEW w \in Workers, Looks(w) PROVE ScanTypes'
  <2>1. CASE Look(w) \/ Enter(w)
    BY <2>1 DEF Look, Enter, Turns, senderVars, outVars
  <2>2. CASE SendError(w)
    BY <2>2, AppendRange DEF SendError, Turns, senderVars, outVars
  <2>3. CASE SendWarning(w)
    BY <2>3, AppendRange DEF SendWarning, Turns, senderVars, outVars
  <2> QED BY <1>2, <2>1, <2>2, <2>3 DEF Looks
<1>3. ASSUME NEW w \in Workers, List(w) PROVE ScanTypes'
  <2>1. cur[w] \in Places /\ Kids[cur[w]] \in Seq(Places)
    BY DEF ScanAssumption
  <2>2. pwg' \in Nat /\ left' \in [Places -> Seq(Places)]
    <3>1. pwg + 1 \in Nat /\ [left EXCEPT ![cur[w]] = Kids[cur[w]]] \in [Places -> Seq(Places)]
      BY <2>1
    <3> QED BY <1>3, <3>1 DEF List, senderVars
  <2>3. doing' = [doing EXCEPT ![w] = "error"] \/ doing' = [doing EXCEPT ![w] = "done"]
    BY <1>3 DEF List, Turns
  <2>4. sending' = sending \/ sending' = [sending EXCEPT ![cur[w]] = "next"]
    BY <1>3 DEF List, senderVars
  <2>5. doing' \in [Workers -> {"idle", "look", "enter", "list", "error", "warn", "done", "exit"}]
    BY <2>3
  <2>6. sending' \in [Places -> {"no", "next", "send"}]
    BY <2>1, <2>4
  <2>7. UNCHANGED <<given, stage, workq, errors, log, closed, cur, taken, outVars>>
    BY <1>3 DEF List
  <2> QED BY <2>2, <2>5, <2>6, <2>7 DEF outVars
<1>4. ASSUME NEW w \in Workers, Done(w) \/ Exit(w) PROVE ScanTypes'
  <2>1. Done(w) => pwg - 1 \in Nat
    BY PositiveCount DEF Done, Turns
  <2> QED BY <1>4, <2>1 DEF Done, Exit, Turns, senderVars, outVars
<1>5. ASSUME NEW d \in Places, Sender(d) PROVE ScanTypes'
  <2>1. CASE Count(d)
    BY <2>1 DEF Count, workerVars, outVars
  <2>2. CASE Send(d)
    <3>0. Head(left[d]) \in Places /\ Tail(left[d]) \in Seq(Places)
      BY <2>2, TailRange DEF Send, OneHand, ToSend
    <3> QED BY <2>2, <3>0, AppendRange DEF Send, workerVars, outVars
  <2>3. CASE Sent(d)
    <3>1. pwg - 1 \in Nat
      BY <2>3, PositiveCount DEF Sent
    <3> QED BY <2>3, <3>1 DEF Sent, workerVars, outVars
  <2> QED BY <1>5, <2>1, <2>2, <2>3 DEF Sender
<1>6. CASE Drains
  <2>1. CASE TakeError
    <3>1. Head(errors) \in Places /\ Tail(errors) \in Seq(Places)
      BY <2>1, TailRange DEF TakeError
    <3> QED BY <2>1, <3>1 DEF TakeError, workerVars, senderVars
  <2>2. CASE TakeWarning
    <3>1. Head(log) \in Places /\ Tail(log) \in Seq(Places)
      BY <2>2, TailRange DEF TakeWarning
    <3> QED BY <2>2, <3>1 DEF TakeWarning, workerVars, senderVars
  <2> QED BY <1>6, <2>1, <2>2 DEF Drains
<1>7. CASE Close \/ Collect \/ Finished
  BY <1>7 DEF Close, Collect, Finished, scanVars, workerVars, senderVars, outVars
<1> QED BY <1>1, <1>2, <1>3, <1>4, <1>5, <1>6, <1>7 DEF ScanNext, Worker, Looks, Drains

LEMMA CountedPreserved ==
  ASSUME ScanAssumption, ScanTypes, Counted, OneHand, ScanNext
  PROVE  Counted'
<1> DEFINE Sending == {d \in Places : sending[d] = "send"}
<1>0. /\ Cardinality(Busy) \in Nat /\ Cardinality(Feeders) \in Nat /\ Cardinality(Sending) \in Nat
      /\ Len(workq) \in Nat /\ IsFiniteSet(Places) /\ IsFiniteSet(Workers)
      /\ Busy \subseteq Workers /\ Feeders \subseteq Places /\ Sending \subseteq Places
  BY CountedSets DEF ScanAssumption, Busy, Feeders
<1>t. workq \in Seq(Places) /\ left \in [Places -> Seq(Places)] /\ cur \in [Workers -> Places]
      /\ doing \in [Workers -> {"idle", "look", "enter", "list", "error", "warn", "done", "exit"}]
      /\ sending \in [Places -> {"no", "next", "send"}]
  BY DEF ScanTypes
<1>b. /\ \A w \in Workers \ Busy : Cardinality(Busy \cup {w}) = Cardinality(Busy) + 1
      /\ \A w \in Busy : Cardinality(Busy \ {w}) = Cardinality(Busy) - 1
  BY <1>0, Counts
<1>s. /\ \A d \in Places \ Feeders : Cardinality(Feeders \cup {d}) = Cardinality(Feeders) + 1
      /\ \A d \in Feeders : Cardinality(Feeders \ {d}) = Cardinality(Feeders) - 1
      /\ \A d \in Places \ Sending : Cardinality(Sending \cup {d}) = Cardinality(Sending) + 1
      /\ \A d \in Sending : Cardinality(Sending \ {d}) = Cardinality(Sending) - 1
  BY <1>0, Counts
<1>c. pwg = Len(workq) + Cardinality(Busy) + Cardinality(Feeders) + Cardinality(Sending)
  BY DEF Counted
<1>d. ASSUME pwg' = Len(workq') + Cardinality(Busy') + Cardinality(Feeders') + Cardinality(Sending')
      PROVE  Counted'
  BY <1>d DEF Counted
<1>9. Sending' = {d \in Places : sending'[d] = "send"} /\ Sending = {d \in Places : sending[d] = "send"}
  OBVIOUS
<1> HIDE DEF Sending
<1>1. ASSUME NEW w \in Workers, Take(w) PROVE Counted'
  <2>1. w \notin Busy /\ Busy' = Busy \cup {w}
    BY <1>t, <1>1 DEF Take, Turns, Busy
  <2>2. Feeders' = Feeders /\ Sending' = Sending /\ pwg' = pwg
    BY <1>9, <1>t, <1>1 DEF Take, Feeders, senderVars
  <2>3. Len(workq') = Len(workq) - 1
    BY <1>t, <1>1, TailRange DEF Take
  <2> QED BY <1>0, <1>b, <1>c, <1>d, <2>1, <2>2, <2>3
<1>2. ASSUME NEW w \in Workers, Looks(w) PROVE Counted'
  <2>1. Busy' = Busy
    BY <1>t, <1>2 DEF Looks, Look, Enter, SendError, SendWarning, Turns, Busy
  <2>2. Feeders' = Feeders /\ Sending' = Sending /\ pwg' = pwg /\ workq' = workq
    BY <1>9, <1>t, <1>2 DEF Looks, Look, Enter, SendError, SendWarning, Feeders, senderVars
  <2> QED BY <1>c, <1>d, <2>1, <2>2
<1>3. ASSUME NEW w \in Workers, List(w) PROVE Counted'
  <2>1. Busy' = Busy /\ workq' = workq
    BY <1>t, <1>3 DEF List, Turns, Busy
  <2>2. CASE UNCHANGED <<pwg, senderVars>>
    <3>1. Feeders' = Feeders /\ Sending' = Sending /\ pwg' = pwg
      BY <1>9, <2>2 DEF Feeders, senderVars
    <3> QED BY <1>c, <1>d, <2>1, <3>1
  <2>3. CASE pwg' = pwg + 1 /\ sending' = [sending EXCEPT ![cur[w]] = "next"]
    <3>1. sending[cur[w]] = "no" /\ cur[w] \in Places
      BY <1>t, <1>3 DEF OneHand, ToSend, LookedAt, List, Turns, Busy
    <3>2. Feeders' = Feeders \cup {cur[w]} /\ cur[w] \in Places \ Feeders /\ Sending' = Sending
      BY <1>9, <1>t, <2>3, <3>1 DEF Feeders
    <3> QED BY <1>0, <1>s, <1>c, <1>d, <2>1, <2>3, <3>2
  <2> QED BY <1>3, <2>2, <2>3 DEF List
<1>4. ASSUME NEW w \in Workers, Done(w) PROVE Counted'
  <2>1. w \in Busy /\ Busy' = Busy \ {w}
    BY <1>t, <1>4 DEF Done, Turns, Busy
  <2>2. Feeders' = Feeders /\ Sending' = Sending /\ pwg' = pwg - 1 /\ workq' = workq
    BY <1>9, <1>t, <1>4 DEF Done, Feeders, senderVars
  <2>3. Cardinality(Busy') = Cardinality(Busy) - 1
    BY <1>b, <2>1
  <2> QED BY <1>0, <1>c, <1>d, <2>2, <2>3
<1>5. ASSUME NEW w \in Workers, Exit(w) PROVE Counted'
  <2>1. Busy' = Busy
    BY <1>t, <1>5 DEF Exit, Turns, Busy
  <2>2. Feeders' = Feeders /\ Sending' = Sending /\ pwg' = pwg /\ workq' = workq
    BY <1>9, <1>t, <1>5 DEF Exit, Feeders, senderVars
  <2> QED BY <1>c, <1>d, <2>1, <2>2
<1>6. ASSUME NEW d \in Places, Sender(d) PROVE Counted'
  <2>0. Busy' = Busy
    BY <1>t, <1>6 DEF Sender, Count, Send, Sent, workerVars, Busy
  <2>1. CASE Count(d)
    <3>1. Feeders' = Feeders /\ Sending' = Sending \cup {d} /\ d \in Places \ Sending
          /\ pwg' = pwg + 1 /\ workq' = workq
      BY <1>9, <1>t, <2>1 DEF Count, Feeders
    <3> QED BY <1>0, <1>s, <1>c, <1>d, <2>0, <3>1
  <2>2. CASE Send(d)
    <3>1. Feeders' = Feeders /\ Sending' = Sending \ {d} /\ d \in Sending /\ pwg' = pwg
      BY <1>9, <1>t, <2>2 DEF Send, Feeders
    <3>2. Len(workq') = Len(workq) + 1
      <4>1. Head(left[d]) \in Places
        BY <1>t, <2>2, TailRange DEF Send, OneHand, ToSend
      <4> QED BY <1>t, <2>2, <4>1, AppendRange DEF Send
    <3> QED BY <1>0, <1>s, <1>c, <1>d, <2>0, <3>1, <3>2
  <2>3. CASE Sent(d)
    <3>1. Feeders' = Feeders \ {d} /\ d \in Feeders /\ Sending' = Sending
          /\ pwg' = pwg - 1 /\ workq' = workq
      BY <1>9, <1>t, <2>3 DEF Sent, Feeders
    <3>2. Cardinality(Feeders') = Cardinality(Feeders) - 1
      BY <1>s, <3>1
    <3> QED BY <1>0, <1>c, <1>d, <2>0, <3>1, <3>2
  <2> QED BY <1>6, <2>1, <2>2, <2>3 DEF Sender
<1>7. CASE Drains \/ Close \/ Collect \/ Finished
  <2>1. Busy' = Busy /\ Feeders' = Feeders /\ Sending' = Sending /\ pwg' = pwg /\ workq' = workq
    BY <1>9, <1>t, <1>7 DEF Drains, TakeError, TakeWarning, Close, Collect, Finished, scanVars, workerVars, senderVars, Busy, Feeders
  <2> QED BY <1>c, <1>d, <2>1
<1> QED BY <1>1, <1>2, <1>3, <1>4, <1>5, <1>6, <1>7 DEF ScanNext, Worker, Looks, Drains
-----------------------------------------------------------------------------
(***************************************************************************)
(* Each directory is in one hand.                                          *)
(***************************************************************************)
LEMMA Parents ==
  ASSUME ScanAssumption, NEW d \in Places
  PROVE  /\ Kids[d] \in Seq(Places) /\ IsInjective(Kids[d]) /\ Range(Kids[d]) \subseteq Places
         /\ \A e \in Places : d # e => Range(Kids[d]) \cap Range(Kids[e]) = {}
<1>1. Kids[d] \in Seq(Places)
  BY DEF ScanAssumption
<1> QED BY <1>1, RangeIn DEF ScanAssumption

LEMMA Taken ==
  ASSUME ScanTypes, OneHand, NEW w \in Workers, Take(w)
  PROVE  /\ w \notin Busy /\ Busy' = Busy \cup {w} /\ doing[w] = "idle" /\ doing'[w] = "look"
         /\ cur'[w] = Head(workq) /\ cur'[w] \in Places \ taken /\ taken' = taken \cup {cur'[w]}
         /\ \A v \in Workers \ {w} : doing'[v] = doing[v] /\ cur'[v] = cur[v]
         /\ IsInjective(workq') /\ Range(workq') \cap taken' = {} /\ Out' = Out
         /\ UNCHANGED <<given, stage, errors, log, closed, pwg, sending, left, found, multiErr, warned>>
<1>1. workq \in Seq(Places) /\ workq # <<>> /\ IsInjective(workq) /\ Range(workq) \cap taken = {}
  BY DEF ScanTypes, OneHand, Take
<1>2. /\ Head(workq) \in Range(workq) /\ Head(workq) \in Places
      /\ Range(workq) = Range(Tail(workq)) \cup {Head(workq)}
      /\ IsInjective(Tail(workq)) /\ Head(workq) \notin Range(Tail(workq))
  BY <1>1, TailRange
<1>3. /\ doing[w] = "idle" /\ doing' = [doing EXCEPT ![w] = "look"] /\ cur' = [cur EXCEPT ![w] = Head(workq)]
      /\ workq' = Tail(workq) /\ taken' = taken \cup {Head(workq)}
  BY DEF Take, Turns
<1>4. DOMAIN doing = Workers /\ DOMAIN cur = Workers
  BY DEF ScanTypes
<1>5. /\ doing'[w] = "look" /\ cur'[w] = Head(workq)
      /\ \A v \in Workers \ {w} : doing'[v] = doing[v] /\ cur'[v] = cur[v]
  BY <1>3, <1>4
<1>6. w \notin Busy /\ Busy' = Busy \cup {w}
  BY <1>3, <1>5 DEF Busy
<1>7. UNCHANGED <<given, stage, errors, log, closed, pwg, sending, left, found, multiErr, warned>>
  BY DEF Take, senderVars, outVars
<1> QED BY <1>1, <1>2, <1>3, <1>5, <1>6, <1>7 DEF Out

LEMMA Handed ==
  ASSUME ScanAssumption, ScanTypes, OneHand, NEW d \in Places, Send(d)
  PROVE  LET x == Head(left[d]) IN
         /\ x \in Range(left[d]) /\ x \in Range(Kids[d]) \ Out /\ x \in Places
         /\ sending[d] = "send" /\ sending'[d] = "next"
         /\ Range(left[d]) = Range(left'[d]) \cup {x} /\ x \notin Range(left'[d]) /\ IsInjective(left'[d])
         /\ \A e \in Places \ {d} : left'[e] = left[e] /\ sending'[e] = sending[e]
         /\ IsInjective(workq') /\ Range(workq') = Range(workq) \cup {x} /\ Out' = Out \cup {x}
         /\ UNCHANGED <<given, stage, errors, log, closed, pwg, doing, cur, taken, found, multiErr, warned>>
<1> DEFINE x == Head(left[d])
<1>1. /\ left[d] \in Seq(Places) /\ left[d] # <<>> /\ IsInjective(left[d]) /\ sending[d] = "send"
      /\ Range(left[d]) \subseteq Range(Kids[d]) \ Out
  BY DEF ScanTypes, OneHand, ToSend, Send
<1>2. /\ x \in Range(left[d]) /\ x \in Places /\ Range(left[d]) = Range(Tail(left[d])) \cup {x}
      /\ x \notin Range(Tail(left[d])) /\ IsInjective(Tail(left[d]))
  BY <1>1, TailRange
<1>3. /\ workq' = Append(workq, x) /\ left' = [left EXCEPT ![d] = Tail(left[d])]
      /\ sending' = [sending EXCEPT ![d] = "next"]
      /\ UNCHANGED <<given, stage, errors, log, closed, pwg, doing, cur, taken, found, multiErr, warned>>
  BY DEF Send, workerVars, outVars
<1>4. DOMAIN left = Places /\ DOMAIN sending = Places /\ workq \in Seq(Places) /\ IsInjective(workq)
  BY DEF ScanTypes, OneHand
<1>5. /\ left'[d] = Tail(left[d]) /\ sending'[d] = "next"
      /\ \A e \in Places \ {d} : left'[e] = left[e] /\ sending'[e] = sending[e]
  BY <1>3, <1>4
<1>6. x \notin Range(workq)
  BY <1>1, <1>2 DEF Out
<1>7. IsInjective(workq') /\ Range(workq') = Range(workq) \cup {x}
  BY <1>2, <1>3, <1>4, <1>6, AppendRange
<1> QED BY <1>1, <1>2, <1>3, <1>5, <1>7 DEF Out

\* A worker that goes on within a directory: nothing is handed out.
LEMMA GoesOn ==
  ASSUME ScanTypes, NEW w \in Workers, Looks(w) \/ List(w) \/ Done(w) \/ Exit(w)
  PROVE  /\ UNCHANGED <<cur, taken, workq, stage, closed, log, warned, multiErr>>
            \/ UNCHANGED <<cur, taken, workq, stage, closed, errors, warned, multiErr>>
         /\ \A v \in Workers \ {w} : doing'[v] = doing[v]
         /\ doing[w] = "idle" => doing'[w] = "exit"
         /\ Busy' \subseteq Busy /\ Out' = Out
         /\ \A d \in Places : LookedAt(d)' => LookedAt(d)
<1>1. /\ UNCHANGED <<cur, taken, workq, stage, closed, log, warned, multiErr>>
         \/ UNCHANGED <<cur, taken, workq, stage, closed, errors, warned, multiErr>>
  BY DEF Looks, Look, Enter, SendError, SendWarning, List, Done, Exit, outVars
<1>2. \E here, there \in {"idle", "look", "enter", "list", "error", "warn", "done", "exit"} :
        /\ Turns(w, here, there)
        /\ here = "idle" => there = "exit"
        /\ there \in {"look", "enter", "list"} => here \in {"look", "enter"}
        /\ there \in {"error", "warn", "done"} => here \notin {"idle", "exit"}
  BY DEF Looks, Look, Enter, SendError, SendWarning, List, Done, Exit
<1>3. PICK here, there \in {"idle", "look", "enter", "list", "error", "warn", "done", "exit"} :
        /\ Turns(w, here, there)
        /\ here = "idle" => there = "exit"
        /\ there \in {"look", "enter", "list"} => here \in {"look", "enter"}
        /\ there \in {"error", "warn", "done"} => here \notin {"idle", "exit"}
  BY <1>2
<1>4. doing[w] = here /\ doing'[w] = there /\ \A v \in Workers \ {w} : doing'[v] = doing[v]
  BY <1>3 DEF Turns, ScanTypes
<1>5. Busy' \subseteq Busy
  BY <1>3, <1>4 DEF Busy
<1>6. ASSUME NEW d \in Places, LookedAt(d)' PROVE LookedAt(d)
  <2>1. PICK v \in Workers : doing'[v] \in {"look", "enter", "list"} /\ cur'[v] = d
    BY <1>6 DEF LookedAt
  <2>2. doing[v] \in {"look", "enter", "list"} /\ cur[v] = d
    BY <1>1, <1>3, <1>4, <2>1
  <2> QED BY <2>2 DEF LookedAt
<1>7. Out' = Out
  BY <1>1 DEF Out
<1> QED BY <1>1, <1>3, <1>4, <1>5, <1>6, <1>7

LEMMA OneHandPreserved ==
  ASSUME ScanAssumption, ScanTypes, OneHand, ScanNext
  PROVE  OneHand'
<1>0. \A d \in Places : ToSend(d)
  BY DEF OneHand
<1>1. ASSUME NEW w \in Workers, Take(w) PROVE OneHand'
  <2>1. \A v \in Busy' : cur'[v] \in taken'
    BY <1>1, Taken DEF OneHand, Busy
  <2>2. \A u, v \in Busy' : cur'[u] = cur'[v] => u = v
    <3>1. \A v \in Busy : cur'[v] = cur[v] /\ cur'[v] \in taken /\ cur'[w] \notin taken
      BY <1>1, Taken DEF OneHand, Busy
    <3>2. \A u, v \in Busy : cur[u] = cur[v] => u = v
      BY DEF OneHand
    <3> QED BY <1>1, <3>1, <3>2, Taken
  <2>3. ASSUME NEW d \in Places PROVE ToSend(d)'
    <3>1. ToSend(d) /\ Out' = Out /\ left' = left /\ sending' = sending
      BY <1>0, <1>1, Taken
    <3>2. ASSUME d \notin taken' \/ LookedAt(d)' PROVE d \notin taken \/ LookedAt(d)
      <4>1. CASE LookedAt(d)'
        <5>1. PICK v \in Workers : doing'[v] \in {"look", "enter", "list"} /\ cur'[v] = d
          BY <4>1 DEF LookedAt
        <5>2. CASE v = w
          BY <1>1, <5>1, <5>2, Taken
        <5>3. CASE v # w
          BY <1>1, <5>1, <5>3, Taken DEF LookedAt
        <5> QED BY <5>2, <5>3
      <4> QED BY <1>1, <3>2, <4>1, Taken
    <3> QED BY <3>1, <3>2 DEF ToSend
  <2> QED BY <1>1, <2>1, <2>2, <2>3, Taken DEF OneHand
<1>2. ASSUME NEW w \in Workers, Looks(w) \/ Done(w) \/ Exit(w) \/ (List(w) /\ UNCHANGED senderVars)
      PROVE  OneHand'
  <2>1. UNCHANGED <<cur, taken, workq, left, sending>>
    BY <1>2, GoesOn DEF Looks, Look, Enter, SendError, SendWarning, Done, Exit, senderVars
  <2>2. Busy' \subseteq Busy /\ Out' = Out /\ \A d \in Places : LookedAt(d)' => LookedAt(d)
    BY <1>2, GoesOn
  <2>3. ASSUME NEW d \in Places PROVE ToSend(d)'
    BY <1>0, <2>1, <2>2 DEF ToSend
  <2> QED BY <2>1, <2>2, <2>3 DEF OneHand
<1>3. ASSUME NEW w \in Workers, List(w), ~UNCHANGED senderVars
      PROVE  OneHand'
  <2> DEFINE x == cur[w]
  <2>1. /\ doing[w] = "list" /\ doing'[w] = "done" /\ x \in Places
        /\ left' = [left EXCEPT ![x] = Kids[x]] /\ sending' = [sending EXCEPT ![x] = "next"]
        /\ w \in Busy
    BY <1>3 DEF List, Turns, ScanTypes, Busy
  <2>2. UNCHANGED <<cur, taken, workq>> /\ Busy' \subseteq Busy /\ Out' = Out
        /\ \A d \in Places : LookedAt(d)' => LookedAt(d)
    BY <1>3, GoesOn
  <2>3. x \in taken /\ ~LookedAt(x)'
    <3>1. x \in taken /\ \A v \in Busy : cur[v] = x => v = w
      BY <2>1 DEF OneHand
    <3>2. \A v \in Workers : doing'[v] \in {"look", "enter", "list"} => v \in Busy
      BY <2>2 DEF Busy
    <3> QED BY <2>1, <2>2, <3>1, <3>2 DEF LookedAt
  <2>4. Range(Kids[x]) \cap Out = {}
    BY <1>0, <2>1 DEF ToSend, LookedAt
  <2>5. ASSUME NEW d \in Places PROVE ToSend(d)'
    <3>1. CASE d = x
      <4>1. left'[d] = Kids[d] /\ sending'[d] = "next" /\ IsInjective(Kids[d])
        BY <2>1, <3>1, Parents DEF ScanTypes
      <4> QED BY <2>2, <2>3, <2>4, <3>1, <4>1 DEF ToSend
    <3>2. CASE d # x
      <4>1. left'[d] = left[d] /\ sending'[d] = sending[d]
        BY <2>1, <3>2 DEF ScanTypes
      <4> QED BY <1>0, <2>2, <4>1 DEF ToSend
    <3> QED BY <3>1, <3>2
  <2> QED BY <2>2, <2>5 DEF OneHand
<1>4. ASSUME NEW x \in Places, Send(x) PROVE OneHand'
  <2> DEFINE y == Head(left[x])
  <2>1. /\ y \in Range(left[x]) /\ y \in Range(Kids[x]) \ Out /\ y \in Places
        /\ sending[x] = "send" /\ sending'[x] = "next"
        /\ Range(left[x]) = Range(left'[x]) \cup {y} /\ y \notin Range(left'[x]) /\ IsInjective(left'[x])
        /\ \A e \in Places \ {x} : left'[e] = left[e] /\ sending'[e] = sending[e]
        /\ IsInjective(workq') /\ Range(workq') = Range(workq) \cup {y} /\ Out' = Out \cup {y}
        /\ UNCHANGED <<doing, cur, taken>>
    BY <1>4, Handed
  <2>2. Busy' = Busy /\ \A d : LookedAt(d)' <=> LookedAt(d)
    BY <2>1 DEF Busy, LookedAt
  <2>3. ASSUME NEW d \in Places PROVE ToSend(d)'
    <3>1. CASE d = x
      BY <1>0, <2>1, <2>2, <3>1 DEF ToSend
    <3>2. CASE d # x
      <4>1. y \notin Range(Kids[d]) /\ left'[d] = left[d] /\ sending'[d] = sending[d]
        BY <2>1, <3>2, Parents
      <4> QED BY <1>0, <2>1, <2>2, <4>1 DEF ToSend
    <3> QED BY <3>1, <3>2
  <2>4. Range(workq') \cap taken' = {}
    BY <2>1 DEF OneHand, Out
  <2> QED BY <2>1, <2>2, <2>3, <2>4 DEF OneHand
<1>5. ASSUME NEW x \in Places, Count(x) \/ Sent(x) PROVE OneHand'
  <2>1. /\ sending[x] = "next" /\ sending'[x] \in {"send", "no"}
        /\ sending'[x] = "send" => left[x] # <<>>
        /\ sending'[x] = "no" => left[x] = <<>>
        /\ \A e \in Places \ {x} : sending'[e] = sending[e]
        /\ UNCHANGED <<workq, doing, cur, taken, left>>
    BY <1>5 DEF Count, Sent, workerVars, ScanTypes
  <2>2. Busy' = Busy /\ Out' = Out /\ \A d : LookedAt(d)' <=> LookedAt(d)
    BY <2>1 DEF Busy, LookedAt, Out
  <2>3. ASSUME NEW d \in Places PROVE ToSend(d)'
    BY <1>0, <2>1, <2>2 DEF ToSend
  <2> QED BY <2>1, <2>2, <2>3 DEF OneHand
<1>6. CASE Drains \/ Close \/ Collect \/ Finished
  <2>1. UNCHANGED <<workq, doing, cur, taken, left, sending>>
    BY <1>6 DEF Drains, TakeError, TakeWarning, Close, Collect, Finished, scanVars, workerVars, senderVars
  <2>2. Busy' = Busy /\ Out' = Out /\ \A d : LookedAt(d)' <=> LookedAt(d)
    BY <2>1 DEF Busy, LookedAt, Out
  <2>3. ASSUME NEW d \in Places PROVE ToSend(d)'
    BY <1>0, <2>1, <2>2 DEF ToSend
  <2> QED BY <2>1, <2>2, <2>3 DEF OneHand
<1> QED BY <1>1, <1>2, <1>3, <1>4, <1>5, <1>6 DEF ScanNext, Worker, Sender, Looks, Drains
-----------------------------------------------------------------------------
(***************************************************************************)
(* What workers know, and what is found and reported.                      *)
(***************************************************************************)
LEMMA FoundGrows == ASSUME ScanTypes, ScanNext PROVE found \subseteq found' /\ taken \subseteq taken'
<1>1. \A w \in Workers : Worker(w) => found \subseteq found' /\ taken \subseteq taken'
  BY DEF Worker, Take, Look, Enter, List, SendError, SendWarning, Done, Exit, outVars
<1>2. \A d \in Places : Sender(d) => found \subseteq found' /\ taken \subseteq taken'
  BY DEF Sender, Count, Send, Sent, outVars, workerVars
<1> QED BY <1>1, <1>2 DEF ScanNext, TakeError, TakeWarning, Close, Collect, Finished, scanVars, outVars, workerVars

LEMMA FailedStays == ASSUME ScanTypes, ScanNext, NEW d \in Places, Failed(d) PROVE Failed(d)'
BY FoundGrows DEF Failed

LEMMA KnownPreserved ==
  ASSUME ScanAssumption, ScanTypes, OneHand, Known, Right, ScanNext
  PROVE  Known'
<1> DEFINE K(w) ==
      /\ doing[w] \in {"look", "enter"} => cur[w] \notin found
      /\ doing[w] = "enter" => IsProject(cur[w])
      /\ doing[w] = "list" => Kind[cur[w]] \in {"none", "closed"} \/ (IsProject(cur[w]) /\ cur[w] \in found)
      /\ doing[w] = "warn" => Kind[cur[w]] = "stale"
      /\ doing[w] = "error" => Failed(cur[w])
<1>0. \A w \in Workers : K(w) /\ cur[w] \in Places
  BY DEF Known, ScanTypes
<1>1. ASSUME NEW w \in Workers, doing'[w] = doing[w], cur'[w] = cur[w], found' = found PROVE K(w)'
  BY <1>0, <1>1 DEF Failed
<1>2. ASSUME NEW w \in Workers, Worker(w), ~Enter(w) PROVE Known'
  <2>1. found' = found /\ \A v \in Workers \ {w} : doing'[v] = doing[v] /\ cur'[v] = cur[v]
    <3>1. CASE Take(w)
      BY <3>1, Taken
    <3>2. CASE ~Take(w)
      BY <1>2, <3>2, GoesOn DEF Worker, Looks, Look, List, SendError, SendWarning, Done, Exit, outVars
    <3> QED BY <3>1, <3>2
  <2>2. K(w)'
    <3>1. CASE Take(w)
      <4>1. doing'[w] = "look" /\ cur'[w] \notin taken
        BY <3>1, Taken
      <4> QED BY <2>1, <4>1 DEF Right, ProjectsIn
    <3>2. CASE Look(w)
      <4>1. cur'[w] = cur[w] /\ doing[w] = "look" /\ cur[w] \in Places
        BY <3>2 DEF Look, Turns, ScanTypes
      <4>2. \/ Kind[cur[w]] = "broken" /\ doing'[w] = "error"
            \/ Kind[cur[w]] = "stale" /\ doing'[w] = "warn"
            \/ IsProject(cur[w]) /\ doing'[w] = "enter"
            \/ Kind[cur[w]] \in {"none", "closed"} /\ doing'[w] = "list"
        BY <3>2 DEF Look, Turns, ScanTypes
      <4> QED BY <1>0, <2>1, <4>1, <4>2 DEF Failed
    <3>3. CASE List(w)
      <4>1. cur' = cur
        BY <3>3 DEF List
      <4>2. Turns(w, "list", "done") \/ (~IsListed(cur[w]) /\ Turns(w, "list", "error"))
        BY <3>3 DEF List
      <4>3. doing'[w] = "done" \/ (~IsListed(cur[w]) /\ doing[w] = "list" /\ doing'[w] = "error")
        BY <4>2 DEF Turns, ScanTypes
      <4>4. ~IsListed(cur[w]) /\ doing[w] = "list" => Failed(cur[w])
        BY <1>0 DEF IsListed, IsProject, Failed
      <4> QED BY <2>1, <4>1, <4>3, <4>4 DEF Failed
    <3>4. CASE SendError(w) \/ SendWarning(w) \/ Done(w) \/ Exit(w)
      <4>1. doing'[w] \in {"done", "idle", "exit"}
        BY <3>4 DEF SendError, SendWarning, Done, Exit, Turns, ScanTypes
      <4> QED BY <4>1
    <3> QED BY <1>2, <3>1, <3>2, <3>3, <3>4 DEF Worker
  <2>3. \A v \in Workers : K(v)'
    BY <1>1, <2>1, <2>2
  <2> QED BY <2>3 DEF Known
<1>3. ASSUME NEW w \in Workers, Enter(w) PROVE Known'
  <2>1. /\ cur' = cur /\ doing[w] = "enter" /\ w \in Busy /\ cur[w] \in Places
        /\ \A v \in Workers \ {w} : doing'[v] = doing[v]
    BY <1>3 DEF Enter, Turns, ScanTypes, Busy
  <2>2. \/ KeyOf[cur[w]] \in Found /\ doing'[w] = "error" /\ found' = found
        \/ doing'[w] = "list" /\ found' = found \cup {cur[w]}
    BY <1>3 DEF Enter, Turns, ScanTypes
  <2>3. K(w)'
    <3>1. CASE KeyOf[cur[w]] \in Found /\ doing'[w] = "error" /\ found' = found
      <4>1. IsProject(cur[w]) /\ cur[w] \notin found
        BY <1>0, <2>1
      <4>2. Failed(cur[w])
        BY <3>1, <4>1 DEF Failed, Found
      <4> QED BY <2>1, <3>1, <4>2 DEF Failed
    <3>2. CASE doing'[w] = "list" /\ found' = found \cup {cur[w]}
      BY <1>0, <2>1, <3>2
    <3> QED BY <2>2, <3>1, <3>2
  <2>4. ASSUME NEW v \in Workers, v # w PROVE K(v)'
    <3>1. doing'[v] = doing[v] /\ cur'[v] = cur[v] /\ (Failed(cur[v]) => Failed(cur[v])')
      BY <1>0, <2>1, <2>4, FailedStays
    <3>2. doing[v] \in {"look", "enter"} => cur[v] # cur[w]
      BY <2>1, <2>4 DEF OneHand, Busy
    <3> QED BY <1>0, <2>1, <2>2, <3>1, <3>2
  <2> QED BY <2>3, <2>4 DEF Known
<1>4. ASSUME UNCHANGED <<doing, cur, found>> PROVE Known'
  <2>1. \A v \in Workers : K(v)'
    BY <1>1, <1>4
  <2> QED BY <2>1 DEF Known
<1>5. (\E d \in Places : Sender(d)) \/ TakeError \/ TakeWarning \/ Close \/ Collect \/ Finished
      => UNCHANGED <<doing, cur, found>>
  BY DEF Sender, Count, Send, Sent, TakeError, TakeWarning, Close, Collect, Finished, scanVars, workerVars, outVars
<1> QED BY <1>2, <1>3, <1>4, <1>5 DEF ScanNext

\* A report is sent by the worker that has the directory, and is received.
LEMMA Reports ==
  ASSUME ScanTypes, ScanNext
  PROVE  /\ Erred' = Erred \/ \E w \in Workers : SendError(w) /\ Erred' = Erred \cup {cur[w]}
         /\ Warned' = Warned \/ \E w \in Workers : SendWarning(w) /\ Warned' = Warned \cup {cur[w]}
<1>0. errors \in Seq(Places) /\ log \in Seq(Places)
  BY DEF ScanTypes
<1>1. ASSUME NEW w \in Workers, SendError(w) PROVE Erred' = Erred \cup {cur[w]} /\ Warned' = Warned
  <2>1. cur[w] \in Places
    BY DEF ScanTypes
  <2>2. Range(errors') = Range(errors) \cup {cur[w]}
    BY <1>0, <1>1, <2>1, AppendRange DEF SendError
  <2> QED BY <1>1, <2>2 DEF SendError, outVars, Erred, Warned
<1>2. ASSUME NEW w \in Workers, SendWarning(w) PROVE Warned' = Warned \cup {cur[w]} /\ Erred' = Erred
  <2>1. cur[w] \in Places
    BY DEF ScanTypes
  <2>2. Range(log') = Range(log) \cup {cur[w]}
    BY <1>0, <1>2, <2>1, AppendRange DEF SendWarning
  <2> QED BY <1>2, <2>2 DEF SendWarning, outVars, Erred, Warned
<1>3. ASSUME TakeError PROVE Erred' = Erred /\ Warned' = Warned
  <2>1. Range(errors) = Range(errors') \cup {Head(errors)}
    BY <1>0, <1>3, TailRange DEF TakeError
  <2> QED BY <1>3, <2>1 DEF TakeError, Erred, Warned
<1>4. ASSUME TakeWarning PROVE Erred' = Erred /\ Warned' = Warned
  <2>1. Range(log) = Range(log') \cup {Head(log)}
    BY <1>0, <1>4, TailRange DEF TakeWarning
  <2> QED BY <1>4, <2>1 DEF TakeWarning, Erred, Warned
<1>5. ASSUME UNCHANGED <<errors, multiErr, log, warned>> PROVE Erred' = Erred /\ Warned' = Warned
  BY <1>5 DEF Erred, Warned
<1>6. \A w \in Workers :
        Take(w) \/ Look(w) \/ Enter(w) \/ List(w) \/ Done(w) \/ Exit(w) => UNCHANGED <<errors, multiErr, log, warned>>
  BY DEF Take, Look, Enter, List, Done, Exit, outVars
<1>7. (\E d \in Places : Sender(d)) \/ Close \/ Collect \/ Finished => UNCHANGED <<errors, multiErr, log, warned>>
  BY DEF Sender, Count, Send, Sent, Close, Collect, Finished, scanVars, outVars
<1> QED BY <1>1, <1>2, <1>3, <1>4, <1>5, <1>6, <1>7 DEF ScanNext, Worker

LEMMA RightPreserved ==
  ASSUME ScanAssumption, ScanTypes, OneHand, Known, Right, ScanNext
  PROVE  Right'
<1>1. found' \subseteq ProjectsIn(taken') /\ OneEach(found')
  <2>1. CASE found' = found
    <3>1. taken \subseteq taken'
      BY FoundGrows
    <3> QED BY <2>1, <3>1 DEF Right, ProjectsIn, OneEach
  <2>2. CASE found' # found
    <3>1. PICK w \in Workers : Enter(w)
      BY <2>2 DEF ScanNext, Worker, Take, Look, List, SendError, SendWarning, Done, Exit, Sender, Count, Send, Sent,
             TakeError, TakeWarning, Close, Collect, Finished, scanVars, outVars
    <3>2. /\ KeyOf[cur[w]] \notin Found /\ found' = found \cup {cur[w]} /\ taken' = taken
          /\ IsProject(cur[w]) /\ cur[w] \in taken
      BY <2>2, <3>1 DEF Enter, Turns, Known, OneHand, Busy
    <3>3. \A e \in found : KeyOf[e] # KeyOf[cur[w]]
      BY <3>2 DEF Found
    <3> QED BY <3>2, <3>3 DEF Right, ProjectsIn, OneEach
  <2> QED BY <2>1, <2>2
<1>2. ASSUME NEW d \in Erred' PROVE d \in taken' /\ Failed(d)'
  <2>1. d \in taken /\ Failed(d)
    <3>1. CASE d \in Erred
      BY <3>1 DEF Right
    <3>2. ASSUME NEW w \in Workers, SendError(w), d = cur[w] PROVE d \in taken /\ Failed(d)
      BY <3>2 DEF SendError, Turns, Known, OneHand, Busy
    <3> QED BY <3>1, <3>2, Reports
  <2> QED BY <2>1, FailedStays, FoundGrows DEF ScanTypes
<1>3. ASSUME NEW d \in Warned' PROVE d \in taken' /\ Kind[d] = "stale"
  <2>1. d \in taken /\ Kind[d] = "stale"
    <3>1. CASE d \in Warned
      BY <3>1 DEF Right
    <3>2. ASSUME NEW w \in Workers, SendWarning(w), d = cur[w] PROVE d \in taken /\ Kind[d] = "stale"
      BY <3>2 DEF SendWarning, Turns, Known, OneHand, Busy
    <3> QED BY <3>1, <3>2, Reports
  <2> QED BY <2>1, FoundGrows
<1> QED BY <1>1, <1>2, <1>3 DEF Right
-----------------------------------------------------------------------------
(***************************************************************************)
(* What is reached, and what becomes of it.                                *)
(***************************************************************************)
LEMMA ReachIsLeast ==
  ASSUME ScanAssumption, top \in Tops
  PROVE  /\ Reach \subseteq Tree[top] /\ Tree[top] \subseteq Places /\ top \in Reach
         /\ \A d \in Reach : ~Barrier(d) => Range(Kids[d]) \subseteq Reach
         /\ \A S \in SUBSET Tree[top] :
              top \in S /\ (\A e \in S : ~Barrier(e) => Range(Kids[e]) \subseteq S) => Reach \subseteq S
<1>1. Tree[top] \subseteq Places /\ top \in Tree[top] /\ \A d \in Tree[top] : Range(Kids[d]) \subseteq Tree[top]
  BY DEF ScanAssumption
<1>2. Reach \subseteq Tree[top] /\ top \in Reach
  BY <1>1 DEF Reach
<1>3. ASSUME NEW d \in Reach, ~Barrier(d) PROVE Range(Kids[d]) \subseteq Reach
  <2>1. ASSUME NEW e \in Range(Kids[d]), NEW S \in SUBSET Tree[top],
               top \in S, \A x \in S : ~Barrier(x) => Range(Kids[x]) \subseteq S
        PROVE  e \in S
    <3>1. d \in S
      BY <2>1 DEF Reach
    <3> QED BY <1>3, <2>1, <3>1
  <2>2. Range(Kids[d]) \subseteq Tree[top]
    BY <1>1, <1>2
  <2> QED BY <2>1, <2>2 DEF Reach
<1>4. ASSUME NEW S \in SUBSET Tree[top], top \in S, \A e \in S : ~Barrier(e) => Range(Kids[e]) \subseteq S
      PROVE  Reach \subseteq S
  BY <1>4 DEF Reach
<1> QED BY <1>1, <1>2, <1>3, <1>4

\* What is handed out, and what is left to send, changes by Send and List only.
LEMMA WayOut ==
  ASSUME ScanAssumption, ScanTypes, OneHand, ScanNext
  PROVE  \/ Out' = Out /\ left' = left
         \/ \E d \in Places : Send(d)
         \/ \E w \in Workers :
              /\ IsListed(cur[w]) /\ doing[w] = "list" /\ Out' = Out
              /\ left' = [left EXCEPT ![cur[w]] = Kids[cur[w]]]
<1>1. ASSUME NEW w \in Workers, Take(w) PROVE Out' = Out /\ left' = left
  BY <1>1, Taken
<1>2. ASSUME NEW w \in Workers, Looks(w) \/ Done(w) \/ Exit(w) PROVE Out' = Out /\ left' = left
  BY <1>2, GoesOn DEF Looks, Look, Enter, SendError, SendWarning, Done, Exit, senderVars
<1>3. ASSUME NEW w \in Workers, List(w)
      PROVE  \/ Out' = Out /\ left' = left
             \/ /\ IsListed(cur[w]) /\ doing[w] = "list" /\ Out' = Out
                /\ left' = [left EXCEPT ![cur[w]] = Kids[cur[w]]]
  <2>1. Out' = Out
    BY <1>3, GoesOn
  <2> QED BY <1>3, <2>1 DEF List, Turns, senderVars
<1>4. (\E d \in Places : Count(d) \/ Sent(d)) \/ TakeError \/ TakeWarning \/ Close \/ Collect \/ Finished
      => Out' = Out /\ left' = left
  BY DEF Count, Sent, TakeError, TakeWarning, Close, Collect, Finished, scanVars, workerVars, senderVars, Out
<1> QED BY <1>1, <1>2, <1>3, <1>4 DEF ScanNext, Worker, Sender, Looks

LEMMA WithinPreserved ==
  ASSUME ScanAssumption, ScanTypes, OneHand, Known, Right, Within, ScanNext
  PROVE  Within'
<1>1. CASE Out' = Out /\ left' = left
  BY <1>1, Given DEF Within
<1>2. ASSUME NEW x \in Places, Send(x) PROVE Within'
  <2>1. /\ Head(left[x]) \in Range(left[x]) /\ Range(left'[x]) \subseteq Range(left[x])
        /\ \A e \in Places \ {x} : left'[e] = left[e]
        /\ Out' = Out \cup {Head(left[x])}
    BY <1>2, Handed
  <2> QED BY <2>1, Given DEF Within
<1>3. ASSUME NEW w \in Workers, IsListed(cur[w]), doing[w] = "list", Out' = Out,
             left' = [left EXCEPT ![cur[w]] = Kids[cur[w]]]
      PROVE  Within'
  <2>1. cur[w] \in Reach /\ ~Barrier(cur[w])
    BY <1>3 DEF Known, Right, ProjectsIn, OneHand, Busy, Within, Out, Barrier, IsListed, IsProject
  <2>2. Range(Kids[cur[w]]) \subseteq Reach
    BY <2>1, ReachIsLeast DEF ScanTypes
  <2>3. \A d \in Places : left'[d] = left[d] \/ left'[d] = Kids[cur[w]]
    BY <1>3 DEF ScanTypes
  <2> QED BY <1>3, <2>2, <2>3, Given DEF Within
<1> QED BY <1>1, <1>2, <1>3, WayOut

LEMMA FollowedStays ==
  ASSUME ScanAssumption, ScanTypes, OneHand, ScanNext, NEW d \in Places, Followed(d)
  PROVE  Followed(d)'
<1>1. CASE Out' = Out /\ left' = left
  BY <1>1 DEF Followed
<1>2. ASSUME NEW x \in Places, Send(x) PROVE Followed(d)'
  <2>1. /\ Range(left[x]) \subseteq Range(left'[x]) \cup Out'
        /\ \A e \in Places \ {x} : left'[e] = left[e]
        /\ Out \subseteq Out'
    BY <1>2, Handed
  <2> QED BY <2>1 DEF Followed
<1>3. ASSUME NEW w \in Workers, Out' = Out, left' = [left EXCEPT ![cur[w]] = Kids[cur[w]]]
      PROVE  Followed(d)'
  <2>1. left'[d] = left[d] \/ left'[d] = Kids[d]
    BY <1>3 DEF ScanTypes
  <2> QED BY <1>3, <2>1 DEF Followed
<1> QED BY <1>1, <1>2, <1>3, WayOut

LEMMA HandledPreserved ==
  ASSUME ScanAssumption, ScanTypes, OneHand, Known, Handled, ScanNext
  PROVE  Handled'
<1> DEFINE AtWork(d, w) == doing[w] \in {"look", "enter", "list", "error", "warn"} /\ cur[w] = d
<1>1. taken \subseteq Places /\ Erred \subseteq Erred' /\ Warned \subseteq Warned' /\ found \subseteq found'
  BY Reports, FoundGrows DEF ScanTypes
\* What has an outcome keeps it, and so does what another worker is at.
<1>2. ASSUME NEW d \in taken, \A w \in Workers : AtWork(d, w) => AtWork(d, w)' \/ Outcome(d)'
      PROVE  Outcome(d)'
  <2>1. CASE \E w \in Workers : AtWork(d, w)
    BY <1>2, <2>1 DEF Outcome
  <2>2. CASE ~\E w \in Workers : AtWork(d, w)
    <3>1. \/ (Kind[d] = "stale" /\ d \in Warned) \/ d \in Erred
          \/ (Kind[d] = "none" \/ (Kind[d] = "project" /\ d \in found)) /\ Followed(d)
      BY <2>2 DEF Handled, Outcome
    <3> QED BY <1>1, <3>1, FollowedStays DEF Outcome
  <2> QED BY <2>1, <2>2
<1>3. ASSUME NEW x \in Workers, Take(x) PROVE Handled'
  <2>1. ASSUME NEW d \in taken PROVE Outcome(d)'
    <3>1. \A w \in Workers : AtWork(d, w) => AtWork(d, w)'
      BY <1>3, Taken
    <3> QED BY <1>2, <3>1
  <2>2. ASSUME NEW d, d = cur'[x] PROVE Outcome(d)'
    BY <1>3, <2>2, Taken DEF Outcome
  <2> QED BY <1>3, <2>1, <2>2, Taken DEF Handled
<1>4. ASSUME NEW x \in Workers, Looks(x) \/ List(x) \/ Done(x) \/ Exit(x) PROVE Handled'
  <2>0. taken' = taken /\ cur' = cur /\ \A v \in Workers \ {x} : doing'[v] = doing[v]
    BY <1>4, GoesOn
  <2>1. cur[x] \in Places /\ doing \in [Workers -> {"idle", "look", "enter", "list", "error", "warn", "done", "exit"}]
    BY DEF ScanTypes
  <2>2. ASSUME NEW d \in taken, AtWork(d, x) PROVE AtWork(d, x)' \/ Outcome(d)'
    <3>1. CASE Look(x) \/ Enter(x)
      BY <2>0, <2>1, <2>2, <3>1 DEF Look, Enter, Turns
    <3>2. CASE List(x)
      <4>1. CASE Turns(x, "list", "error")
        BY <2>0, <2>1, <2>2, <4>1 DEF Turns
      <4>2. CASE ~Turns(x, "list", "error")
        <5>1. IsListed(d) /\ left' = [left EXCEPT ![d] = Kids[d]] /\ doing[x] = "list" /\ found' = found
          BY <2>2, <3>2, <4>2 DEF List, Turns, outVars
        <5>2. left'[d] = Kids[d]
          BY <2>1, <2>2, <5>1 DEF ScanTypes
        <5>3. Kind[d] = "none" \/ (Kind[d] = "project" /\ d \in found')
          BY <2>2, <5>1 DEF Known, IsListed, IsProject
        <5> QED BY <5>2, <5>3 DEF Outcome, Followed
      <4> QED BY <4>1, <4>2
    <3>3. CASE SendError(x)
      <4>1. d \in Erred'
        <5>1. Range(errors') = Range(errors) \cup {d}
          BY <2>1, <2>2, <3>3, AppendRange DEF SendError, ScanTypes
        <5> QED BY <5>1 DEF Erred
      <4> QED BY <4>1 DEF Outcome
    <3>4. CASE SendWarning(x)
      <4>1. d \in Warned'
        <5>1. Range(log') = Range(log) \cup {d}
          BY <2>1, <2>2, <3>4, AppendRange DEF SendWarning, ScanTypes
        <5> QED BY <5>1 DEF Warned
      <4>2. Kind[d] = "stale"
        BY <2>2, <3>4 DEF SendWarning, Turns, Known
      <4> QED BY <4>1, <4>2 DEF Outcome
    <3>5. CASE Done(x) \/ Exit(x)
      BY <2>2, <3>5 DEF Done, Exit, Turns
    <3> QED BY <1>4, <3>1, <3>2, <3>3, <3>4, <3>5 DEF Looks
  <2>3. ASSUME NEW d \in taken PROVE Outcome(d)'
    <3>1. \A w \in Workers : AtWork(d, w) => AtWork(d, w)' \/ Outcome(d)'
      BY <2>0, <2>2
    <3> QED BY <1>2, <3>1
  <2> QED BY <2>0, <2>3 DEF Handled
<1>5. ASSUME UNCHANGED <<doing, cur, taken>> PROVE Handled'
  <2>1. ASSUME NEW d \in taken PROVE Outcome(d)'
    BY <1>2, <1>5
  <2> QED BY <1>5, <2>1 DEF Handled
<1>6. (\E d \in Places : Sender(d)) \/ TakeError \/ TakeWarning \/ Close \/ Collect \/ Finished
      => UNCHANGED <<doing, cur, taken>>
  BY DEF Sender, Count, Send, Sent, TakeError, TakeWarning, Close, Collect, Finished, scanVars, workerVars
<1> QED BY <1>3, <1>4, <1>5, <1>6 DEF ScanNext, Worker, Looks

LEMMA ClosingPreserved ==
  ASSUME ScanAssumption, ScanTypes, Counted, Closing, ScanNext
  PROVE  Closing'
<1>1. CASE ~closed /\ ~Close
  <2>1. stage = "wait" /\ stage' = "wait" /\ closed' = closed
    <3>1. stage = "wait"
      BY <1>1 DEF Closing
    <3> QED BY <1>1, <3>1 DEF ScanNext, Worker, Take, Look, Enter, List, SendError, SendWarning, Done, Exit, Sender,
               Count, Send, Sent, TakeError, TakeWarning, Collect, Finished, scanVars
  <2> QED BY <1>1, <2>1 DEF Closing, QuietWhenClosed
<1>2. CASE ~closed /\ Close
  <2>1. workq = <<>> /\ Busy = {} /\ Feeders = {}
    BY <1>2, PositiveCount DEF Close
  <2>2. Busy' = Busy /\ Feeders' = Feeders /\ workq' = workq /\ stage' = "join" /\ closed'
    BY <1>2 DEF Close, Busy, Feeders, workerVars, senderVars
  <2> QED BY <2>1, <2>2 DEF Closing, QuietWhenClosed
<1>3. CASE closed
  <2>0. workq = <<>> /\ Busy = {} /\ Feeders = {} /\ stage # "wait" /\ (stage = "done" => errors = <<>> /\ log = <<>>)
    BY <1>3 DEF Closing, QuietWhenClosed
  <2>1. ASSUME NEW w \in Workers, Worker(w) PROVE Closing'
    <3>1. doing[w] \in {"idle", "exit"}
      BY <2>0 DEF Busy
    <3>2. Exit(w)
      BY <2>0, <2>1, <3>1 DEF Worker, Take, Look, Enter, List, SendError, SendWarning, Done, Turns
    <3>3. Busy' \subseteq Busy
      BY <3>2, GoesOn
    <3>4. Feeders' = Feeders /\ UNCHANGED <<workq, stage, closed, errors, log>>
      BY <3>2 DEF Exit, senderVars, Feeders
    <3> QED BY <1>3, <2>0, <3>3, <3>4 DEF Closing, QuietWhenClosed
  <2>2. \A d \in Places : ~Sender(d)
    BY <2>0 DEF Sender, Count, Send, Sent, Feeders
  <2>3. CASE TakeError \/ TakeWarning \/ Collect \/ Finished
    <3>1. UNCHANGED <<workq, closed, doing, sending>> /\ stage' # "wait"
      BY <2>0, <2>3 DEF TakeError, TakeWarning, Collect, Finished, scanVars, workerVars, senderVars
    <3>2. Busy' = Busy /\ Feeders' = Feeders
      BY <3>1 DEF Busy, Feeders
    <3>3. stage' = "done" => errors' = <<>> /\ log' = <<>>
      BY <2>0, <2>3 DEF TakeError, TakeWarning, Collect, Finished, scanVars
    <3> QED BY <1>3, <2>0, <3>1, <3>2, <3>3 DEF Closing, QuietWhenClosed
  <2> QED BY <2>0, <2>1, <2>2, <2>3 DEF ScanNext, Close
<1> QED BY <1>1, <1>2, <1>3 DEF ScanTypes
-----------------------------------------------------------------------------
(***************************************************************************)
(* The theorems about the scan.                                            *)
(***************************************************************************)
LEMMA ScanStarts == ASSUME ScanAssumption, ScanInit PROVE ScanInv
<1>1. ScanTypes /\ Counted
  BY InitTypes
<1>2. Range(<<top>>) = {top} /\ IsInjective(<<top>>) /\ Out = {top} /\ top \in Places /\ top \in Tops
  <2>1. Range(<<top>>) = {top} /\ IsInjective(<<top>>)
    BY DEF Range, IsInjective
  <2>2. top \in Tops
    BY DEF ScanInit
  <2> QED BY <2>1, <2>2 DEF ScanInit, Out, ScanAssumption
<1>3. Busy = {}
  BY DEF ScanInit, Busy
<1>4. OneHand
  <2>1. ASSUME NEW d \in Places PROVE ToSend(d)
    <3>1. left[d] = <<>> /\ sending[d] = "no"
      BY DEF ScanInit
    <3>2. top \notin Range(Kids[d])
      BY <1>2 DEF ScanAssumption
    <3> QED BY <1>2, <3>1, <3>2, Parents, EmptyRange DEF ToSend
  <2> QED BY <1>2, <1>3, <2>1 DEF OneHand, ScanInit
<1>5. Known /\ Right /\ Handled
  BY EmptyRange DEF ScanInit, Known, Right, Handled, Erred, Warned, ProjectsIn, OneEach
<1>6. Within
  BY <1>2, ReachIsLeast, EmptyRange DEF Within, ScanInit
<1>7. Closing
  BY DEF ScanInit, Closing, QuietWhenClosed
<1> QED BY <1>1, <1>4, <1>5, <1>6, <1>7 DEF ScanInv

LEMMA ScanInvariance == ASSUME ScanAssumption PROVE ScanSpec => []ScanInv
<1>1. ScanInit => ScanInv
  BY ScanStarts
<1>2. ScanInv /\ [ScanNext]_scanVars => ScanInv'
  <2> SUFFICES ASSUME ScanInv, [ScanNext]_scanVars PROVE ScanInv'
    OBVIOUS
  <2>1. CASE ScanNext
    BY <2>1, ScanTypesPreserved, CountedPreserved, OneHandPreserved, KnownPreserved, RightPreserved, WithinPreserved,
       HandledPreserved, ClosingPreserved DEF ScanInv
  <2>2. CASE UNCHANGED scanVars
    <3>1. UNCHANGED <<top, crew, stage, workq, errors, log, closed, pwg, doing, cur, taken, left, sending, found, multiErr, warned>>
      BY <2>2 DEF scanVars
    <3>2. ScanTypes' /\ Counted'
      BY <3>1 DEF ScanInv, ScanTypes, Counted, Busy, Feeders
    <3>3. OneHand' /\ Known' /\ Right' /\ Closing'
      BY <3>1 DEF ScanInv, OneHand, ToSend, Busy, Out, LookedAt, Known, Failed, Right, Erred, Warned, Closing, QuietWhenClosed, Feeders
    <3>4. Within' /\ Handled'
      BY <3>1 DEF ScanInv, Within, Reach, Out, Handled, Outcome, Followed, Erred, Warned
    <3> QED BY <3>2, <3>3, <3>4 DEF ScanInv
  <2> QED BY <2>1, <2>2
<1> QED BY <1>1, <1>2, PTL DEF ScanSpec

\* The variables keep their types, the counter of the WaitGroup is never negative, and it is
\* what is left to do.
THEOREM ScanTypesHold == ASSUME ScanAssumption PROVE ScanSpec => [](ScanTypes /\ Counted)
<1>1. ScanInv => ScanTypes /\ Counted
  BY DEF ScanInv
<1> QED BY <1>1, ScanInvariance, PTL

\* When findLocalProjects closes its channels nothing is in them or on the way to them: no
\* worker is busy and no goroutine has still to send, however many there are.
THEOREM ClosedWhenQuiet == ASSUME ScanAssumption PROVE ScanSpec => []QuietWhenClosed
<1>1. ScanInv => QuietWhenClosed
  BY DEF ScanInv, Closing
<1> QED BY <1>1, ScanInvariance, PTL

\* In the end everything a walk by one hand reaches has been taken, and has come to its end.
LEMMA AllTaken ==
  ASSUME ScanAssumption, ScanInv, stage = "done"
  PROVE  /\ \/ \E d \in ProjectsIn(multiErr), e \in found : d # e /\ KeyOf[d] = KeyOf[e]
            \/ taken = Reach
         /\ taken \subseteq Reach /\ Erred = multiErr /\ Warned = warned
         /\ \A d \in taken : \/ (Kind[d] = "stale" /\ d \in warned) \/ d \in multiErr
                             \/ Kind[d] = "none" \/ (Kind[d] = "project" /\ d \in found)
<1>1. workq = <<>> /\ Busy = {} /\ Feeders = {} /\ errors = <<>> /\ log = <<>>
  BY DEF ScanInv, Closing, QuietWhenClosed
<1>2. Out = taken /\ Erred = multiErr /\ Warned = warned /\ taken \subseteq Places
  BY <1>1, EmptyRange DEF Out, Erred, Warned, ScanInv, ScanTypes
<1>3. \A d \in Places : Range(left[d]) = {}
  BY <1>1, EmptyRange DEF ScanInv, OneHand, ToSend, Feeders
<1>4. ASSUME NEW d \in taken
      PROVE  \/ (Kind[d] = "stale" /\ d \in warned) \/ d \in multiErr
             \/ (Kind[d] = "none" \/ (Kind[d] = "project" /\ d \in found)) /\ Range(Kids[d]) \subseteq taken
  <2>1. \A w \in Workers : doing[w] \notin {"look", "enter", "list", "error", "warn"}
    BY <1>1 DEF Busy
  <2> QED BY <1>2, <1>3, <2>1 DEF ScanInv, Handled, Outcome, Followed
<1>5. ASSUME \A d \in ProjectsIn(multiErr), e \in found : d # e => KeyOf[d] # KeyOf[e] PROVE Reach \subseteq taken
  <2>1. \A d \in multiErr : Kind[d] \in {"broken", "closed", "sealed"}
    BY <1>2, <1>5 DEF ScanInv, Right, Failed, ProjectsIn
  <2>2. \A d \in taken : ~Barrier(d) => Range(Kids[d]) \subseteq taken
    BY <1>4, <2>1 DEF Barrier
  <2>3. top \in taken /\ taken \subseteq Reach /\ top \in Tops
    BY <1>2 DEF ScanInv, Within, ScanTypes
  <2>4. taken \subseteq Tree[top]
    BY <2>3, ReachIsLeast
  <2> QED BY <2>2, <2>3, <2>4, ReachIsLeast
<1> QED BY <1>2, <1>4, <1>5 DEF ScanInv, Within

\* Where no two projects have one key findLocalProjects finds what a walk by one hand finds,
\* warns of each stale project and returns an error for each that cannot be read.
THEOREM ScanIsComplete == ASSUME ScanAssumption PROVE ScanSpec => []Complete
<1>1. ASSUME ScanInv, stage = "done", OneEach(Reach)
      PROVE  /\ found = ProjectsIn(Reach)
             /\ warned = {d \in Reach : Kind[d] = "stale"}
             /\ multiErr = {d \in Reach : Kind[d] \in {"broken", "closed", "sealed"}}
  <2>1. found \subseteq ProjectsIn(taken) /\ taken \subseteq Reach /\ Erred = multiErr /\ Warned = warned
    BY <1>1, AllTaken DEF ScanInv, Right
  <2>2. \A d \in multiErr : d \in taken /\ Failed(d)
    BY <1>1, <2>1 DEF ScanInv, Right
  <2>3. \A d \in ProjectsIn(Reach), e \in found : d # e => KeyOf[d] # KeyOf[e]
    BY <1>1, <2>1 DEF OneEach, ProjectsIn
  <2>4. \A d \in multiErr : Kind[d] \in {"broken", "closed", "sealed"}
    BY <2>1, <2>2, <2>3 DEF Failed, ProjectsIn
  <2>5. taken = Reach
    BY <1>1, <2>1, <2>2, <2>3, AllTaken DEF ProjectsIn
  <2>6. \A d \in warned : d \in taken /\ Kind[d] = "stale"
    BY <1>1, <2>1 DEF ScanInv, Right
  <2>7. \A d \in Reach : (Kind[d] = "stale" /\ d \in warned) \/ d \in multiErr \/ Kind[d] = "none"
          \/ (Kind[d] = "project" /\ d \in found)
    BY <1>1, <2>5, AllTaken
  <2>8. found = ProjectsIn(Reach)
    <3>1. \A d \in ProjectsIn(Reach) : d \in multiErr /\ Kind[d] = "sealed" => d \in found
      BY <2>1, <2>2, <2>3 DEF Failed, ProjectsIn
    <3>2. \A d \in ProjectsIn(Reach) : Kind[d] = "project" => d \in found
      BY <2>4, <2>7 DEF ProjectsIn
    <3>3. \A d \in ProjectsIn(Reach) : Kind[d] = "sealed" => d \in found
      BY <2>7, <3>1 DEF ProjectsIn
    <3> QED BY <2>1, <2>5, <3>2, <3>3 DEF ProjectsIn, IsProject
  <2>9. warned = {d \in Reach : Kind[d] = "stale"}
    BY <2>4, <2>5, <2>6, <2>7, <2>8 DEF ProjectsIn, IsProject
  <2>10. multiErr = {d \in Reach : Kind[d] \in {"broken", "closed", "sealed"}}
    BY <2>2, <2>4, <2>5, <2>7, <2>8 DEF ProjectsIn, IsProject
  <2> QED BY <2>8, <2>9, <2>10
<1>2. ScanInv => Complete
  BY <1>1 DEF Complete
<1> QED BY <1>2, ScanInvariance, PTL

\* Of several projects with one key at most one is entered, in its place; an error is
\* returned for such a project only if another one was entered, or if it was entered itself
\* and cannot be listed; and a scan without an error has entered all there are.
THEOREM TwinsAreReported == ASSUME ScanAssumption PROVE ScanSpec => []Conflicts
<1>1. ASSUME ScanInv PROVE Conflicts
  <2>1. OneEach(found) /\ found \subseteq ProjectsIn(Reach)
    BY <1>1 DEF ScanInv, Right, Within, Out, ProjectsIn
  <2>2. \A d \in ProjectsIn(multiErr) :
          \/ Kind[d] = "sealed" /\ d \in found
          \/ \E e \in found \ {d} : KeyOf[e] = KeyOf[d]
    BY <1>1 DEF ScanInv, Right, Erred, Failed, ProjectsIn, IsProject
  <2>3. ASSUME stage = "done", multiErr = {} PROVE found = ProjectsIn(Reach)
    <3>1. taken = Reach
      BY <1>1, <2>3, AllTaken DEF ProjectsIn
    <3>2. \A d \in Reach : IsProject(d) => d \in found
      BY <1>1, <2>3, <3>1, AllTaken DEF IsProject
    <3> QED BY <2>1, <3>2 DEF ProjectsIn
  <2> QED BY <2>1, <2>2, <2>3 DEF Conflicts
<1> QED BY <1>1, ScanInvariance, PTL

\* findLocalProjects does what a walk by one hand would do, whatever the root, the tree below
\* it and the number of workers.
THEOREM ScanIsRight == ASSUME ScanAssumption PROVE ScanSpec => []ScanRight
BY ScanTypesHold, ClosedWhenQuiet, ScanIsComplete, TwinsAreReported, PTL DEF ScanRight

USE CacheAssumption
-----------------------------------------------------------------------------
(***************************************************************************)
(* The caches: the invariant.                                              *)
(***************************************************************************)
Engaged == {p \in Projects : pc[p] \notin {"todo", "done"}}

\* Whoever is in a cache holds its mutex, and no other.
Locked ==
  /\ main = "loop" => \A p \in Projects : pc[p] \in Inside => lock[Dir[p]] = {p}
  /\ \A d \in Dirs : \A p \in lock[d] : Dir[p] = d

\* A branch only grows; a cache has what its remote has, and a torn one nothing.
Grown ==
  /\ \A p \in Projects : began[p] <= tip[p] /\ has[p] \subseteq 1 .. tip[p]
  /\ \A p \in Projects : dir[Dir[p]] \in {"absent", "broken"} => has[p] = {}

\* What a goroutine knows of its cache.
Stage ==
  main = "loop" => \A p \in Projects :
    /\ pc[p] \in {"refspec", "fetch", "config"} => dir[Dir[p]] = "made"
    /\ pc[p] = "url" => dir[Dir[p]] = "stripped"
    /\ pc[p] = "clone" => dir[Dir[p]] = "absent"
    /\ pc[p] = "clear" => Dir[p] \in suspect \/ dir[Dir[p]] # "made"

\* A cache is whole, if only for the goroutine that is about to set its remote.origin.
Whole(d) ==
  \/ dir[d] = "made"
  \/ dir[d] = "stripped" /\ main = "loop" /\ \E q \in Projects : Dir[q] = d /\ pc[q] = "url"

\* A project finds in the cache what it is to check out.
Served(p) ==
  \/ Dir[p] \in suspect
  \/ /\ Whole(Dir[p])
     /\ IF p \in Pinned THEN Dir[p] \in Shallow \/ 1 \in has[p]
        ELSE \E r \in has[p] : r >= began[p]

ServedWhenDone ==
  /\ main \in {"loop", "returned"} /\ ~errs => \A p \in Projects : pc[p] \in {"unlock", "done"} => Served(p)
  /\ main = "returned" => \A p \in Projects : pc[p] = "done"

\* A cache without its remote.origin is being given one, or something has gone wrong.
Origins == \A d \in Dirs : dir[d] = "stripped" => Whole(d) \/ kills + faults > 0

IInv == TypeOK /\ Locked /\ Grown /\ Stage /\ ServedWhenDone /\ Origins
-----------------------------------------------------------------------------
\* One more goroutine is under way, or one less; there are as many tokens.
LEMMA EngagedCounts ==
  /\ IsFiniteSet(Engaged) /\ Cardinality(Engaged) \in Nat
  /\ \A p \in Projects \ Engaged : Cardinality(Engaged \cup {p}) = Cardinality(Engaged) + 1
  /\ \A p \in Engaged : Cardinality(Engaged \ {p}) = Cardinality(Engaged) - 1
<1>1. IsFiniteSet(Engaged)
  BY FS_Subset DEF Engaged
<1> QED BY <1>1, FS_CardinalityType, FS_AddElement, FS_RemoveElement

\* What is fetched and cloned is of the remotes; a fetch keeps what a cache has.
LEMMA FetchedRight ==
  ASSUME TypeOK, Grown, NEW p \in Projects
  PROVE  /\ Fetched(p) \in [Projects -> SUBSET (1 .. MaxTip)]
         /\ \A q \in Projects : has[q] \subseteq Fetched(p)[q] /\ Fetched(p)[q] \subseteq 1 .. tip[q]
         /\ \A q \in Projects : Dir[q] # Dir[p] => Fetched(p)[q] = has[q]
         /\ Dir[p] \notin Shallow => Fetched(p)[p] = 1 .. tip[p]
         /\ tip[p] \in Fetched(p)[p]
<1>1. \A q \in Projects : tip[q] \in 1 .. MaxTip /\ has[q] \subseteq 1 .. tip[q]
  BY DEF TypeOK, Grown
<1>2. \A q \in Projects : has[q] \subseteq Fetched(p)[q] /\ Fetched(p)[q] \subseteq 1 .. tip[q]
  BY <1>1 DEF Fetched
<1>3. \A q \in Projects : 1 .. tip[q] \subseteq 1 .. MaxTip
  BY <1>1
<1> QED BY <1>1, <1>2, <1>3 DEF Fetched

LEMMA ClonedRight ==
  ASSUME TypeOK, Grown, NEW d
  PROVE  /\ Cloned(d) \in [Projects -> SUBSET (1 .. MaxTip)]
         /\ \A q \in Projects : Cloned(d)[q] \subseteq 1 .. tip[q]
         /\ \A q \in Projects : Dir[q] # d => Cloned(d)[q] = has[q]
<1>1. \A q \in Projects : tip[q] \in 1 .. MaxTip /\ has[q] \subseteq 1 .. tip[q]
  BY DEF TypeOK, Grown
<1>2. \A q \in Projects : Cloned(d)[q] \subseteq 1 .. tip[q]
  BY <1>1 DEF Cloned
<1>3. \A q \in Projects : 1 .. tip[q] \subseteq 1 .. MaxTip
  BY <1>1
<1> QED BY <1>1, <1>2, <1>3 DEF Cloned

LEMMA EmptiedRight ==
  ASSUME TypeOK, NEW d
  PROVE  /\ Emptied(d) \in [Projects -> SUBSET (1 .. MaxTip)]
         /\ \A q \in Projects : Emptied(d)[q] = IF Dir[q] = d THEN {} ELSE has[q]
BY DEF TypeOK, Emptied
-----------------------------------------------------------------------------
\* The steps of a goroutine between Lock and Unlock.
Configures(p) == Update(p) \/ SetUrl(p) \/ SetRefspec(p)
InCache(p) == Configures(p) \/ FetchRefspec(p) \/ Clear(p) \/ Clone(p) \/ Config(p)

\* They go from one place inside to another, and leave the other goroutines, the locks
\* and the tokens alone.
LEMMA InCacheMoves ==
  ASSUME TypeOK, NEW p \in Projects, InCache(p)
  PROVE  /\ pc[p] \in Inside \ {"unlock"} /\ pc'[p] \in Inside /\ pc' \in [Projects -> Inside \cup {"todo", "lock", "done"}]
         /\ \A q \in Projects : q # p => pc'[q] = pc[q]
         /\ UNCHANGED <<tip, lock, slots, main, runs, kills, began>>
         /\ faults' \in 0 .. MaxFaults /\ errs' \in BOOLEAN /\ (errs => errs')
<1>1. pc \in [Projects -> Inside \cup {"todo", "lock", "done"}]
  BY DEF TypeOK
<1>2. \E l \in Inside : pc' = [pc EXCEPT ![p] = l]
  BY DEF InCache, Configures, Corrupted, Update, SetUrl, SetRefspec, FetchRefspec, Clear, Clone, Config, Goto, Fail, Inside
<1>3. pc[p] \in Inside \ {"unlock"}
  BY DEF InCache, Configures, Corrupted, Update, SetUrl, SetRefspec, FetchRefspec, Clear, Clone, Config, Inside
<1>4. UNCHANGED <<tip, lock, slots, main, runs, kills, began>>
  BY DEF InCache, Configures, Corrupted, Update, SetUrl, SetRefspec, FetchRefspec, Clear, Clone, Config
<1>5. faults' = faults \/ (faults < MaxFaults /\ faults' = faults + 1)
  BY DEF InCache, Configures, Corrupted, Update, SetUrl, SetRefspec, FetchRefspec, Clear, Clone, Config, Fail, Fault, NoFault
<1>6. errs' = errs \/ errs' = TRUE
  BY DEF InCache, Configures, Corrupted, Update, SetUrl, SetRefspec, FetchRefspec, Clear, Clone, Config, Fail
<1>7. faults' \in 0 .. MaxFaults
  BY <1>5 DEF TypeOK
<1>8. errs' \in BOOLEAN /\ (errs => errs')
  BY <1>6, Zenon DEF TypeOK
<1> QED BY <1>1, <1>2, <1>3, <1>4, <1>7, <1>8 DEF Inside

\* In a cache there is nobody else.
LEMMA Alone ==
  ASSUME IInv, main = "loop", NEW p \in Projects, pc[p] \in Inside, NEW q \in Projects, pc[q] \in Inside, Dir[q] = Dir[p]
  PROVE  q = p
BY DEF IInv, Locked
-----------------------------------------------------------------------------
LEMMA InitHolds == ASSUME Init PROVE IInv
<1>1. TypeOK
  <2>1. tip \in [Projects -> 1 .. MaxTip] /\ began \in [Projects -> 1 .. MaxTip]
    BY DEF Init
  <2>2. /\ dir \in [Dirs -> DirStates] /\ has \in [Projects -> SUBSET (1 .. MaxTip)]
        /\ lock \in [Dirs -> SUBSET Projects]
    BY DEF Init, DirStates
  <2>3. pc \in [Projects -> Inside \cup {"todo", "lock", "done"}]
    BY DEF Init
  <2>4. made \in [Projects -> BOOLEAN] /\ errs \in BOOLEAN /\ suspect \subseteq Dirs
    BY DEF Init
  <2>5. main = "off" /\ slots \in 0 .. Jobs /\ runs \in 0 .. MaxRuns /\ kills \in 0 .. MaxKills /\ faults \in 0 .. MaxFaults
    BY DEF Init
  <2> QED BY <2>1, <2>2, <2>3, <2>4, <2>5 DEF TypeOK
<1> QED BY <1>1 DEF Init, IInv, Locked, Grown, Stage, ServedWhenDone, Origins, Inside

LEMMA TypePreserved == ASSUME IInv, Next PROVE TypeOK'
<1> USE DEF IInv
<1>1. CASE Start
  <2>1. Engaged' = {}
    BY <1>1 DEF Start, Engaged
  <2>2. Cardinality(Engaged') = 0
    BY <2>1, FS_EmptySet
  <2>3. slots' = Cardinality(Engaged') /\ slots' \in 0 .. Jobs
    BY <1>1, <2>2 DEF Start
  <2>4. pc' \in [Projects -> Inside \cup {"todo", "lock", "done"}]
    BY <1>1 DEF Start
  <2>5. made' \in [Projects -> BOOLEAN] /\ lock' \in [Dirs -> SUBSET Projects]
    BY <1>1 DEF Start
  <2>6. runs' \in 0 .. MaxRuns /\ main' = "loop" /\ errs' = FALSE /\ suspect' = {} /\ began' = tip
        /\ UNCHANGED <<tip, dir, has, kills, faults>>
    BY <1>1 DEF Start, TypeOK
  <2> QED BY <2>3, <2>4, <2>5, <2>6 DEF TypeOK, Engaged
<1>2. CASE Return
  BY <1>2 DEF Return, TypeOK, disk
<1>3. CASE Kill
  <2>1. dir' \in [Dirs -> DirStates] /\ has' \in [Projects -> SUBSET (1 .. MaxTip)]
    BY <1>3 DEF Kill, TypeOK
  <2> QED BY <1>3, <2>1 DEF Kill, TypeOK
<1>4. ASSUME NEW p \in Projects, Push(p) PROVE TypeOK'
  BY <1>4 DEF Push, TypeOK, disk
<1>5. ASSUME NEW p \in Projects, Go(p) PROVE TypeOK'
  <2>1. p \in Projects \ Engaged /\ Engaged' = Engaged \cup {p}
    BY <1>5 DEF Go, Goto, Engaged, TypeOK
  <2>2. slots' = Cardinality(Engaged')
    BY <1>5, <2>1, EngagedCounts DEF Go, TypeOK, Engaged
  <2> QED BY <1>5, <2>2 DEF Go, Goto, TypeOK, disk, Engaged
<1>6. ASSUME NEW p \in Projects, Lock(p) PROVE TypeOK'
  <2>1. Engaged' = Engaged
    BY <1>6 DEF Lock, Goto, Engaged, TypeOK
  <2>2. lock' \in [Dirs -> SUBSET Projects]
    BY <1>6 DEF Lock, TypeOK
  <2>3. pc' \in [Projects -> Inside \cup {"todo", "lock", "done"}]
    BY <1>6 DEF Lock, Goto, TypeOK, Inside
  <2>4. slots' = slots /\ main' = main /\ (main = "loop" => slots = Cardinality(Engaged))
    BY <1>6 DEF Lock, TypeOK, Engaged
  <2> QED BY <1>6, <2>1, <2>2, <2>3, <2>4 DEF Lock, TypeOK, disk, Engaged
<1>7. ASSUME NEW p \in Projects, main = "loop", Unlock(p) PROVE TypeOK'
  <2>1. p \in Engaged /\ Engaged' = Engaged \ {p}
    BY <1>7 DEF Unlock, Goto, Engaged, TypeOK
  <2>2. slots' = Cardinality(Engaged') /\ slots' \in 0 .. Jobs
    <3>1. slots = Cardinality(Engaged) /\ slots' = slots - 1 /\ slots \in 0 .. Jobs
      BY <1>7 DEF Unlock, TypeOK, Engaged
    <3>2. Cardinality(Engaged') = Cardinality(Engaged) - 1 /\ IsFiniteSet(Engaged')
      BY <2>1, EngagedCounts, FS_RemoveElement
    <3>3. Cardinality(Engaged') \in Nat
      BY <3>2, FS_CardinalityType
    <3> QED BY <3>1, <3>2, <3>3
  <2> QED BY <1>7, <2>2 DEF Unlock, Goto, TypeOK, disk, Engaged
<1>8. ASSUME NEW p \in Projects, InCache(p) PROVE TypeOK'
  <2>1. Engaged' = Engaged
    BY <1>8, InCacheMoves DEF Engaged, Inside
  <2>2. dir' \in [Dirs -> DirStates] /\ has' \in [Projects -> SUBSET (1 .. MaxTip)]
    <3>1. dir \in [Dirs -> DirStates] /\ has \in [Projects -> SUBSET (1 .. MaxTip)]
      BY DEF TypeOK
    <3>2. dir' = dir \/ \E v \in DirStates : dir' = [dir EXCEPT ![Dir[p]] = v]
      BY <1>8 DEF InCache, Configures, Update, SetUrl, SetRefspec, FetchRefspec, Clear, Clone, Config, disk, DirStates
    <3>3. has' \in {has, Fetched(p), Emptied(Dir[p]), Cloned(Dir[p])}
      BY <1>8 DEF InCache, Configures, Corrupted, Update, SetUrl, SetRefspec, FetchRefspec, Clear, Clone, Config, disk
    <3>4. TypeOK /\ Grown
      BY DEF IInv
    <3>5. /\ Fetched(p) \in [Projects -> SUBSET (1 .. MaxTip)]
          /\ Emptied(Dir[p]) \in [Projects -> SUBSET (1 .. MaxTip)]
          /\ Cloned(Dir[p]) \in [Projects -> SUBSET (1 .. MaxTip)]
      BY <3>4, FetchedRight, EmptiedRight, ClonedRight
    <3>6. has' \in [Projects -> SUBSET (1 .. MaxTip)]
      BY <3>1, <3>3, <3>5
    <3> QED BY <3>1, <3>2, <3>6
  <2>3. made' \in [Projects -> BOOLEAN] /\ suspect' \subseteq Dirs
    <3>1. Dir[p] \in Dirs
      BY DEF Dirs
    <3> QED BY <1>8, <3>1 DEF InCache, Configures, Corrupted, Update, SetUrl, SetRefspec, FetchRefspec, Clear, Clone, Config, TypeOK
  <2>4. pc' \in [Projects -> Inside \cup {"todo", "lock", "done"}]
    BY <1>8, InCacheMoves DEF Inside
  <2> QED BY <1>8, <2>1, <2>2, <2>3, <2>4, InCacheMoves DEF TypeOK, Engaged
<1> QED BY <1>1, <1>2, <1>3, <1>4, <1>5, <1>6, <1>7, <1>8 DEF Next, Work, InCache, Configures

LEMMA LockedPreserved == ASSUME IInv, Next PROVE Locked'
<1> USE DEF IInv
<1>1. CASE Start \/ Return \/ Kill
  BY <1>1 DEF Start, Return, Kill, Locked, Inside
<1>2. ASSUME NEW p \in Projects, Push(p) PROVE Locked'
  BY <1>2 DEF Push, Locked
<1>3. ASSUME NEW p \in Projects, Go(p) PROVE Locked'
  BY <1>3 DEF Go, Goto, Locked, Inside, TypeOK
<1>4. ASSUME NEW p \in Projects, main = "loop", Lock(p) PROVE Locked'
  <2>1. lock[Dir[p]] = {} /\ lock'[Dir[p]] = {p} /\ \A d \in Dirs : d # Dir[p] => lock'[d] = lock[d]
    BY <1>4 DEF Lock, TypeOK, Dirs
  <2>2. \A q \in Projects : q # p => pc'[q] = pc[q] /\ Dir[q] \in Dirs
    BY <1>4 DEF Lock, Goto, TypeOK, Dirs
  <2>3. \A d \in Dirs : \A q \in lock'[d] : Dir[q] = d
    BY <2>1 DEF Locked
  <2> QED BY <1>4, <2>1, <2>2, <2>3 DEF Locked
<1>5. ASSUME NEW p \in Projects, main = "loop", Unlock(p) PROVE Locked'
  <2>1. pc[p] \in Inside /\ pc'[p] \notin Inside /\ \A q \in Projects : q # p => pc'[q] = pc[q] /\ Dir[q] \in Dirs
    BY <1>5 DEF Unlock, Goto, TypeOK, Inside, Dirs
  <2>2. (\A d \in Dirs : d # Dir[p] => lock'[d] = lock[d]) /\ \A d \in Dirs : lock'[d] \subseteq lock[d]
    BY <1>5 DEF Unlock, TypeOK
  <2> QED BY <1>5, <2>1, <2>2, Alone DEF Locked
<1>6. ASSUME NEW p \in Projects, main = "loop", InCache(p) PROVE Locked'
  BY <1>6, InCacheMoves DEF Locked
<1> QED BY <1>1, <1>2, <1>3, <1>4, <1>5, <1>6 DEF Next, Work, InCache, Configures

LEMMA GrownPreserved == ASSUME IInv, Next PROVE Grown'
<1> USE DEF IInv
<1>1. CASE Start
  BY <1>1 DEF Start, Grown, TypeOK
<1>2. CASE Return
  BY <1>2 DEF Return, Grown, disk
<1>3. CASE Kill
  <2>1. UNCHANGED <<tip, began>>
    BY <1>3 DEF Kill
  <2>2. \A q \in Projects : has'[q] = {} \/ (has'[q] = has[q] /\ dir'[Dir[q]] = dir[Dir[q]])
    <3>1. \A q \in Projects : Dir[q] \in Dirs
      BY DEF Dirs
    <3> QED BY <1>3, <3>1 DEF Kill
  <2> QED BY <2>1, <2>2 DEF Grown
<1>4. ASSUME NEW p \in Projects, Push(p) PROVE Grown'
  <2>1. \A q \in Projects : tip[q] \in Nat /\ tip'[q] \in Nat /\ tip[q] <= tip'[q] /\ began[q] \in Nat
    BY <1>4 DEF Push, TypeOK
  <2>2. UNCHANGED <<began, dir, has>>
    BY <1>4 DEF Push, disk
  <2>3. \A q \in Projects : 1 .. tip[q] \subseteq 1 .. tip'[q] /\ began[q] <= tip'[q]
    BY <2>1 DEF Grown
  <2>4. \A q \in Projects : has'[q] \subseteq 1 .. tip'[q]
    BY <2>2, <2>3 DEF Grown
  <2> QED BY <2>2, <2>3, <2>4 DEF Grown
<1>5. ASSUME NEW p \in Projects, Go(p) \/ Lock(p) \/ Unlock(p) \/ Config(p) PROVE Grown'
  BY <1>5 DEF Go, Lock, Unlock, Config, Grown, disk
<1>9. ASSUME NEW p \in Projects, main = "loop", Configures(p) PROVE Grown'
  <2>1. UNCHANGED <<tip, began, has>>
    BY <1>9 DEF Configures, Update, SetUrl, SetRefspec, disk
  <2>2. \A d \in Dirs : dir'[d] \in {"absent", "broken"} => dir[d] \in {"absent", "broken"}
    BY <1>9 DEF Configures, Update, SetUrl, SetRefspec, disk, TypeOK
  <2>3. \A q \in Projects : Dir[q] \in Dirs
    BY DEF Dirs
  <2> QED BY <2>1, <2>2, <2>3 DEF Grown
<1>6. ASSUME NEW p \in Projects, main = "loop", FetchRefspec(p) PROVE Grown'
  <2>1. UNCHANGED <<tip, began, dir>> /\ pc[p] = "fetch"
    BY <1>6 DEF FetchRefspec
  <2>2. dir[Dir[p]] = "made"
    BY <1>6, <2>1 DEF Stage
  <2>3. has' = has \/ has' = Fetched(p)
    BY <1>6 DEF FetchRefspec
  <2>4. \A q \in Projects : has'[q] \subseteq 1 .. tip[q] /\ (Dir[q] # Dir[p] => has'[q] = has[q])
    BY <2>3, FetchedRight DEF Grown
  <2> QED BY <2>1, <2>2, <2>4 DEF Grown
<1>7. ASSUME NEW p \in Projects, Clear(p) PROVE Grown'
  <2>1. UNCHANGED <<tip, began>> /\ has' = Emptied(Dir[p]) /\ \A d \in Dirs : d # Dir[p] => dir'[d] = dir[d]
    BY <1>7 DEF Clear, TypeOK
  <2>2. \A q \in Projects : Dir[q] \in Dirs
    BY DEF Dirs
  <2> QED BY <2>1, <2>2, EmptiedRight DEF Grown
<1>8. ASSUME NEW p \in Projects, Clone(p) PROVE Grown'
  <2>1. UNCHANGED <<tip, began>>
    BY <1>8 DEF Clone
  <2>2. CASE UNCHANGED disk
    BY <2>1, <2>2 DEF Grown, disk
  <2>3. CASE dir' = [dir EXCEPT ![Dir[p]] = "made"] /\ has' = Cloned(Dir[p])
    <3>1. \A q \in Projects : Dir[q] \in Dirs
      BY DEF Dirs
    <3>2. dir'[Dir[p]] = "made" /\ \A d \in Dirs : d # Dir[p] => dir'[d] = dir[d]
      BY <2>3, <3>1 DEF TypeOK
    <3> QED BY <2>1, <2>3, <3>1, <3>2, ClonedRight DEF Grown
  <2> QED BY <1>8, <2>2, <2>3 DEF Clone
<1> QED BY <1>1, <1>2, <1>3, <1>4, <1>5, <1>6, <1>7, <1>8, <1>9 DEF Next, Work, Configures

LEMMA StagePreserved == ASSUME IInv, Next PROVE Stage'
<1> USE DEF IInv
<1>1. CASE Start \/ Return \/ Kill
  BY <1>1 DEF Start, Return, Kill, Stage
<1>2. ASSUME NEW p \in Projects, Push(p) PROVE Stage'
  BY <1>2 DEF Push, Stage, disk
<1>3. ASSUME NEW p \in Projects, Go(p) PROVE Stage'
  BY <1>3 DEF Go, Goto, Stage, disk, TypeOK
<1>4. ASSUME NEW p \in Projects, Lock(p) PROVE Stage'
  BY <1>4 DEF Lock, Goto, Stage, disk, TypeOK
<1>5. ASSUME NEW p \in Projects, Unlock(p) PROVE Stage'
  BY <1>5 DEF Unlock, Goto, Stage, disk, TypeOK
<1>6. ASSUME NEW p \in Projects, main = "loop", InCache(p) PROVE Stage'
  <2>1. \A q \in Projects : q # p => pc'[q] = pc[q]
    BY <1>6, InCacheMoves
  <2>2. \A q \in Projects : q # p /\ pc[q] \in Inside => Dir[q] # Dir[p]
    BY <1>6, InCacheMoves, Alone
  <2>3. (\A d \in Dirs : d # Dir[p] => dir'[d] = dir[d]) /\ suspect \subseteq suspect'
    BY <1>6 DEF InCache, Configures, Corrupted, Update, SetUrl, SetRefspec, FetchRefspec, Clear, Clone, Config, disk, TypeOK
  <2>4. \A q \in Projects : Dir[q] \in Dirs
    BY DEF Dirs
  <2>5. \A q \in Projects : q # p =>
           /\ pc'[q] \in {"refspec", "fetch", "config"} => dir'[Dir[q]] = "made"
           /\ pc'[q] = "url" => dir'[Dir[q]] = "stripped"
           /\ pc'[q] = "clone" => dir'[Dir[q]] = "absent"
           /\ pc'[q] = "clear" => Dir[q] \in suspect' \/ dir'[Dir[q]] # "made"
    BY <1>6, <2>1, <2>2, <2>3, <2>4 DEF Stage, Inside
  <2>6. /\ pc'[p] \in {"refspec", "fetch", "config"} => dir'[Dir[p]] = "made"
        /\ pc'[p] = "url" => dir'[Dir[p]] = "stripped"
        /\ pc'[p] = "clone" => dir'[Dir[p]] = "absent"
        /\ pc'[p] = "clear" => Dir[p] \in suspect' \/ dir'[Dir[p]] # "made"
    <3>1. CASE Update(p)
      BY <2>4, <3>1 DEF Update, Corrupted, Goto, TypeOK
    <3>2. CASE SetUrl(p)
      BY <2>4, <3>2 DEF SetUrl, Corrupted, Goto, TypeOK
    <3>3. CASE SetRefspec(p)
      BY <1>6, <2>4, <3>3 DEF SetRefspec, Corrupted, Goto, disk, TypeOK, Stage
    <3>4. CASE FetchRefspec(p) \/ Clear(p) \/ Clone(p) \/ Config(p)
      BY <1>6, <2>4, <3>4 DEF FetchRefspec, Clear, Clone, Config, Goto, Fail, disk, TypeOK
    <3> QED BY <1>6, <3>1, <3>2, <3>3, <3>4 DEF InCache, Configures
  <2> QED BY <2>5, <2>6 DEF Stage
<1> QED BY <1>1, <1>2, <1>3, <1>4, <1>5, <1>6 DEF Next, Work, InCache, Configures

\* Whoever is in a cache is alone with it; the others are not concerned by what it does.
LEMMA NothingLostBy ==
  ASSUME IInv, main = "loop", NEW q \in Projects, Clear(q) \/ Clone(q),
         NEW p \in Projects, Dir[p] \notin suspect, Whole(Dir[p])
  PROVE  Dir[p] # Dir[q]
<1> USE DEF IInv
<1>1. pc[q] \in {"clear", "clone"}
  BY DEF Clear, Clone
<1>2. SUFFICES ASSUME Dir[p] = Dir[q] PROVE FALSE
  OBVIOUS
<1>3. dir[Dir[q]] # "made"
  BY <1>1, <1>2 DEF Stage
<1>4. PICK r \in Projects : Dir[r] = Dir[q] /\ pc[r] = "url"
  BY <1>2, <1>3 DEF Whole
<1> QED BY <1>1, <1>4, Alone DEF Inside

\* A whole cache that is not taken for a corrupted one keeps what it has.
LEMMA NothingLost ==
  ASSUME IInv, Next, NEW p \in Projects, Dir[p] \notin suspect, dir[Dir[p]] # "stripped" \/ (Whole(Dir[p]) /\ ~Kill)
  PROVE  has[p] \subseteq has'[p]
<1> USE DEF IInv
<1>1. CASE Start \/ Return \/ \E q \in Projects : Push(q) \/ Go(q) \/ Lock(q) \/ Configures(q) \/ Config(q) \/ Unlock(q)
  BY <1>1 DEF Start, Return, Push, Go, Lock, Configures, Update, SetUrl, SetRefspec, Config, Unlock, disk
<1>2. CASE Kill
  <2>1. PICK state \in [Dirs -> DirStates] :
          /\ \A d \in Dirs : state[d] # dir[d] =>
               \E q \in lock[d] : pc[q] = "clone" \/ (pc[q] = "clear" /\ state[d] \in {"absent", "broken"})
          /\ has' = [q \in Projects |-> IF Dir[q] \in {d \in Dirs : state[d] # dir[d]} THEN {} ELSE has[q]]
    BY <1>2 DEF Kill
  <2>2. CASE state[Dir[p]] = dir[Dir[p]]
    BY <2>1, <2>2
  <2>3. CASE state[Dir[p]] # dir[Dir[p]]
    <3>1. Dir[p] \in Dirs
      BY DEF Dirs
    <3>2. PICK q \in lock[Dir[p]] : pc[q] \in {"clone", "clear"}
      BY <2>1, <2>3, <3>1
    <3>3. q \in Projects /\ Dir[q] = Dir[p] /\ main = "loop"
      BY <1>2, <3>1, <3>2 DEF Locked, TypeOK, Kill
    <3>4. dir[Dir[p]] \in DirStates \ {"made", "stripped"}
      BY <1>2, <3>1, <3>2, <3>3 DEF Stage, TypeOK
    <3> QED BY <3>4 DEF Grown, DirStates
  <2> QED BY <2>2, <2>3
<1>3. ASSUME NEW q \in Projects, FetchRefspec(q) PROVE has[p] \subseteq has'[p]
  BY <1>3, FetchedRight DEF FetchRefspec
<1>4. ASSUME NEW q \in Projects, main = "loop", Clear(q) \/ Clone(q) PROVE has[p] \subseteq has'[p]
  <2>1. has' = has \/ has' = Emptied(Dir[q]) \/ has' = Cloned(Dir[q])
    BY <1>4 DEF Clear, Clone, disk
  <2>2. CASE Whole(Dir[p])
    <3>1. Dir[p] # Dir[q]
      BY <1>4, <2>2, NothingLostBy
    <3> QED BY <2>1, <3>1, EmptiedRight, ClonedRight
  <2>3. CASE ~Whole(Dir[p])
    <3>1. Dir[p] \in Dirs
      BY DEF Dirs
    <3>2. dir[Dir[p]] \in {"absent", "broken"}
      BY <2>3, <3>1 DEF Whole, TypeOK, DirStates
    <3> QED BY <3>2 DEF Grown
  <2> QED BY <2>2, <2>3
<1> QED BY <1>1, <1>2, <1>3, <1>4 DEF Next, Work, Configures

\* While the run goes on, a whole cache that is not taken for a corrupted one stays whole.
LEMMA StaysWhole ==
  ASSUME IInv, Next, main = "loop", main' # "off", NEW p \in Projects, Whole(Dir[p]), Dir[p] \notin suspect'
  PROVE  Whole(Dir[p])'
<1> USE DEF IInv
<1>1. Dir[p] \in Dirs /\ Dir[p] \notin suspect
  BY DEF Dirs, Next, Start, Return, Kill, Go, Push, Work, Lock, Corrupted, Update, SetUrl, SetRefspec,
     FetchRefspec, Clear, Clone, Config, Unlock
<1>2. ASSUME NEW q \in Projects, Clear(q) \/ Clone(q) PROVE Whole(Dir[p])'
  <2>1. Dir[q] # Dir[p]
    BY <1>1, <1>2, NothingLostBy
  <2>2. dir'[Dir[p]] = dir[Dir[p]] /\ main' = "loop"
    BY <1>1, <1>2, <2>1 DEF Clear, Clone, TypeOK, disk
  <2>3. \A r \in Projects : pc[r] = "url" => pc'[r] = "url"
    BY <1>2 DEF Clear, Clone, Goto, Fail, TypeOK
  <2> QED BY <2>2, <2>3 DEF Whole
<1>3. ASSUME NEW q \in Projects, Update(q) PROVE Whole(Dir[p])'
  <2>1. CASE dir' = dir
    <3>1. \A r \in Projects : pc[r] = "url" => pc'[r] = "url"
      BY <1>3 DEF Update, Corrupted, Goto, TypeOK
    <3> QED BY <1>3, <2>1, <3>1 DEF Whole, Update
  <2>2. CASE dir' = [dir EXCEPT ![Dir[q]] = "stripped"] /\ Goto(q, "url")
    <3>1. pc'[q] = "url" /\ main' = "loop" /\ \A r \in Projects : pc[r] = "url" => pc'[r] = "url"
      BY <1>3, <2>2 DEF Update, Goto, TypeOK
    <3> QED BY <1>1, <2>2, <3>1 DEF Whole, TypeOK
  <2> QED BY <1>3, <2>1, <2>2 DEF Update
<1>4. ASSUME NEW q \in Projects, SetUrl(q) PROVE Whole(Dir[p])'
  <2>1. CASE Dir[q] = Dir[p]
    BY <1>1, <1>4, <2>1 DEF SetUrl, Corrupted, Whole, TypeOK
  <2>2. CASE Dir[q] # Dir[p]
    <3>1. dir'[Dir[p]] = dir[Dir[p]] /\ main' = "loop" /\ \A r \in Projects : r # q => pc'[r] = pc[r]
      BY <1>1, <1>4, <2>2 DEF SetUrl, Corrupted, Goto, TypeOK
    <3> QED BY <2>2, <3>1 DEF Whole
  <2> QED BY <2>1, <2>2
<1>5. CASE Return
  BY <1>5 DEF Return, Whole, disk
<1>6. ASSUME NEW q \in Projects, Go(q) \/ Push(q) \/ Lock(q) \/ SetRefspec(q) \/ FetchRefspec(q) \/ Config(q) \/ Unlock(q)
      PROVE  Whole(Dir[p])'
  <2>1. dir' = dir /\ main' = main
    BY <1>6 DEF Go, Push, Lock, SetRefspec, FetchRefspec, Config, Unlock, disk
  <2>2. \A r \in Projects : pc[r] = "url" => pc'[r] = "url"
    BY <1>6 DEF Go, Push, Lock, SetRefspec, Corrupted, FetchRefspec, Config, Unlock, Goto, Fail, TypeOK
  <2> QED BY <2>1, <2>2 DEF Whole
<1> QED BY <1>2, <1>3, <1>4, <1>5, <1>6 DEF Next, Work, Start, Kill

\* The cache of a project that has been served stays as it is while the run goes on.
LEMMA ServedStays ==
  ASSUME IInv, Next, main = "loop", main' # "off", NEW p \in Projects, Served(p)
  PROVE  Served(p)'
<1> USE DEF IInv
<1>1. CASE Dir[p] \in suspect'
  BY <1>1 DEF Served
<1>2. CASE Dir[p] \notin suspect'
  <2>1. suspect \subseteq suspect' /\ began' = began /\ ~Kill
    BY DEF Next, Start, Return, Kill, Go, Push, Work, Lock, Corrupted, Update, SetUrl, SetRefspec, FetchRefspec,
       Clear, Clone, Config, Unlock
  <2>2. Whole(Dir[p])
    BY <1>2, <2>1 DEF Served
  <2>3. has[p] \subseteq has'[p]
    BY <1>2, <2>1, <2>2, NothingLost
  <2>4. Whole(Dir[p])'
    BY <1>2, <2>2, StaysWhole
  <2> QED BY <1>2, <2>1, <2>3, <2>4 DEF Served
<1> QED BY <1>1, <1>2

\* A goroutine that comes to its end without an error has found what it came for.
LEMMA ServedAtTheEnd ==
  ASSUME IInv, NEW p \in Projects, main = "loop", InCache(p), pc'[p] = "unlock", ~errs'
  PROVE  Served(p)'
<1> USE DEF IInv
<1>0. pc \in [Projects -> Inside \cup {"todo", "lock", "done"}]
  BY DEF TypeOK
<1>1. CASE Configures(p)
  <2>1. pc[p] = "refspec" /\ IsRevAvailable(p) /\ UNCHANGED disk
    BY <1>0, <1>1 DEF Configures, Corrupted, Update, SetUrl, SetRefspec, Goto
  <2>2. dir[Dir[p]] = "made"
    BY <2>1 DEF Stage
  <2> QED BY <2>1, <2>2 DEF Served, Whole, IsRevAvailable, disk
<1>2. CASE FetchRefspec(p)
  <2>1. pc[p] = "fetch" /\ has' = Fetched(p) /\ UNCHANGED <<dir, tip, began>>
    BY <1>0, <1>2 DEF FetchRefspec, Fail
  <2>2. dir[Dir[p]] = "made" /\ tip[p] \in has'[p] /\ tip[p] >= began[p] /\ tip[p] \in 1 .. MaxTip /\ began[p] \in 1 .. MaxTip
    BY <2>1, FetchedRight DEF Stage, Grown, TypeOK
  <2>3. Dir[p] \notin Shallow => 1 \in has'[p]
    BY <2>1, <2>2, FetchedRight
  <2> QED BY <2>1, <2>2, <2>3 DEF Served, Whole
<1>3. CASE Clear(p) \/ Clone(p) \/ Config(p)
  BY <1>0, <1>3 DEF Clear, Clone, Config, Fail, Goto
<1> QED BY <1>1, <1>2, <1>3 DEF InCache

LEMMA ServedPreserved == ASSUME IInv, Next PROVE ServedWhenDone'
<1> USE DEF IInv
<1>1. CASE Start \/ Kill
  BY <1>1 DEF Start, Kill, ServedWhenDone
<1>2. CASE Return
  <2>1. \A p \in Projects : Served(p) => Served(p)'
    BY <1>2 DEF Return, Served, Whole, disk
  <2> QED BY <1>2, <2>1 DEF Return, ServedWhenDone
<1>3. ASSUME NEW p \in Projects, Push(p) PROVE ServedWhenDone'
  <2>1. \A q \in Projects : Served(q) => Served(q)'
    BY <1>3 DEF Push, Served, Whole, disk
  <2> QED BY <1>3, <2>1 DEF Push, ServedWhenDone
<1>4. ASSUME NEW p \in Projects, main = "loop", Go(p) \/ Lock(p) \/ Unlock(p) \/ InCache(p) PROVE ServedWhenDone'
  <2>1. main' = "loop" /\ (errs => errs') /\ \A q \in Projects : q # p => pc'[q] = pc[q]
    BY <1>4, InCacheMoves DEF Go, Lock, Unlock, Goto, TypeOK
  <2>2. \A q \in Projects : Served(q) => Served(q)'
    BY <1>4, <2>1, ServedStays DEF Next, Work, InCache, Configures
  <2>3. ~errs' /\ pc'[p] \in {"unlock", "done"} => Served(p)'
    <3>1. CASE Go(p) \/ Lock(p)
      BY <3>1 DEF Go, Lock, Goto, TypeOK
    <3>2. CASE Unlock(p)
      BY <1>4, <2>1, <2>2, <3>2 DEF Unlock, ServedWhenDone
    <3>3. CASE InCache(p)
      BY <1>4, <3>3, ServedAtTheEnd, InCacheMoves DEF Inside
    <3> QED BY <1>4, <3>1, <3>2, <3>3
  <2>4. ASSUME NEW q \in Projects, ~errs', pc'[q] \in {"unlock", "done"} PROVE Served(q)'
    <3>1. CASE q = p
      BY <2>3, <2>4, <3>1
    <3>2. CASE q # p
      <4>1. ~errs /\ pc[q] \in {"unlock", "done"}
        BY <2>1, <2>4, <3>2
      <4>2. Served(q)
        BY <1>4, <4>1 DEF ServedWhenDone
      <4> QED BY <2>2, <4>2
    <3> QED BY <3>1, <3>2
  <2>5. main' # "returned"
    BY <2>1
  <2> QED BY <2>4, <2>5 DEF ServedWhenDone
<1>5. \A p \in Projects : Go(p) => main = "loop"
  BY DEF Go
<1> QED BY <1>1, <1>2, <1>3, <1>4, <1>5 DEF Next, Work, InCache, Configures

\* A cache loses its remote.origin for good only by a kill or a failure.
LEMMA OriginsPreserved == ASSUME IInv, Next PROVE Origins'
<1> USE DEF IInv
<1>0. kills \in Nat /\ faults \in Nat /\ kills' \in Nat /\ faults' \in Nat
  BY TypePreserved DEF TypeOK
<1>1. CASE Kill
  BY <1>0, <1>1 DEF Kill, Origins
<1>2. CASE Start
  BY <1>0, <1>2 DEF Start, Origins, Whole
<1>3. CASE Return
  BY <1>0, <1>3 DEF Return, Origins, Whole, disk
<1>4. ASSUME NEW p \in Projects, main = "loop",
             Lock(p) \/ Go(p) \/ SetRefspec(p) \/ FetchRefspec(p) \/ Clear(p) \/ Clone(p) \/ Config(p) \/ Unlock(p)
      PROVE  Origins'
  <2>4. faults' = faults \/ faults' = faults + 1
    BY <1>4 DEF Lock, Go, SetRefspec, FetchRefspec, Clear, Clone, Config, Unlock, Fail, Fault, NoFault
  <2>5. main' = main /\ kills' = kills
    BY <1>4 DEF Lock, Go, SetRefspec, FetchRefspec, Clear, Clone, Config, Unlock
  <2>1. main' = main /\ kills' = kills /\ faults <= faults'
    BY <1>0, <2>4, <2>5
  <2>2. \A d \in Dirs : dir'[d] = "stripped" => dir[d] = "stripped"
    BY <1>4 DEF Lock, Go, SetRefspec, FetchRefspec, Clear, Clone, Config, Unlock, disk, TypeOK
  <2>3. \A r \in Projects : pc[r] = "url" => pc'[r] = "url"
    BY <1>4 DEF Lock, Go, SetRefspec, Corrupted, FetchRefspec, Clear, Clone, Config, Unlock, Goto, Fail, TypeOK
  <2>6. ASSUME NEW d \in Dirs, dir'[d] = "stripped" PROVE Whole(d)' \/ kills' + faults' > 0
    <3>1. dir[d] = "stripped"
      BY <2>2, <2>6
    <3>2. CASE kills + faults > 0
      <4>1. CASE faults' = faults
        BY <2>5, <3>2, <4>1
      <4>2. CASE faults' = faults + 1
        BY <1>0, <2>5, <4>2
      <4> QED BY <2>4, <4>1, <4>2
    <3>3. CASE Whole(d)
      <4>1. PICK q \in Projects : Dir[q] = d /\ pc[q] = "url"
        BY <3>1, <3>3 DEF Whole
      <4> QED BY <1>4, <2>1, <2>3, <2>6, <4>1 DEF Whole
    <3> QED BY <3>1, <3>2, <3>3 DEF Origins
  <2> QED BY <2>6 DEF Origins
<1>5. ASSUME NEW p \in Projects, main = "loop", Update(p) PROVE Origins'
  <2>1. main' = main /\ kills' = kills /\ faults <= faults' /\ \A r \in Projects : pc[r] = "url" => pc'[r] = "url"
    BY <1>0, <1>5 DEF Update, Fault, NoFault, Corrupted, Goto, TypeOK
  <2>2. \A d \in Dirs : dir'[d] = "stripped" => dir[d] = "stripped" \/ (d = Dir[p] /\ pc'[p] = "url")
    BY <1>5 DEF Update, Goto, TypeOK
  <2>3. ASSUME NEW d \in Dirs, dir'[d] = "stripped" PROVE Whole(d)' \/ kills' + faults' > 0
    <3>1. CASE dir[d] = "stripped"
      <4>1. kills + faults > 0 => kills' + faults' > 0
        <5>1. kills' = kills /\ (faults' = faults \/ faults' = faults + 1)
          BY <1>5 DEF Update, Fault, NoFault
        <5>2. CASE faults' = faults
          BY <5>1, <5>2
        <5>3. CASE faults' = faults + 1
          BY <1>0, <5>1, <5>3
        <5> QED BY <5>1, <5>2, <5>3
      <4>2. Whole(d) => Whole(d)'
        BY <1>5, <2>1, <2>3, <3>1 DEF Whole
      <4> QED BY <3>1, <4>1, <4>2 DEF Origins
    <3>2. CASE d = Dir[p] /\ pc'[p] = "url"
      BY <1>5, <2>1, <2>3, <3>2 DEF Whole
    <3> QED BY <2>2, <2>3, <3>1, <3>2
  <2> QED BY <2>3 DEF Origins
<1>6. ASSUME NEW p \in Projects, main = "loop", SetUrl(p) PROVE Origins'
  <2>1. CASE faults' = faults + 1
    <3>2. kills' = kills
      BY <1>6 DEF SetUrl
    <3>1. kills' + faults' > 0
      BY <1>0, <2>1, <3>2
    <3> QED BY <3>1 DEF Origins
  <2>2. CASE dir' = [dir EXCEPT ![Dir[p]] = "made"] /\ Goto(p, "refspec")
    <3>4. faults' = faults \/ faults' = faults + 1
      BY <1>6 DEF SetUrl, Fault, NoFault
    <3>5. main' = main /\ kills' = kills
      BY <1>6 DEF SetUrl
    <3>1. main' = main /\ kills' = kills /\ faults <= faults'
      BY <1>0, <3>4, <3>5
    <3>2. \A d \in Dirs : dir'[d] = "stripped" => dir[d] = "stripped" /\ d # Dir[p]
      BY <2>2 DEF TypeOK
    <3>3. \A r \in Projects : r # p => pc'[r] = pc[r]
      BY <2>2 DEF Goto, TypeOK
    <3>6. kills + faults > 0 => kills' + faults' > 0
      <4>1. CASE faults' = faults
        BY <3>5, <4>1
      <4>2. CASE faults' = faults + 1
        BY <1>0, <3>5, <4>2
      <4> QED BY <3>4, <4>1, <4>2
    <3>7. ASSUME NEW d \in Dirs, dir'[d] = "stripped" PROVE Whole(d)' \/ kills' + faults' > 0
      <4>1. dir[d] = "stripped" /\ d # Dir[p]
        BY <3>2, <3>7
      <4>2. CASE kills + faults > 0
        BY <3>6, <4>2
      <4>3. CASE Whole(d)
        <5>1. PICK q \in Projects : Dir[q] = d /\ pc[q] = "url"
          BY <4>1, <4>3 DEF Whole
        <5>2. pc'[q] = "url"
          BY <3>3, <4>1, <5>1
        <5> QED BY <1>6, <3>1, <3>7, <5>1, <5>2 DEF Whole
      <4> QED BY <4>1, <4>2, <4>3 DEF Origins
    <3> QED BY <3>7 DEF Origins
  <2> QED BY <1>6, <2>1, <2>2 DEF SetUrl, Fault
<1>7. ASSUME NEW p \in Projects, Push(p) PROVE Origins'
  BY <1>7 DEF Push, Origins, Whole, disk
<1>8. \A p \in Projects : Go(p) => main = "loop"
  BY DEF Go
<1> QED BY <1>1, <1>2, <1>3, <1>4, <1>5, <1>6, <1>7, <1>8 DEF Next, Work
-----------------------------------------------------------------------------
LEMMA Invariance == Spec => []IInv
<1>1. IInv /\ [Next]_vars => IInv'
  <2> SUFFICES ASSUME IInv, [Next]_vars PROVE IInv'
    OBVIOUS
  <2>1. CASE Next
    BY <2>1, TypePreserved, LockedPreserved, GrownPreserved, StagePreserved, ServedPreserved, OriginsPreserved DEF IInv
  <2>2. CASE UNCHANGED vars
    BY <2>2 DEF vars, disk, IInv, TypeOK, Locked, Grown, Stage, ServedWhenDone, Served, Origins, Whole
  <2> QED BY <2>1, <2>2
<1> QED BY InitHolds, <1>1, PTL DEF Spec

\* The variables keep their types; there are never more goroutines under way than Jobs.
THEOREM TypeCorrect == Spec => []TypeOK
BY Invariance, PTL DEF IInv

\* Projects of one remote work in its cache one at a time, and when updateCache returns
\* without an error each finds there what it is about to check out.
THEOREM CachesAreReady == Spec => []CacheReady
<1>1. IInv => CacheReady
  <2> SUFFICES ASSUME IInv PROVE CacheReady
    OBVIOUS
  <2>1. DOMAIN pc = Projects /\ DOMAIN has = Projects
    BY DEF IInv, TypeOK
  <2>2. OneInACache
    BY <2>1, Alone DEF OneInACache
  <2>3. Ready
    BY <2>1 DEF Ready, IInv, ServedWhenDone, Served
  <2>4. Configured
    BY <2>1 DEF Configured, IInv, Origins, Whole, Dirs
  <2> QED BY <2>2, <2>3, <2>4 DEF CacheReady
<1> QED BY <1>1, Invariance, PTL

\* No step takes anything away from a cache with its remote.origin but of one that the run
\* took for a corrupted one: not a failing fetch or clone, and not a kill.  A cache loses its
\* remote.origin for good only by a kill or a failed command (Configured).
THEOREM CachesAreKept == Spec => Kept /\ []Configured
<1>1. IInv /\ [Next]_vars => [\A p \in DOMAIN has : \/ Dir[p] \in suspect
                                                    \/ dir[Dir[p]] = "stripped"
                                                    \/ has[p] \subseteq has'[p]]_vars
  BY NothingLost DEF IInv, TypeOK
<1>2. IInv => Configured
  BY DEF Configured, IInv, Origins, Whole, Dirs, TypeOK
<1> QED BY <1>1, <1>2, Invariance, PTL DEF Spec, Kept
-----------------------------------------------------------------------------
(***************************************************************************)
(* The hooks.                                                              *)
(***************************************************************************)
\* A goroutine has run its command as often as its attempt says, and sends what the last run
\* came to; it goes on without a success only while attempts are left.
HookInOrder(h) ==
  /\ Len(waits[h]) = try[h] - 1
  /\ hpc[h] = "temp" => hruns[h] = <<>> /\ try[h] = 1
  /\ hpc[h] = "run" => Len(hruns[h]) = try[h] - 1
  /\ hpc[h] = "wait" => Len(hruns[h]) = try[h] /\ try[h] < Attempts
  /\ hpc[h] = "return" =>
       /\ hruns[h] # <<>> /\ Last(hruns[h]) = last[h] /\ Len(hruns[h]) <= Attempts
       /\ last[h] # "ok" => Len(hruns[h]) = Attempts
  /\ hpc[h] \in {"send", "ended"} =>
       /\ (result[h] = "ok") = Succeeded(h)
       /\ Succeeded(h) \/ Len(hruns[h]) \in {0, Attempts}

ResultsIn ==
  /\ received = {h \in Hooks : hpc[h] = "ended"}
  /\ err <=> \E h \in received : result[h] # "ok"

HooksInv == HooksTypeOK /\ (\A h \in Hooks : HookInOrder(h)) /\ ResultsIn

LEMMA AppendedLast ==
  ASSUME NEW S, NEW s \in Seq(S), NEW e \in S
  PROVE  /\ Append(s, e) \in Seq(S) /\ Append(s, e) # <<>> /\ Len(Append(s, e)) = Len(s) + 1
         /\ Last(Append(s, e)) = e
  BY DEF Last

LEMMA InitHooksInv == HooksInit => HooksInv
<1> SUFFICES ASSUME HooksInit PROVE HooksInv
  OBVIOUS
<1> USE RunHooksAssumption
<1>1. HooksTypeOK
  <2>1. 1 \in 1..Attempts
    OBVIOUS
  <2>2. hruns \in [Hooks -> Seq(Outcomes)] /\ waits \in [Hooks -> Seq({Backoff(i) : i \in 1..Attempts})]
    BY DEF HooksInit
  <2>3. \A h \in Hooks : Len(hruns[h]) <= Attempts /\ Len(waits[h]) < Attempts
    BY DEF HooksInit
  <2>4. hpc \in [Hooks -> {"temp", "run", "wait", "return", "send", "ended"}] /\ try \in [Hooks -> 1..Attempts]
    BY <2>1 DEF HooksInit
  <2>5. last \in [Hooks -> Outcomes \cup {"none"}] /\ result \in [Hooks -> {"none", "ok", "deadline", "error"}]
    BY DEF HooksInit
  <2>6. received \subseteq Hooks /\ err \in BOOLEAN /\ timeout \in BOOLEAN
    BY DEF HooksInit
  <2>7. QED
    BY <2>2, <2>3, <2>4, <2>5, <2>6 DEF HooksTypeOK
<1>2. \A h \in Hooks : HookInOrder(h)
  BY DEF HooksInit, HookInOrder
<1>3. ResultsIn
  BY DEF HooksInit, ResultsIn
<1>4. QED
  BY <1>1, <1>2, <1>3 DEF HooksInv

\* The goroutines do not touch what is another's.
LEMMA OneHookMoves ==
  ASSUME HooksInv, NEW h \in Hooks, HookStep(h)
  PROVE  /\ \A g \in Hooks \ {h} : HookInOrder(g)'
         /\ \A g \in Hooks \ {h} : (hpc'[g] = hpc[g] /\ result'[g] = result[g])
<1> SUFFICES ASSUME NEW g \in Hooks \ {h}
             PROVE  HookInOrder(g)' /\ hpc'[g] = hpc[g] /\ result'[g] = result[g]
  OBVIOUS
<1>1. /\ hpc'[g] = hpc[g] /\ try'[g] = try[g] /\ last'[g] = last[g] /\ hruns'[g] = hruns[g]
      /\ waits'[g] = waits[g] /\ result'[g] = result[g]
  BY DEF HooksInv, HooksTypeOK, HookStep, Temp, Run, Wait, ReturnResult, ReceiveResult, Set
<1>2. HookInOrder(g)
  BY DEF HooksInv
<1>3. QED
  BY <1>1, <1>2 DEF HookInOrder, Succeeded

LEMMA HooksStep == HooksInv /\ [HooksNext]_hookVars => HooksInv'
<1> USE RunHooksAssumption
<1> SUFFICES ASSUME HooksInv, [HooksNext]_hookVars PROVE HooksInv'
  OBVIOUS
<1>1. HooksTypeOK /\ ResultsIn /\ \A h \in Hooks : HookInOrder(h)
  BY DEF HooksInv
<1>2. CASE UNCHANGED hookVars
  BY <1>2 DEF hookVars, HooksInv, HooksTypeOK, ResultsIn, HookInOrder, Succeeded
<1>3. ASSUME NEW h \in Hooks, HookStep(h) PROVE HooksInv'
  <2> USE <1>1
  <2>1. HookInOrder(h)
    OBVIOUS
  <2>2. \A g \in Hooks \ {h} : HookInOrder(g)' /\ hpc'[g] = hpc[g] /\ result'[g] = result[g]
    BY <1>3, OneHookMoves
  <2>3. CASE Temp(h)
    <3>1. HooksTypeOK'
      BY <2>3 DEF Temp, HooksTypeOK, Set
    <3>2. HookInOrder(h)'
      BY <2>1, <2>3 DEF Temp, HooksTypeOK, HookInOrder, Set, Succeeded
    <3>3. ResultsIn'
      BY <2>2, <2>3 DEF Temp, HooksTypeOK, ResultsIn, Set
    <3>4. QED
      BY <2>2, <3>1, <3>2, <3>3 DEF HooksInv
  <2>4. CASE Run(h)
    <3>1. PICK o \in Outcomes :
            /\ last' = Set(last, h, o) /\ hruns' = [hruns EXCEPT ![h] = Append(@, o)]
            /\ hpc' = Set(hpc, h, IF o # "ok" /\ try[h] < Attempts THEN "wait" ELSE "return")
      BY <2>4 DEF Run
    <3>2. /\ hruns'[h] \in Seq(Outcomes) /\ hruns'[h] # <<>> /\ Len(hruns'[h]) = Len(hruns[h]) + 1
          /\ Last(hruns'[h]) = o
      <4>1. hruns[h] \in Seq(Outcomes) /\ hruns'[h] = Append(hruns[h], o)
        BY <3>1 DEF HooksTypeOK
      <4>2. QED
        BY <4>1, AppendedLast
    <3>3. /\ hpc[h] = "run" /\ try[h] \in 1..Attempts /\ Len(hruns[h]) = try[h] - 1
          /\ UNCHANGED <<try, waits, result, received, err, timeout>>
      BY <2>1, <2>4 DEF Run, HookInOrder, HooksTypeOK
    <3>4. Len(hruns'[h]) = try[h] /\ Len(hruns'[h]) <= Attempts
      BY <3>2, <3>3
    <3>5. /\ hruns' \in [Hooks -> Seq(Outcomes)]
          /\ \A g \in Hooks : Len(hruns'[g]) <= Attempts
      BY <3>1, <3>2, <3>4 DEF HooksTypeOK
    <3>6. HooksTypeOK'
      BY <3>1, <3>3, <3>5 DEF HooksTypeOK, Set
    <3>7. HookInOrder(h)'
      BY <2>1, <3>1, <3>2, <3>3, <3>4 DEF HookInOrder, HooksTypeOK, Set, Succeeded
    <3>8. ResultsIn'
      BY <2>2, <3>1, <3>3 DEF HooksTypeOK, ResultsIn, Set
    <3>9. QED
      BY <2>2, <3>6, <3>7, <3>8 DEF HooksInv
  <2>5. CASE Wait(h)
    <3> DEFINE W == {Backoff(i) : i \in 1..Attempts}
    <3>1. /\ hpc[h] = "wait" /\ try[h] \in 1..Attempts /\ Len(hruns[h]) = try[h] /\ try[h] < Attempts
          /\ Len(waits[h]) = try[h] - 1 /\ waits[h] \in Seq(W)
      BY <2>1, <2>5 DEF Wait, HookInOrder, HooksTypeOK
    <3>2. waits'[h] = Append(waits[h], Backoff(try[h])) /\ Backoff(try[h]) \in W
      BY <2>5, <3>1 DEF Wait, HooksTypeOK
    <3>3. waits'[h] \in Seq(W) /\ Len(waits'[h]) = try[h]
      <4>1. waits'[h] \in Seq(W) /\ Len(waits'[h]) = Len(waits[h]) + 1
        BY <3>1, <3>2, AppendedLast
      <4>2. QED
        BY <3>1, <4>1
    <3>4. try' = [try EXCEPT ![h] = try[h] + 1] /\ try[h] + 1 \in 1..Attempts
      BY <2>5, <3>1 DEF Wait, Set
    <3>5. waits' \in [Hooks -> Seq(W)] /\ \A g \in Hooks : Len(waits'[g]) < Attempts
      BY <2>5, <3>1, <3>3 DEF Wait, HooksTypeOK
    <3>6. HooksTypeOK'
      BY <2>5, <3>4, <3>5 DEF Wait, HooksTypeOK, Set
    <3>7. HookInOrder(h)'
      BY <2>5, <3>1, <3>3, <3>4 DEF Wait, HookInOrder, HooksTypeOK, Set
    <3>8. ResultsIn'
      BY <2>2, <2>5 DEF Wait, HooksTypeOK, ResultsIn, Set
    <3>9. QED
      BY <2>2, <3>6, <3>7, <3>8 DEF HooksInv
  <2>6. CASE ReturnResult(h)
    <3>1. HooksTypeOK'
      BY <2>6 DEF ReturnResult, HooksTypeOK, Set
    <3>2. HookInOrder(h)'
      BY <2>1, <2>6 DEF ReturnResult, HooksTypeOK, HookInOrder, Set, Succeeded
    <3>3. ResultsIn'
      BY <2>2, <2>6 DEF ReturnResult, HooksTypeOK, ResultsIn, Set
    <3>4. QED
      BY <2>2, <3>1, <3>2, <3>3 DEF HooksInv
  <2>7. CASE ReceiveResult(h)
    <3>1. HooksTypeOK'
      BY <2>7 DEF ReceiveResult, HooksTypeOK, Set
    <3>2. HookInOrder(h)'
      BY <2>1, <2>7 DEF ReceiveResult, HooksTypeOK, HookInOrder, Set, Succeeded
    <3>3. ResultsIn'
      <4>1. received' = received \cup {h} /\ result' = result /\ (err' <=> err \/ result[h] # "ok")
        BY <2>7 DEF ReceiveResult
      <4>2. hpc'[h] = "ended"
        BY <2>7 DEF ReceiveResult, HooksTypeOK, Set
      <4>3. QED
        BY <2>2, <4>1, <4>2 DEF ResultsIn
    <3>4. QED
      BY <2>2, <3>1, <3>2, <3>3 DEF HooksInv
  <2>8. QED
    BY <1>3, <2>3, <2>4, <2>5, <2>6, <2>7 DEF HookStep
<1>4. QED
  BY <1>2, <1>3 DEF HooksNext

LEMMA HooksInvariance == HooksSpec => []HooksInv
  BY InitHooksInv, HooksStep, PTL DEF HooksSpec

\* RunHooks, for any number of hooks and attempts and in whatever order the results come: it
\* returns an error if and only if a hook did not succeed in the end, and one that failed has
\* had every attempt unless its command could not be started.
LEMMA HooksAreReported == HooksInv => Reported
  BY DEF HooksInv, ResultsIn, HookInOrder, HooksTypeOK, Reported, AllResults, Succeeded
-----------------------------------------------------------------------------
(***************************************************************************)
(* The analytics of a command.                                             *)
(***************************************************************************)
SessionTypes ==
  /\ nextId \in 2..(MaxObjects + 1)
  /\ objects \subseteq 1..(nextId - 1) /\ awaited \subseteq Ids /\ todo \subseteq 1..(nextId - 1)
  /\ mutex \in Senders \cup {<<>>, <<0, "All">>}
  /\ at \in {"run", "all", "each", "wait", "end"}
  /\ sender \in [Senders -> {"none", "lock", "post", "leave", "unlock", "gone"}]
  /\ complete \subseteq {1} /\ posted \in [Ids -> Nat]

\* Who holds the mutex.
Holding ==
  /\ at = "each" <=> mutex = <<0, "All">>
  /\ \A g \in Senders : sender[g] \in {"post", "leave", "unlock"} <=> mutex = g

\* What is there has not been posted, what is not there has been, once, or is in the hands of
\* the goroutine that holds the mutex.
InHand ==
  /\ at # "run" => 1 \in complete
  /\ \A i \in Ids : i \in objects \/ i >= nextId => posted[i] = 0
  /\ \A i \in 1..(nextId - 1) : i \notin objects =>
       posted[i] = 1 \/ \E g \in Senders : mutex = g /\ g[1] = i /\ sender[g] = "post"
  /\ \A g \in Senders :
       /\ sender[g] # "none" => g[1] \in 1..(nextId - 1) /\ at # "run"
       /\ sender[g] = "post" => g[1] \notin objects /\ posted[g[1]] = 0
       /\ sender[g] \in {"leave", "unlock", "gone"} => posted[g[1]] = 1

\* What has not been posted is waited for, as soon as a goroutine has been started for it.
Awaited ==
  /\ \A g \in Senders :
       \/ sender[g] = "post"
       \/ sender[g] = "lock" /\ g[1] \in objects
       => g[1] \in awaited
  /\ at = "each" => \A i \in objects : i \in todo \/ i \in awaited
  /\ at = "wait" => objects \subseteq awaited

SessionInv == SessionTypes /\ Holding /\ InHand /\ Awaited /\ SentOnce

\* The names the mutex may bear differ.
LEMMA Holders ==
  /\ <<>> # <<0, "All">>
  /\ \A g \in Senders : g # <<>> /\ g # <<0, "All">> /\ g[1] \in Ids /\ g = <<g[1], g[2]>>
<1>1. 0 \notin Ids
  BY SessionAssumption DEF Ids
<1>2. QED
  BY <1>1 DEF Senders

LEMMA InitSessionInv == SessionInit => SessionInv
<1> SUFFICES ASSUME SessionInit PROVE SessionInv
  OBVIOUS
<1>1. 1 \in Ids /\ 2 \in 2..(MaxObjects + 1) /\ 1 \in 1..1
  BY SessionAssumption DEF Ids
<1>2. \A g \in Senders : sender[g] = "none"
  BY DEF SessionInit
<1>3. SessionTypes
  BY <1>1 DEF SessionInit, SessionTypes
<1>4. Holding
  BY <1>2, Holders DEF SessionInit, Holding
<1>5. InHand
  <2>1. \A i \in 1..(nextId - 1) : i \in objects
    BY DEF SessionInit
  <2>2. \A i \in Ids : posted[i] = 0
    BY DEF SessionInit
  <2>3. QED
    BY <1>2, <2>1, <2>2 DEF SessionInit, InHand
<1>6. QED
  BY <1>2, <1>3, <1>4, <1>5 DEF SessionInit, SessionInv, Awaited, SentOnce

LEMMA SessionStep == SessionInv /\ [SessionNext]_sessionVars => SessionInv'
<1> SUFFICES ASSUME SessionInv, [SessionNext]_sessionVars PROVE SessionInv'
  OBVIOUS
<1> USE SessionAssumption
<1>0. SessionTypes /\ Holding /\ InHand /\ Awaited /\ SentOnce
  BY DEF SessionInv
<1>a. 1 \in Ids /\ 1..(nextId - 1) \subseteq Ids
  BY <1>0 DEF SessionTypes, Ids
<1>1. CASE UNCHANGED sessionVars
  BY <1>0, <1>1 DEF sessionVars, SessionInv, SessionTypes, Holding, InHand, Awaited, SentOnce
<1>2. CASE Add
  <2>1. /\ at = "run" /\ nextId' = nextId + 1 /\ objects' = objects \cup {nextId}
        /\ nextId \in Ids /\ nextId' \in 2..(MaxObjects + 1)
        /\ UNCHANGED <<awaited, mutex, at, todo, sender, complete, posted>>
    BY <1>0, <1>2 DEF Add, SessionTypes, Ids
  <2>2. 1..(nextId' - 1) = 1..(nextId - 1) \cup {nextId}
    BY <1>0, <2>1 DEF SessionTypes
  <2>3. \A g \in Senders : sender[g] = "none"
    BY <1>0, <2>1 DEF InHand
  <2>4. posted[nextId] = 0
    BY <1>0, <2>1 DEF InHand, SessionTypes
  <2>5. QED
    BY <1>0, <2>1, <2>2, <2>3, <2>4 DEF SessionInv, SessionTypes, Holding, InHand, Awaited, SentOnce
<1>3. CASE CommandDone
  <2> DEFINE h == <<1, "Done">>
  <2>1. /\ at = "run" /\ at' = "all" /\ complete' = complete \cup {1} /\ awaited' = awaited \cup {1}
        /\ h \in Senders /\ sender' = [sender EXCEPT ![h] = "lock"] /\ h[1] = 1
        /\ UNCHANGED <<objects, nextId, mutex, todo, posted>>
    BY <1>3, <1>a DEF CommandDone, SendOne, Senders
  <2> HIDE DEF h
  <2>2. \A g \in Senders : sender[g] = "none"
    BY <1>0, <2>1 DEF InHand
  <2>3. \A g \in Senders : sender'[g] = IF g = h THEN "lock" ELSE "none"
    BY <1>0, <2>1, <2>2 DEF SessionTypes
  <2>4. 1 \in 1..(nextId - 1)
    BY <1>0 DEF SessionTypes
  <2>5. SessionTypes'
    BY <1>0, <1>a, <2>1 DEF SessionTypes
  <2>6. Holding'
    BY <1>0, <2>1, <2>2, <2>3 DEF Holding
  <2>7. InHand'
    BY <1>0, <2>1, <2>2, <2>3, <2>4 DEF InHand
  <2>8. QED
    BY <1>0, <2>1, <2>3, <2>5, <2>6, <2>7 DEF SessionInv, Awaited, SentOnce
<1>4. CASE SendAll
  <2>1. /\ at = "all" /\ mutex = <<>> /\ mutex' = <<0, "All">> /\ todo' = objects /\ at' = "each"
        /\ UNCHANGED <<objects, nextId, awaited, sender, complete, posted>>
    BY <1>4 DEF SendAll
  <2>2. \A g \in Senders : sender[g] \notin {"post", "leave", "unlock"} /\ mutex # g /\ mutex' # g
    BY <1>0, <2>1, Holders DEF Holding
  <2>3. SessionTypes'
    BY <1>0, <2>1 DEF SessionTypes
  <2>4. Holding' /\ InHand'
    BY <1>0, <2>1, <2>2 DEF Holding, InHand
  <2>5. QED
    BY <1>0, <2>1, <2>3, <2>4 DEF SessionInv, Awaited, SentOnce
<1>5. CASE SendNext
  <2>1. at = "each" /\ mutex = <<0, "All">> /\ UNCHANGED <<objects, nextId, complete, posted>>
    BY <1>0, <1>5 DEF SendNext, Holding
  <2>2. \A g \in Senders : sender[g] \notin {"post", "leave", "unlock"} /\ mutex # g
    BY <1>0, <2>1, Holders DEF Holding
  <2>3. ASSUME NEW i \in todo, SendOne(i, "All"), todo' = todo \ {i}, UNCHANGED <<mutex, at>>
        PROVE  SessionInv'
    <3> DEFINE h == <<i, "All">>
    <3>1. i \in 1..(nextId - 1) /\ i \in Ids
      BY <1>0, <1>a DEF SessionTypes
    <3>2. /\ h \in Senders /\ h[1] = i /\ sender' = [sender EXCEPT ![h] = "lock"]
          /\ awaited' = awaited \cup {i}
      BY <2>3, <3>1 DEF SendOne, Senders
    <3> HIDE DEF h
    <3>3. \A g \in Senders : sender'[g] = IF g = h THEN "lock" ELSE sender[g]
      BY <1>0, <3>2 DEF SessionTypes
    <3>4. SessionTypes'
      BY <1>0, <2>1, <2>3, <3>1, <3>2 DEF SessionTypes
    <3>5. Holding'
      BY <1>0, <2>1, <2>2, <2>3, <3>3 DEF Holding
    <3>6. InHand'
      <4>1. \A j \in 1..(nextId - 1) : j \notin objects => posted[j] = 1
        BY <1>0, <2>2 DEF InHand
      <4>2. QED
        BY <1>0, <2>1, <2>3, <3>1, <3>2, <3>3, <4>1 DEF InHand
    <3>7. Awaited'
      BY <1>0, <2>1, <2>3, <3>2, <3>3 DEF Awaited
    <3>8. QED
      BY <2>1, <2>3, <3>4, <3>5, <3>6, <3>7 DEF SessionInv, SentOnce
  <2>4. ASSUME todo = {}, mutex' = <<>>, at' = "wait", UNCHANGED <<awaited, sender, todo>>
        PROVE  SessionInv'
    <3>1. SessionTypes'
      BY <1>0, <2>1, <2>4 DEF SessionTypes
    <3>2. Holding'
      BY <1>0, <2>1, <2>2, <2>4, Holders DEF Holding
    <3>3. InHand'
      BY <1>0, <2>1, <2>2, <2>4 DEF InHand
    <3>4. QED
      BY <1>0, <2>1, <2>4, <3>1, <3>2, <3>3 DEF SessionInv, Awaited, SentOnce
  <2>5. QED
    BY <1>5, <2>3, <2>4 DEF SendNext
<1>6. CASE Finish
  <2>1. /\ at = "wait" /\ awaited = {} /\ at' = "end"
        /\ UNCHANGED <<objects, nextId, awaited, mutex, todo, sender, complete, posted>>
    BY <1>6 DEF Finish
  <2>2. objects = {} /\ \A g \in Senders : sender[g] # "post"
    BY <1>0, <2>1 DEF Awaited
  <2>3. \A i \in 1..(nextId - 1) : posted[i] = 1
    BY <1>0, <2>2 DEF InHand
  <2>4. QED
    BY <1>0, <2>1, <2>3 DEF SessionInv, SessionTypes, Holding, InHand, Awaited, SentOnce
<1>7. ASSUME NEW g \in Senders, SenderStep(g) PROVE SessionInv'
  <2>1. at # "end" /\ UNCHANGED <<nextId, at, todo, complete>> /\ g[1] \in Ids
    BY <1>7, Holders DEF SenderStep, LockSession, Post, Leave, UnlockSession, Advance
  <2>2. SentOnce'
    BY <2>1 DEF SentOnce
  <2>3. CASE LockSession(g)
    <3> DEFINE to == IF g[1] \in objects THEN "post" ELSE "leave"
    <3>1. /\ mutex = <<>> /\ mutex' = g /\ sender[g] = "lock" /\ objects' = objects \ {g[1]}
          /\ UNCHANGED <<awaited, posted>>
      BY <2>3 DEF LockSession, Advance
    <3>2. \A f \in Senders : sender'[f] = IF f = g THEN to ELSE sender[f]
      BY <1>0, <2>3 DEF LockSession, Advance, SessionTypes
    <3>3. sender' \in [Senders -> {"none", "lock", "post", "leave", "unlock", "gone"}]
      BY <1>0, <2>3 DEF LockSession, Advance, SessionTypes
    <3>4. \A f \in Senders : sender[f] \notin {"post", "leave", "unlock"} /\ mutex # f
      BY <1>0, <3>1, Holders DEF Holding
    <3>5. g[1] \in 1..(nextId - 1) /\ at # "run"
      BY <1>0, <3>1 DEF InHand
    <3>6. SessionTypes'
      BY <1>0, <2>1, <3>1, <3>3 DEF SessionTypes
    <3>7. Holding'
      BY <1>0, <2>1, <3>1, <3>2, <3>4, Holders DEF Holding
    <3>8. InHand'
      <4>1. \A i \in 1..(nextId - 1) : i \notin objects => posted[i] = 1
        BY <1>0, <3>4 DEF InHand
      <4>2. \A i \in 1..(nextId - 1) : i \notin objects' =>
              posted'[i] = 1 \/ \E f \in Senders : mutex' = f /\ f[1] = i /\ sender'[f] = "post"
        BY <3>1, <3>2, <4>1
      <4>3. \A f \in Senders :
              /\ sender'[f] # "none" => f[1] \in 1..(nextId - 1) /\ at # "run"
              /\ sender'[f] = "post" => f[1] \notin objects' /\ posted[f[1]] = 0
              /\ sender'[f] \in {"leave", "unlock", "gone"} => posted[f[1]] = 1
        <5> SUFFICES ASSUME NEW f \in Senders
                     PROVE  /\ sender'[f] # "none" => f[1] \in 1..(nextId - 1) /\ at # "run"
                            /\ sender'[f] = "post" => f[1] \notin objects' /\ posted[f[1]] = 0
                            /\ sender'[f] \in {"leave", "unlock", "gone"} => posted[f[1]] = 1
          OBVIOUS
        <5>1. CASE f # g
          BY <1>0, <3>2, <3>4, <5>1 DEF InHand
        <5>2. CASE f = g
          <6>1. g[1] \in objects => posted[g[1]] = 0
            BY <1>0, <2>1 DEF InHand
          <6>2. g[1] \notin objects => posted[g[1]] = 1
            BY <3>5, <4>1
          <6>3. QED
            BY <3>1, <3>2, <3>5, <5>2, <6>1, <6>2
        <5>3. QED
          BY <5>1, <5>2
      <4>4. QED
        BY <1>0, <2>1, <3>1, <4>2, <4>3 DEF InHand
    <3>9. Awaited'
      BY <1>0, <2>1, <3>1, <3>2 DEF Awaited
    <3>10. QED
      BY <2>2, <3>6, <3>7, <3>8, <3>9 DEF SessionInv
  <2>4. CASE Post(g)
    <3>1. sender[g] = "post" /\ mutex = g /\ UNCHANGED <<objects, awaited, mutex>>
      BY <1>0, <2>4 DEF Post, Advance, Holding
    <3>2. \A f \in Senders : sender'[f] = IF f = g THEN "leave" ELSE sender[f]
      BY <1>0, <2>4 DEF Post, Advance, SessionTypes
    <3>3. sender' \in [Senders -> {"none", "lock", "post", "leave", "unlock", "gone"}]
      BY <1>0, <2>4 DEF Post, Advance, SessionTypes
    <3>4. g[1] \notin objects /\ posted[g[1]] = 0 /\ at # "run" /\ 1 \in complete
      BY <1>0, <3>1 DEF InHand
    <3>5. posted' = [posted EXCEPT ![g[1]] = posted[g[1]] + 1]
      BY <2>4, <3>4 DEF Post
    <3>6. posted' \in [Ids -> Nat] /\ posted'[g[1]] = 1 /\ \A i \in Ids : i # g[1] => posted'[i] = posted[i]
      BY <1>0, <2>1, <3>4, <3>5 DEF SessionTypes
    <3>7. \A f \in Senders : f # g => sender[f] \notin {"post", "leave", "unlock"}
      BY <1>0, <3>1 DEF Holding
    <3>8. SessionTypes'
      BY <1>0, <2>1, <3>1, <3>3, <3>6 DEF SessionTypes
    <3>9. Holding'
      BY <1>0, <2>1, <3>1, <3>2 DEF Holding
    <3>10. InHand'
      <4>1. \A i \in Ids : i \in objects \/ i >= nextId => posted'[i] = 0
        <5>1. g[1] \in 1..(nextId - 1) /\ nextId \in Nat
          BY <1>0, <3>1 DEF InHand, SessionTypes
        <5>2. QED
          BY <1>0, <3>4, <3>6, <5>1 DEF InHand
      <4>2. \A i \in 1..(nextId - 1) : i \notin objects => posted'[i] = 1
        BY <1>0, <1>a, <3>1, <3>6 DEF InHand
      <4>3. \A f \in Senders :
              /\ sender'[f] # "none" => f[1] \in 1..(nextId - 1) /\ at # "run"
              /\ sender'[f] # "post"
              /\ sender'[f] \in {"leave", "unlock", "gone"} => posted'[f[1]] = 1
        BY <1>0, <1>a, <3>1, <3>2, <3>6, <3>7 DEF InHand
      <4>4. QED
        BY <1>0, <2>1, <3>1, <4>1, <4>2, <4>3 DEF InHand
    <3>11. Awaited'
      BY <1>0, <2>1, <3>1, <3>2 DEF Awaited
    <3>12. QED
      BY <2>2, <3>8, <3>9, <3>10, <3>11 DEF SessionInv
  <2>5. CASE Leave(g)
    <3>1. /\ sender[g] = "leave" /\ mutex = g /\ UNCHANGED <<objects, mutex, posted>>
          /\ awaited' = awaited \ {g[1]}
      BY <1>0, <2>5 DEF Leave, Advance, Holding
    <3>2. \A f \in Senders : sender'[f] = IF f = g THEN "unlock" ELSE sender[f]
      BY <1>0, <2>5 DEF Leave, Advance, SessionTypes
    <3>3. sender' \in [Senders -> {"none", "lock", "post", "leave", "unlock", "gone"}]
      BY <1>0, <2>5 DEF Leave, Advance, SessionTypes
    <3>4. posted[g[1]] = 1 /\ g[1] \notin objects
      BY <1>0, <2>1, <3>1 DEF InHand
    <3>5. \A f \in Senders : f # g => sender[f] \notin {"post", "leave", "unlock"}
      BY <1>0, <3>1 DEF Holding
    <3>6. SessionTypes'
      BY <1>0, <2>1, <3>1, <3>3 DEF SessionTypes
    <3>7. Holding'
      BY <1>0, <2>1, <3>1, <3>2 DEF Holding
    <3>8. InHand'
      BY <1>0, <2>1, <3>1, <3>2, <3>5 DEF InHand
    <3>9. Awaited'
      BY <1>0, <2>1, <3>1, <3>2, <3>4, <3>5 DEF Awaited
    <3>10. QED
      BY <2>2, <3>6, <3>7, <3>8, <3>9 DEF SessionInv
  <2>6. CASE UnlockSession(g)
    <3>1. sender[g] = "unlock" /\ mutex = g /\ mutex' = <<>> /\ UNCHANGED <<objects, awaited, posted>>
      BY <1>0, <2>6 DEF UnlockSession, Advance, Holding
    <3>2. \A f \in Senders : sender'[f] = IF f = g THEN "gone" ELSE sender[f]
      BY <1>0, <2>6 DEF UnlockSession, Advance, SessionTypes
    <3>3. sender' \in [Senders -> {"none", "lock", "post", "leave", "unlock", "gone"}]
      BY <1>0, <2>6 DEF UnlockSession, Advance, SessionTypes
    <3>4. \A f \in Senders : f # g => sender[f] \notin {"post", "leave", "unlock"}
      BY <1>0, <3>1 DEF Holding
    <3>5. SessionTypes'
      BY <1>0, <2>1, <3>1, <3>3 DEF SessionTypes
    <3>6. Holding'
      BY <1>0, <2>1, <3>1, <3>2, <3>4, Holders DEF Holding
    <3>7. InHand'
      BY <1>0, <2>1, <3>1, <3>2, <3>4 DEF InHand
    <3>8. Awaited'
      BY <1>0, <2>1, <3>1, <3>2 DEF Awaited
    <3>9. QED
      BY <2>2, <3>5, <3>6, <3>7, <3>8 DEF SessionInv
  <2>7. QED
    BY <1>7, <2>3, <2>4, <2>5, <2>6 DEF SenderStep
<1>8. QED
  BY <1>1, <1>2, <1>3, <1>4, <1>5, <1>6, <1>7 DEF SessionNext, SessionMain

LEMMA SessionInvariance == SessionSpec => []SessionInv
  BY InitSessionInv, SessionStep, PTL DEF SessionSpec

\* For any hooks, attempts and objects: RunHooks tells a hook that did not succeed in the end,
\* and only that, and a command ends after all that it measured was sent, once.
THEOREM HandedInRight == HooksSpec /\ SessionSpec => []HandedIn
BY HooksInvariance, HooksAreReported, SessionInvariance, PTL DEF HandedIn, SessionInv
-----------------------------------------------------------------------------
(***************************************************************************)
(* The client of cipd.                                                     *)
(***************************************************************************)
\* The places where a process works with the client, and where it gets one.
Working == {"ask", "receive", "ensure", "resolve", "login"}
GettingOne == {"selfUpdate", "download", "writing", "rename"}

CipdTypeOK ==
  /\ binary \in {"none", "broken", "stale", "current"}
  /\ yes \subseteq Packages
  /\ cpc \in [Procs -> Working \cup GettingOne \cup {"stat", "done", "failed", "killed"}]
  /\ next \in [Procs -> {"ask", "ensure", "resolve", "login"}]
  /\ once \in [Procs -> BOOLEAN] /\ missed \in [Procs -> BOOLEAN]
  /\ temp \in [Procs -> {"none", "torn", "current"}]
  /\ ask \in [Procs -> [Packages -> {"off", "wait", "ask", "yes", "no", "failed", "gone"}]]
  /\ answer \in [Procs -> [Packages -> {"none", "yes", "no", "failed"}]]

\* Who has updated or downloaded the client, and is not at it again, has the current one,
\* or has failed to get it; what is renamed has the known digest.
ClientOf(p) ==
  /\ (once[p] /\ cpc[p] \notin GettingOne \cup {"killed"}) \/ cpc[p] \in Working =>
       binary = "current" \/ missed[p]
  /\ cpc[p] = "rename" => temp[p] = "current"

\* What a goroutine, or an answer received, says of a package.
Told(p, k, a) ==
  /\ a = "yes" => k \in yes /\ <<p, k>> \notin spoilt
  /\ a = "no" => IF p \in Fetching THEN k \notin yes \/ <<p, k>> \in spoilt
                                   ELSE k \notin yes /\ <<p, k>> \notin spoilt
  /\ a = "failed" => p \notin Fetching

\* A package is asked about, then answered, then received, while its process waits.
QueryOf(p, k) ==
  /\ ask[p][k] \in {"wait", "ask"} => <<p, k>> \notin spoilt
  /\ ask[p][k] \in {"wait", "ask", "yes", "no", "failed"} => cpc[p] = "receive" /\ answer[p][k] = "none"
  /\ Told(p, k, ask[p][k]) /\ Told(p, k, answer[p][k])

\* What is done next was decided on all the answers.
DecidedOf(p) ==
  /\ cpc[p] \in {"ask", "receive"} => next[p] = "ask"
  /\ cpc[p] \in {"ensure", "resolve", "login"} => next[p] = cpc[p]
  /\ next[p] \in {"ensure", "login"} => p \in Fetching /\ \A k \in Packages : answer[p][k] # "none"
  /\ next[p] = "resolve" => p \notin Fetching /\ \A k \in Packages : answer[p][k] = "no"

CipdInv ==
  /\ CipdTypeOK
  /\ \A p \in Procs : ClientOf(p) /\ DecidedOf(p) /\ \A k \in Packages : QueryOf(p, k)

LEMMA CipdInitially == CipdInit => CipdInv
<1> SUFFICES ASSUME CipdInit PROVE CipdInv OBVIOUS
<1>1. CipdTypeOK BY DEF CipdInit, CipdTypeOK, Working, GettingOne, NoGoroutine, NoAnswer
<1>2. ASSUME NEW p \in Procs PROVE ClientOf(p) /\ DecidedOf(p)
  BY DEF CipdInit, ClientOf, DecidedOf, Working, GettingOne
<1>3. ASSUME NEW p \in Procs, NEW k \in Packages PROVE QueryOf(p, k)
  BY DEF CipdInit, QueryOf, Told, NoGoroutine, NoAnswer
<1> QED BY <1>1, <1>2, <1>3 DEF CipdInv

\* Every answer has been received.
LEMMA AllAnswered ==
  ASSUME CipdTypeOK, NEW p \in Procs, AllReceived(p)
  PROVE  \A k \in Packages : answer[p][k] # "none"
<1> DEFINE S == {k \in Packages : answer[p][k] # "none"}
<1>1. S \subseteq Packages OBVIOUS
<1>2. IsFiniteSet(Packages) BY CipdAssumption
<1>3. Cardinality(S) = Cardinality(Packages) BY DEF AllReceived
<1>4. IsFiniteSet(S) /\ (S # Packages => Cardinality(S) < Cardinality(Packages))
  <2>1. IsFiniteSet(S) /\ Cardinality(S) \in Nat BY <1>1, <1>2, FS_Subset, FS_CardinalityType
  <2>2. Cardinality(S) <= Cardinality(Packages) /\ (Cardinality(S) = Cardinality(Packages) => S = Packages)
    BY <1>1, <1>2, FS_Subset
  <2>3. Cardinality(Packages) \in Nat BY <1>2, FS_CardinalityType
  <2> QED BY <2>1, <2>2, <2>3, <1>3
<1>5. S = Packages
  <2>1. Cardinality(S) = Cardinality(Packages) => S = Packages BY <1>1, <1>2, FS_Subset
  <2> QED BY <2>1, <1>3
<1> QED BY <1>5

LEMMA CipdTypes == CipdInv /\ [CipdNext]_cipdVars => CipdTypeOK'
<1> SUFFICES ASSUME CipdInv, [CipdNext]_cipdVars PROVE CipdTypeOK' OBVIOUS
<1> CipdTypeOK BY DEF CipdInv
<1> USE CipdAssumption DEF CipdTypeOK, To, CipdFault, FailProcess, BootstrapFails, asking, boot, Working, GettingOne
<1>1. ASSUME NEW p \in Procs, Bootstrap(p) PROVE CipdTypeOK' BY <1>1 DEF Bootstrap
<1>2. ASSUME NEW p \in Procs, SelfUpdate(p) PROVE CipdTypeOK' BY <1>2 DEF SelfUpdate
<1>3. ASSUME NEW p \in Procs, Download(p) PROVE CipdTypeOK' BY <1>3 DEF Download, Verified
<1>4. ASSUME NEW p \in Procs, WriteFails(p) PROVE CipdTypeOK' BY <1>4 DEF WriteFails
<1>5. ASSUME NEW p \in Procs, Rename(p) PROVE CipdTypeOK'
  <2>1. temp[p] = "current" BY <1>5 DEF CipdInv, ClientOf, Rename
  <2>2. temp' \in [Procs -> {"none", "torn", "current"}] BY <1>5 DEF Rename
  <2>3. cpc' \in [Procs -> Working \cup GettingOne \cup {"stat", "done", "failed", "killed"}]
    BY <1>5 DEF Rename
  <2>4. binary' \in {"none", "broken", "stale", "current"} BY <1>5, <2>1 DEF Rename
  <2>5. missed' \in [Procs -> BOOLEAN] BY <1>5 DEF Rename
  <2> QED BY <1>5, <2>2, <2>3, <2>4, <2>5 DEF Rename
<1>6. ASSUME NEW p \in Procs, CheckPackages(p) PROVE CipdTypeOK' BY <1>6 DEF CheckPackages, NoAnswer
<1>7. ASSUME NEW p \in Procs, Answered(p) PROVE CipdTypeOK' BY <1>7 DEF Answered
<1>8. ASSUME NEW p \in Procs, EnsureTimesOut(p) PROVE CipdTypeOK' BY <1>8 DEF EnsureTimesOut
<1>9. ASSUME NEW p \in Procs, CipdEnds(p) PROVE CipdTypeOK' BY <1>9 DEF CipdEnds
<1>10. ASSUME NEW p \in Procs, Retry(p) PROVE CipdTypeOK' BY <1>10 DEF Retry
<1>11. ASSUME NEW p \in Procs, EnsureEnds(p) PROVE CipdTypeOK' BY <1>11 DEF EnsureEnds
<1>12. ASSUME NEW p \in Procs, KillProcess(p) PROVE CipdTypeOK' BY <1>12 DEF KillProcess, NoGoroutine
<1>13. ASSUME NEW p \in Procs, NEW j \in Packages, Receive(p, j) PROVE CipdTypeOK' BY <1>13 DEF Receive
<1>14. ASSUME NEW p \in Procs, NEW j \in Packages, Acquire(p, j) PROVE CipdTypeOK' BY <1>14 DEF Acquire
<1>15. ASSUME NEW p \in Procs, NEW j \in Packages, Query(p, j) PROVE CipdTypeOK'
  <2>1. PICK a \in {"yes", "no", "failed"} : ask' = [ask EXCEPT ![p][j] = a]
    BY <1>15 DEF Query, OnError
  <2>2. ask' \in [Procs -> [Packages -> {"off", "wait", "ask", "yes", "no", "failed", "gone"}]] BY <2>1
  <2> QED BY <1>15, <2>2 DEF Query
<1>16. CASE UNCHANGED cipdVars BY <1>16 DEF cipdVars
<1> QED BY <1>1, <1>2, <1>3, <1>4, <1>5, <1>6, <1>7, <1>8, <1>9, <1>10, <1>11, <1>12, <1>13, <1>14, <1>15, <1>16 DEF CipdNext, ProcessMain, Goroutine

LEMMA CipdClient == CipdInv /\ [CipdNext]_cipdVars => \A q \in Procs : ClientOf(q)'
<1> SUFFICES ASSUME CipdInv, [CipdNext]_cipdVars, NEW q \in Procs PROVE ClientOf(q)' OBVIOUS
<1> CipdTypeOK /\ ClientOf(q) /\ DecidedOf(q) BY DEF CipdInv
<1> USE DEF CipdTypeOK, ClientOf, To, CipdFault, FailProcess, BootstrapFails, asking, boot, Working, GettingOne
<1>1. ASSUME NEW p \in Procs, Bootstrap(p) PROVE ClientOf(q)'
  <2>1. ClientOf(p) /\ DecidedOf(p) BY DEF CipdInv
  <2> QED BY <1>1, <2>1 DEF Bootstrap, ClientOf, DecidedOf
<1>2. ASSUME NEW p \in Procs, SelfUpdate(p) PROVE ClientOf(q)' BY <1>2 DEF SelfUpdate
<1>3. ASSUME NEW p \in Procs, Download(p) PROVE ClientOf(q)'
  <2>1. ClientOf(p) /\ DecidedOf(p) BY DEF CipdInv
  <2> QED BY <1>3, <2>1 DEF Download, Verified, ClientOf, DecidedOf
<1>4. ASSUME NEW p \in Procs, WriteFails(p) PROVE ClientOf(q)' BY <1>4 DEF WriteFails
<1>5. ASSUME NEW p \in Procs, Rename(p) PROVE ClientOf(q)'
  <2>1. ClientOf(p) /\ DecidedOf(p) BY DEF CipdInv
  <2> QED BY <1>5, <2>1 DEF Rename, ClientOf, DecidedOf
<1>6. ASSUME NEW p \in Procs, CheckPackages(p) PROVE ClientOf(q)' BY <1>6 DEF CheckPackages, NoAnswer
<1>7. ASSUME NEW p \in Procs, Answered(p) PROVE ClientOf(q)' BY <1>7 DEF Answered
<1>8. ASSUME NEW p \in Procs, EnsureTimesOut(p) PROVE ClientOf(q)' BY <1>8 DEF EnsureTimesOut
<1>9. ASSUME NEW p \in Procs, CipdEnds(p) PROVE ClientOf(q)' BY <1>9 DEF CipdEnds
<1>10. ASSUME NEW p \in Procs, Retry(p) PROVE ClientOf(q)' BY <1>10 DEF Retry
<1>11. ASSUME NEW p \in Procs, EnsureEnds(p) PROVE ClientOf(q)' BY <1>11 DEF EnsureEnds
<1>12. ASSUME NEW p \in Procs, KillProcess(p) PROVE ClientOf(q)' BY <1>12 DEF KillProcess, NoGoroutine
<1>13. ASSUME NEW p \in Procs, NEW j \in Packages, Receive(p, j) PROVE ClientOf(q)' BY <1>13 DEF Receive
<1>14. ASSUME NEW p \in Procs, NEW j \in Packages, Acquire(p, j) PROVE ClientOf(q)' BY <1>14 DEF Acquire
<1>15. ASSUME NEW p \in Procs, NEW j \in Packages, Query(p, j) PROVE ClientOf(q)' BY <1>15 DEF Query, OnError
<1>16. CASE UNCHANGED cipdVars BY <1>16 DEF cipdVars
<1> QED BY <1>1, <1>2, <1>3, <1>4, <1>5, <1>6, <1>7, <1>8, <1>9, <1>10, <1>11, <1>12, <1>13, <1>14, <1>15, <1>16 DEF CipdNext, ProcessMain, Goroutine

LEMMA CipdDecided == CipdInv /\ [CipdNext]_cipdVars => \A q \in Procs : DecidedOf(q)'
<1> SUFFICES ASSUME CipdInv, [CipdNext]_cipdVars, NEW q \in Procs PROVE DecidedOf(q)' OBVIOUS
<1> CipdTypeOK /\ ClientOf(q) /\ DecidedOf(q) BY DEF CipdInv
<1> USE DEF CipdTypeOK, DecidedOf, To, CipdFault, FailProcess, BootstrapFails, asking, boot, Working, GettingOne
<1>1. ASSUME NEW p \in Procs, Bootstrap(p) PROVE DecidedOf(q)'
  <2>1. ClientOf(p) /\ DecidedOf(p) BY DEF CipdInv
  <2> QED BY <1>1, <2>1 DEF Bootstrap, ClientOf, DecidedOf
<1>2. ASSUME NEW p \in Procs, SelfUpdate(p) PROVE DecidedOf(q)' BY <1>2 DEF SelfUpdate
<1>3. ASSUME NEW p \in Procs, Download(p) PROVE DecidedOf(q)'
  <2>1. ClientOf(p) /\ DecidedOf(p) BY DEF CipdInv
  <2> QED BY <1>3, <2>1 DEF Download, Verified, ClientOf, DecidedOf
<1>4. ASSUME NEW p \in Procs, WriteFails(p) PROVE DecidedOf(q)' BY <1>4 DEF WriteFails
<1>5. ASSUME NEW p \in Procs, Rename(p) PROVE DecidedOf(q)'
  <2>1. ClientOf(p) /\ DecidedOf(p) BY DEF CipdInv
  <2> QED BY <1>5, <2>1 DEF Rename, ClientOf, DecidedOf
<1>6. ASSUME NEW p \in Procs, CheckPackages(p) PROVE DecidedOf(q)' BY <1>6 DEF CheckPackages, NoAnswer
<1>7. ASSUME NEW p \in Procs, Answered(p) PROVE DecidedOf(q)'
  <2>1. \A k \in Packages : answer[p][k] # "none" BY <1>7, AllAnswered DEF Answered
  <2> QED BY <1>7, <2>1 DEF Answered
<1>8. ASSUME NEW p \in Procs, EnsureTimesOut(p) PROVE DecidedOf(q)' BY <1>8 DEF EnsureTimesOut
<1>9. ASSUME NEW p \in Procs, CipdEnds(p) PROVE DecidedOf(q)' BY <1>9 DEF CipdEnds
<1>10. ASSUME NEW p \in Procs, Retry(p) PROVE DecidedOf(q)' BY <1>10 DEF Retry
<1>11. ASSUME NEW p \in Procs, EnsureEnds(p) PROVE DecidedOf(q)' BY <1>11 DEF EnsureEnds
<1>12. ASSUME NEW p \in Procs, KillProcess(p) PROVE DecidedOf(q)' BY <1>12 DEF KillProcess, NoGoroutine
<1>13. ASSUME NEW p \in Procs, NEW j \in Packages, Receive(p, j) PROVE DecidedOf(q)' BY <1>13 DEF Receive
<1>14. ASSUME NEW p \in Procs, NEW j \in Packages, Acquire(p, j) PROVE DecidedOf(q)' BY <1>14 DEF Acquire
<1>15. ASSUME NEW p \in Procs, NEW j \in Packages, Query(p, j) PROVE DecidedOf(q)' BY <1>15 DEF Query, OnError
<1>16. CASE UNCHANGED cipdVars BY <1>16 DEF cipdVars
<1> QED BY <1>1, <1>2, <1>3, <1>4, <1>5, <1>6, <1>7, <1>8, <1>9, <1>10, <1>11, <1>12, <1>13, <1>14, <1>15, <1>16 DEF CipdNext, ProcessMain, Goroutine

LEMMA CipdQueries == CipdInv /\ [CipdNext]_cipdVars => \A q \in Procs : \A k \in Packages : QueryOf(q, k)'
<1> SUFFICES ASSUME CipdInv, [CipdNext]_cipdVars, NEW q \in Procs, NEW k \in Packages PROVE QueryOf(q, k)' OBVIOUS
<1> CipdTypeOK /\ DecidedOf(q) /\ QueryOf(q, k) BY DEF CipdInv
<1> USE DEF CipdTypeOK, QueryOf, Told, To, CipdFault, FailProcess, BootstrapFails, asking, boot, Working, GettingOne
<1>1. ASSUME NEW p \in Procs, Bootstrap(p) PROVE QueryOf(q, k)' BY <1>1 DEF Bootstrap
<1>2. ASSUME NEW p \in Procs, SelfUpdate(p) PROVE QueryOf(q, k)' BY <1>2 DEF SelfUpdate
<1>3. ASSUME NEW p \in Procs, Download(p) PROVE QueryOf(q, k)' BY <1>3 DEF Download, Verified
<1>4. ASSUME NEW p \in Procs, WriteFails(p) PROVE QueryOf(q, k)' BY <1>4 DEF WriteFails
<1>5. ASSUME NEW p \in Procs, Rename(p) PROVE QueryOf(q, k)' BY <1>5 DEF Rename
<1>6. ASSUME NEW p \in Procs, CheckPackages(p) PROVE QueryOf(q, k)' BY <1>6 DEF CheckPackages, NoAnswer, DecidedOf
<1>7. ASSUME NEW p \in Procs, Answered(p) PROVE QueryOf(q, k)'
  <2>1. \A j \in Packages : answer[p][j] # "none" BY <1>7, AllAnswered DEF Answered
  <2> QED BY <1>7, <2>1 DEF Answered
<1>8. ASSUME NEW p \in Procs, EnsureTimesOut(p) PROVE QueryOf(q, k)' BY <1>8 DEF EnsureTimesOut
<1>9. ASSUME NEW p \in Procs, CipdEnds(p) PROVE QueryOf(q, k)' BY <1>9 DEF CipdEnds
<1>10. ASSUME NEW p \in Procs, Retry(p) PROVE QueryOf(q, k)' BY <1>10 DEF Retry
<1>11. ASSUME NEW p \in Procs, EnsureEnds(p) PROVE QueryOf(q, k)' BY <1>11 DEF EnsureEnds
<1>12. ASSUME NEW p \in Procs, KillProcess(p) PROVE QueryOf(q, k)' BY <1>12 DEF KillProcess, NoGoroutine
<1>13. ASSUME NEW p \in Procs, NEW j \in Packages, Receive(p, j) PROVE QueryOf(q, k)' BY <1>13 DEF Receive
<1>14. ASSUME NEW p \in Procs, NEW j \in Packages, Acquire(p, j) PROVE QueryOf(q, k)' BY <1>14 DEF Acquire
<1>15. ASSUME NEW p \in Procs, NEW j \in Packages, Query(p, j) PROVE QueryOf(q, k)' BY <1>15 DEF Query, OnError
<1>16. CASE UNCHANGED cipdVars BY <1>16 DEF cipdVars
<1> QED BY <1>1, <1>2, <1>3, <1>4, <1>5, <1>6, <1>7, <1>8, <1>9, <1>10, <1>11, <1>12, <1>13, <1>14, <1>15, <1>16 DEF CipdNext, ProcessMain, Goroutine

LEMMA CipdInvariance == CipdSpec => []CipdInv
<1>1. CipdInit => CipdInv BY CipdInitially
<1>2. CipdInv /\ [CipdNext]_cipdVars => CipdInv'
  BY CipdTypes, CipdClient, CipdDecided, CipdQueries DEF CipdInv
<1> QED BY <1>1, <1>2, PTL DEF CipdSpec

LEMMA ClientIsRight == CipdInv => CipdRight
<1> SUFFICES ASSUME CipdInv PROVE CipdRight OBVIOUS
<1>1. binary \notin {"torn", "foreign"} BY DEF CipdInv, CipdTypeOK
<1>2. ASSUME NEW p \in Procs, cpc[p] \in Working PROVE binary = "current" \/ missed[p]
  BY <1>2 DEF CipdInv, ClientOf
<1>3. ASSUME NEW p \in Procs, cpc[p] \in {"ensure", "login"}, NEW k \in Packages
      PROVE answer[p][k] = IF k \in yes /\ <<p, k>> \notin spoilt THEN "yes" ELSE "no"
  BY <1>3 DEF CipdInv, CipdTypeOK, DecidedOf, QueryOf, Told
<1>4. ASSUME NEW p \in Procs, cpc[p] = "resolve"
      PROVE  yes = {} /\ \A k \in Packages : <<p, k>> \notin spoilt
  <2>1. ASSUME NEW k \in Packages PROVE k \notin yes /\ <<p, k>> \notin spoilt
    BY <1>4 DEF CipdInv, DecidedOf, QueryOf, Told
  <2> QED BY <2>1 DEF CipdInv, CipdTypeOK
<1> QED BY <1>1, <1>2, <1>3, <1>4 DEF CipdRight, Working

\* For any processes, packages, faults and kills: the client of cipd is never torn or
\* foreign, a process works with the current one unless it failed to get it, and what it
\* decides on is what the backend answered of every package, or failed to.
THEOREM CipdIsRight == CipdSpec => []CipdRight
BY CipdInvariance, ClientIsRight, PTL
===============================================================================
