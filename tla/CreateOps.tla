------------------------------ MODULE CreateOps ------------------------------
(***************************************************************************)
(* runCreateOperations of project/operations.go: the create operations of  *)
(* an update are laid out as a tree by the components of their paths, and  *)
(* a pool of jirix.Jobs goroutines takes subtrees from the channel         *)
(* workQueue, runs the operations at the root of the subtree and puts the  *)
(* subtrees below it back on the same channel.  The goroutines are both    *)
(* the consumers and the producers of a channel of fixed capacity.         *)
(*                                                                         *)
(* createOperation.Run is modelled in two steps: the look at the           *)
(* destination, and the checkout that fills it or fails and removes it.    *)
(***************************************************************************)
EXTENDS Naturals, FiniteSets, SequencesExt

CONSTANTS
  Ops,        \* the create operations
  Part,       \* the components of paths
  Dest,       \* Dest[o]: the absolute path of o's destination
  Root,       \* jirix.Root
  Occupied,   \* directories that hold files when the phase starts
  Workers     \* the goroutines, jirix.Jobs of them

ASSUME CreateOpsAssumption ==
  /\ IsFiniteSet(Ops)
  /\ Ops # {}                \* nothing is set up for an empty list
  /\ Dest \in [Ops -> Seq(Part)]
  /\ Root \in Seq(Part)
  /\ Occupied \subseteq Seq(Part)
  /\ IsFiniteSet(Workers)
  /\ Workers # {}            \* NewX refuses -j 0

VARIABLES
  main,       \* where runCreateOperations itself is
  queue,      \* contents of the channel workQueue: roots of subtrees
  closed,     \* have workQueue and errs been closed?
  wg,         \* the counter of the WaitGroup
  errs,       \* contents of the channel errs: the operations that failed
  multiErr,   \* the errors returned
  pc,         \* pc[w]: where worker w is in processTree
  tree,       \* tree[w]: the subtree w processes
  todo,       \* todo[w]: operations at the root of tree[w] not yet run
  cur,        \* cur[w]: the operation w runs, or none
  pend,       \* pend[w]: children of tree[w] not yet put on the queue
  next,       \* next[w]: the child w is putting on the queue
  onDisk,     \* operations whose destination holds files of their checkout
  done        \* operations whose Run returned nil and whose files are there

workerVars == <<pc, tree, todo, cur, pend, next>>
vars == <<main, queue, closed, wg, errs, multiErr, pc, tree, todo, cur, pend,
          next, onDisk, done>>

NoOp == "none"

(***************************************************************************)
(* The work tree: a node for every prefix of a destination.                *)
(***************************************************************************)
Below(n) == {o \in Ops : IsPrefix(n, Dest[o])}

OpsAt(n) == {o \in Ops : Dest[o] = n}

Nodes == {n \in Seq(Part) : Below(n) # {}}

\* The nodes one component below n, on the way to some destination: the map
\* "after" of the node.
Children(n) ==
  {Append(n, Dest[o][Len(n) + 1]) : o \in {p \in Below(n) : Len(Dest[p]) > Len(n)}}

\* Mutant: a place for each worker, as in the scan for projects.
QueueCapShort == Cardinality(Workers)

QueueCap == Cardinality(Ops)
ErrsCap == Cardinality(Ops)
-----------------------------------------------------------------------------
Init ==
  /\ main = "start"
  /\ queue = <<>>
  /\ closed = FALSE
  /\ wg = 0
  /\ errs = <<>>
  /\ multiErr = <<>>
  /\ pc = [w \in Workers |-> "recv"]
  /\ tree = [w \in Workers |-> <<>>]
  /\ todo = [w \in Workers |-> {}]
  /\ cur = [w \in Workers |-> NoOp]
  /\ pend = [w \in Workers |-> {}]
  /\ next = [w \in Workers |-> <<>>]
  /\ onDisk = {}
  /\ done = {}

\* wg.Add(1), workQueue <- head, and the goroutines are started.
StartWorkers ==
  /\ main = "start"
  /\ main' = "wait"
  /\ wg' = 1
  /\ queue' = << <<>> >>
  /\ UNCHANGED <<closed, errs, multiErr, workerVars, onDisk, done>>

\* wg.Wait() returns.
WaitReturns ==
  /\ main = "wait"
  /\ wg = 0
  /\ main' = "closing"
  /\ UNCHANGED <<queue, closed, wg, errs, multiErr, workerVars, onDisk, done>>

\* Both channels are closed and what errs still holds is collected.
CloseAndCollect ==
  /\ main = "closing"
  /\ main' = "done"
  /\ closed' = TRUE
  /\ multiErr' = errs
  /\ errs' = <<>>
  /\ UNCHANGED <<queue, wg, workerVars, onDisk, done>>
-----------------------------------------------------------------------------
(***************************************************************************)
(* The loop of a worker and processTree.                                   *)
(***************************************************************************)
Receive(w) ==
  /\ main # "start"
  /\ pc[w] = "recv"
  /\ queue # <<>>
  /\ queue' = Tail(queue)
  /\ tree' = [tree EXCEPT ![w] = Head(queue)]
  /\ todo' = [todo EXCEPT ![w] = OpsAt(Head(queue))]
  /\ pc' = [pc EXCEPT ![w] = "run"]
  /\ UNCHANGED <<main, closed, wg, errs, multiErr, cur, pend, next, onDisk, done>>

\* The range over workQueue ends when it is closed and empty.
Exit(w) ==
  /\ pc[w] = "recv"
  /\ queue = <<>>
  /\ closed
  /\ pc' = [pc EXCEPT ![w] = "exit"]
  /\ UNCHANGED <<main, queue, closed, wg, errs, multiErr, tree, todo, cur, pend,
                 next, onDisk, done>>

\* Mutant: the destination is never found to hold anything.
NotEmptyUnseen(o) == FALSE

\* Does the destination of o exist with something in it?
NotEmpty(o) ==
  \/ \E p \in onDisk : IsPrefix(Dest[o], Dest[p])
  \/ \E d \in Occupied : IsPrefix(Dest[o], d)

\* createOperation.Run up to the checkout: the destination is looked at, unless
\* it is the root, and its parent made.
BeginCreate(w) ==
  /\ pc[w] = "run"
  /\ \E o \in todo[w] :
       /\ Dest[o] = Root \/ ~NotEmpty(o)
       /\ cur' = [cur EXCEPT ![w] = o]
       /\ onDisk' = onDisk \cup {o}
  /\ pc' = [pc EXCEPT ![w] = "clone"]
  /\ UNCHANGED <<main, queue, closed, wg, errs, multiErr, tree, todo, pend, next, done>>

\* Run fails before the checkout: the destination is not empty, or the file
\* system refuses.
RefuseCreate(w) ==
  /\ pc[w] = "run"
  /\ \E o \in todo[w] : cur' = [cur EXCEPT ![w] = o]
  /\ pc' = [pc EXCEPT ![w] = "err"]
  /\ UNCHANGED <<main, queue, closed, wg, errs, multiErr, tree, todo, pend, next,
                 onDisk, done>>

\* Mutant: an operation that succeeded is left on the list of its node.
CreateOkRepeats(w) ==
  /\ pc[w] = "clone"
  /\ done' = done \cup {cur[w]}
  /\ cur' = [cur EXCEPT ![w] = NoOp]
  /\ pc' = [pc EXCEPT ![w] = "run"]
  /\ UNCHANGED <<main, queue, closed, wg, errs, multiErr, tree, todo, pend, next, onDisk>>

\* checkoutProject succeeds.
CreateOk(w) ==
  /\ pc[w] = "clone"
  /\ done' = done \cup {cur[w]}
  /\ todo' = [todo EXCEPT ![w] = @ \ {cur[w]}]
  /\ cur' = [cur EXCEPT ![w] = NoOp]
  /\ pc' = [pc EXCEPT ![w] = "run"]
  /\ UNCHANGED <<main, queue, closed, wg, errs, multiErr, tree, pend, next, onDisk>>

\* Mutant: a failed checkout is cleaned up and tried again, without a limit.
CreateFailsRetried(w) ==
  /\ pc[w] = "clone"
  /\ onDisk' = onDisk \ {cur[w]}
  /\ cur' = [cur EXCEPT ![w] = NoOp]
  /\ pc' = [pc EXCEPT ![w] = "run"]
  /\ UNCHANGED <<main, queue, closed, wg, errs, multiErr, tree, todo, pend, next, done>>

\* checkoutProject fails.  Unless the destination is the root, it is removed
\* with all that lies below it; that may fail too, which is only logged.
CreateFails(w) ==
  /\ pc[w] = "clone"
  /\ \E gone \in {{}, Below(Dest[cur[w]])} :
       /\ Dest[cur[w]] = Root => gone = {}
       /\ onDisk' = onDisk \ gone
       /\ done' = done \ gone
  /\ pc' = [pc EXCEPT ![w] = "err"]
  /\ UNCHANGED <<main, queue, closed, wg, errs, multiErr, tree, todo, cur, pend, next>>

\* errs <- err, and the return that gives up the rest of the subtree (wg.Done).
SendError(w) ==
  /\ pc[w] = "err"
  /\ Len(errs) < ErrsCap
  /\ errs' = Append(errs, cur[w])
  /\ wg' = wg - 1
  /\ cur' = [cur EXCEPT ![w] = NoOp]
  /\ todo' = [todo EXCEPT ![w] = {}]
  /\ pc' = [pc EXCEPT ![w] = "recv"]
  /\ UNCHANGED <<main, queue, closed, multiErr, tree, pend, next, onDisk, done>>

OpsDone(w) ==
  /\ pc[w] = "run"
  /\ todo[w] = {}
  /\ pend' = [pend EXCEPT ![w] = Children(tree[w])]
  /\ pc' = [pc EXCEPT ![w] = "push"]
  /\ UNCHANGED <<main, queue, closed, wg, errs, multiErr, tree, todo, cur, next,
                 onDisk, done>>

\* Mutant: the WaitGroup is not told of the child.
AddChildUncounted(w) ==
  /\ pc[w] = "push"
  /\ \E n \in pend[w] :
       /\ next' = [next EXCEPT ![w] = n]
       /\ pend' = [pend EXCEPT ![w] = @ \ {n}]
  /\ pc' = [pc EXCEPT ![w] = "send"]
  /\ UNCHANGED <<main, queue, closed, wg, errs, multiErr, tree, todo, cur, onDisk, done>>

\* wg.Add(1) for a child, in the order of a map iteration.
AddChild(w) ==
  /\ pc[w] = "push"
  /\ \E n \in pend[w] :
       /\ next' = [next EXCEPT ![w] = n]
       /\ pend' = [pend EXCEPT ![w] = @ \ {n}]
  /\ wg' = wg + 1
  /\ pc' = [pc EXCEPT ![w] = "send"]
  /\ UNCHANGED <<main, queue, closed, errs, multiErr, tree, todo, cur, onDisk, done>>

\* workQueue <- v blocks while the channel is full.
SendChild(w) ==
  /\ pc[w] = "send"
  /\ Len(queue) < QueueCap
  /\ queue' = Append(queue, next[w])
  /\ pc' = [pc EXCEPT ![w] = "push"]
  /\ UNCHANGED <<main, closed, wg, errs, multiErr, tree, todo, cur, pend, next,
                 onDisk, done>>

\* The deferred wg.Done() of processTree.
TreeDone(w) ==
  /\ pc[w] = "push"
  /\ pend[w] = {}
  /\ wg' = wg - 1
  /\ pc' = [pc EXCEPT ![w] = "recv"]
  /\ UNCHANGED <<main, queue, closed, errs, multiErr, tree, todo, cur, pend, next,
                 onDisk, done>>

Worker(w) ==
  \/ Receive(w) \/ Exit(w)
  \/ BeginCreate(w) \/ RefuseCreate(w) \/ CreateOk(w) \/ CreateFails(w)
  \/ SendError(w)
  \/ OpsDone(w) \/ AddChild(w) \/ SendChild(w) \/ TreeDone(w)

Main == StartWorkers \/ WaitReturns \/ CloseAndCollect

\* Everything has returned.
Finished ==
  /\ main = "done"
  /\ \A w \in Workers : pc[w] = "exit"
  /\ UNCHANGED vars

Next == Main \/ (\E w \in Workers : Worker(w)) \/ Finished

\* The runtime runs every goroutine that can go on, and a clone ends.
Fairness ==
  /\ WF_vars(Main)
  /\ \A w \in Workers : WF_vars(Worker(w))

Spec == Init /\ [][Next]_vars
FairSpec == Spec /\ Fairness
-----------------------------------------------------------------------------
Pcs == {"recv", "run", "clone", "err", "push", "send", "exit"}

\* The values the variables take.
TypeOK ==
  /\ main \in {"start", "wait", "closing", "done"}
  /\ queue \in Seq(Nodes)
  /\ closed \in BOOLEAN
  /\ wg \in Nat
  /\ errs \in Seq(Ops)
  /\ multiErr \in Seq(Ops)
  /\ pc \in [Workers -> Pcs]
  /\ tree \in [Workers -> Seq(Part)]
  /\ todo \in [Workers -> SUBSET Ops]
  /\ cur \in [Workers -> Ops \cup {NoOp}]
  /\ pend \in [Workers -> SUBSET Nodes]
  /\ next \in [Workers -> Seq(Part)]
  /\ onDisk \subseteq Ops
  /\ done \subseteq Ops

\* A worker that puts a subtree or an error on a channel always finds room: the
\* workers, which both fill and empty workQueue, can never all be stuck in a send
\* (the capacities chosen in runCreateOperations are enough).
NoBlockedSend ==
  \A w \in Workers :
    /\ pc[w] = "send" => Len(queue) < QueueCap
    /\ pc[w] = "err" => Len(errs) < ErrsCap

\* Once wg.Wait() has returned no worker has anything left to send and no work is
\* queued: close(workQueue) and close(errs) cannot make a send panic, and no error
\* is missed by the collection.
QuietWhenClosed ==
  main \in {"closing", "done"} =>
    /\ queue = <<>>
    /\ \A w \in Workers : pc[w] \in {"recv", "exit"}

Outer(o) == {p \in Ops : IsStrictPrefix(Dest[p], Dest[o])}
Rivals(o) == {p \in Ops \ {o} : Dest[p] = Dest[o]}

\* No file of a nested project reaches the disk before every project around it
\* has been created: "the outermost should be created first" (operations.Less).
OuterFirst == \A o \in onDisk : Outer(o) \subseteq done

\* The cleanup after a failed checkout never removes a project created in the
\* same phase.
CreatedStays == [][done \subseteq done']_vars

\* The phase ends and leaves no goroutine behind.
Terminates ==
  <>(main = "done" /\ \A w \in Workers : pc[w] = "exit")

\* The pool implements CreateOrder: what became of an operation is read off the
\* workers and the channels.
Failed == {o \in Ops : \/ \E i \in DOMAIN errs : errs[i] = o
                       \/ \E i \in DOMAIN multiErr : multiErr[i] = o
                       \/ \E w \in Workers : pc[w] = "err" /\ cur[w] = o}
Running == {cur[w] : w \in {v \in Workers : pc[v] = "clone"}}

Outcome == [o \in Ops |-> CASE o \in Running -> "running"
                            [] o \in Failed \ Running -> "failed"
                            [] o \in done \ (Running \cup Failed) -> "ok"
                            [] OTHER -> "pending"]
Reported == IF main = "done" THEN {Failed} ELSE {}

Order == INSTANCE CreateOrder WITH
  Limit <- Cardinality(Workers), outcome <- Outcome, reported <- Reported

ImplementsOrder == Order!Spec
-----------------------------------------------------------------------------
(***************************************************************************)
(* The inductive invariant.  Every operation is in the hands of at most    *)
(* one holder: a subtree on the queue, a worker, or an error.              *)
(***************************************************************************)
Claim(w) ==
  (IF pc[w] \in {"run", "clone", "err"} THEN {tree[w]} ELSE {})
  \cup pend[w] \cup (IF pc[w] = "send" THEN {next[w]} ELSE {})

Load(w) == UNION {Below(n) : n \in Claim(w)}

HeldOnce ==
  /\ \A i, j \in DOMAIN queue : i # j => Below(queue[i]) \cap Below(queue[j]) = {}
  /\ \A i \in DOMAIN queue, w \in Workers : Below(queue[i]) \cap Load(w) = {}
  /\ \A w, v \in Workers : w # v => Load(w) \cap Load(v) = {}
  /\ \A w \in Workers : \A m, n \in Claim(w) : m # n => Below(m) \cap Below(n) = {}

FailedOnce ==
  /\ \A i, j \in DOMAIN errs : i # j => errs[i] # errs[j]
  /\ \A i \in DOMAIN errs, j \in DOMAIN queue : errs[i] \notin Below(queue[j])
  /\ \A i \in DOMAIN errs, w \in Workers : errs[i] \notin Load(w)

WorkerShape(w) ==
  /\ pend[w] # {} => pc[w] \in {"push", "send"}
  /\ pc[w] = "send" => next[w] \in Nodes /\ next[w] \notin pend[w]
  /\ pc[w] \in {"run", "clone", "err"} => tree[w] \in Nodes
  /\ pc[w] \in {"clone", "err"} => cur[w] \in todo[w]
  /\ todo[w] \subseteq OpsAt(tree[w])
  /\ pc[w] \in {"run", "clone"} => OpsAt(tree[w]) \ todo[w] \subseteq done
  /\ pc[w] = "clone" /\ Dest[cur[w]] # Root => Below(Dest[cur[w]]) \cap done = {}
  /\ pc[w] = "clone" => cur[w] \in onDisk

\* Every operation around a node that is queued or claimed has succeeded.
Ready(n) == \A o \in Ops : IsStrictPrefix(Dest[o], n) => o \in done

AllReady ==
  /\ \A i \in DOMAIN queue : Ready(queue[i])
  /\ \A w \in Workers : \A n \in Claim(w) : Ready(n)

Busy == {w \in Workers : pc[w] \notin {"recv", "exit"}}
Sending == {w \in Workers : pc[w] = "send"}

\* The WaitGroup counts the queued subtrees, the busy workers, and the subtrees
\* announced and not yet queued.
Counted == wg = Len(queue) + Cardinality(Busy) + Cardinality(Sending)

MainShape ==
  /\ main = "start" => queue = <<>> /\ errs = <<>> /\ Busy = {}
  /\ main \in {"start", "wait", "closing"} => ~closed
  /\ \A w \in Workers : pc[w] = "exit" => closed

IInv ==
  /\ TypeOK
  /\ HeldOnce
  /\ FailedOnce
  /\ \A w \in Workers : WorkerShape(w)
  /\ AllReady
  /\ Counted
  /\ MainShape
  /\ done \subseteq onDisk
  /\ QuietWhenClosed
  /\ OuterFirst

(***************************************************************************)
(* What the refinement of CreateOrder needs beyond it.                     *)
(***************************************************************************)
\* Nothing that is still to be tried has been created.
Untried ==
  /\ \A i \in DOMAIN queue : Below(queue[i]) \cap done = {}
  /\ \A w \in Workers :
       /\ todo[w] \cap done = {}
       /\ pc[w] \notin {"run", "clone", "err"} => todo[w] = {}
       /\ pc[w] \in {"run", "clone", "err"} => (Below(tree[w]) \ OpsAt(tree[w])) \cap done = {}
       /\ pc[w] \in {"push", "send"} => Load(w) \cap done = {}

\* An operation was created, or is claimed, or lies at or below one that failed.
Covered(o) ==
  \/ o \in done
  \/ \E i \in DOMAIN queue : o \in Below(queue[i])
  \/ \E w \in Workers : o \in Load(w)
  \/ \E f \in Failed : IsPrefix(Dest[f], Dest[o])

OrderInv ==
  /\ Untried
  /\ main = "start" => done = {}
  /\ main # "start" => \A o \in Ops : Covered(o)
  /\ Failed \cap done = {}
  /\ main # "done" => multiErr = <<>>
=============================================================================
