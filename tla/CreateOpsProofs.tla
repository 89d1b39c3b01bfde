--------------------------- MODULE CreateOpsProofs ---------------------------
(* Proofs about CreateOps. *)
EXTENDS CreateOps, FiniteSetTheorems, FunctionTheorems,
        SequenceTheorems, TLAPS

-----------------------------------------------------------------------------
\* A prefix of a path agrees with it component by component.
LEMMA PrefixPointwise ==
  ASSUME NEW s \in Seq(Part), NEW t \in Seq(Part)
  PROVE  IsPrefix(s, t) <=> /\ Len(s) <= Len(t)
                            /\ \A i \in 1..Len(s) : s[i] = t[i]
BY DEF IsPrefix

\* A child of a node lies below it, has an operation below it, and none of the
\* operations at the node itself.
LEMMA ChildBelow ==
  ASSUME NEW n \in Seq(Part), NEW c \in Children(n)
  PROVE  /\ c \in Nodes
         /\ c \in Seq(Part)
         /\ Below(c) \subseteq Below(n)
         /\ \A o \in Ops : IsStrictPrefix(Dest[o], c) =>
              IsStrictPrefix(Dest[o], n) \/ Dest[o] = n
<1>1. PICK p \in Below(n) : Len(Dest[p]) > Len(n) /\ c = Append(n, Dest[p][Len(n) + 1])
  BY DEF Children
<1>2. p \in Ops /\ Dest[p] \in Seq(Part) /\ IsPrefix(n, Dest[p])
  BY <1>1, CreateOpsAssumption DEF Below
<1>3. c \in Seq(Part) /\ Len(c) = Len(n) + 1 /\ \A i \in 1..Len(n) : c[i] = n[i]
  BY <1>1, <1>2
<1>4. c[Len(n) + 1] = Dest[p][Len(n) + 1]
  BY <1>1, <1>2
<1>5. IsPrefix(c, Dest[p])
  <2>1. \A i \in 1..Len(n) : n[i] = Dest[p][i]
    BY <1>2, PrefixPointwise
  <2>2. \A i \in 1..Len(c) : c[i] = Dest[p][i]
    BY <1>3, <1>4, <2>1
  <2>3. Len(c) <= Len(Dest[p])
    BY <1>1, <1>2, <1>3
  <2>4. QED
    BY <1>2, <1>3, <2>2, <2>3, PrefixPointwise
<1>6. c \in Nodes
  BY <1>2, <1>3, <1>5 DEF Nodes, Below
<1>7. Below(c) \subseteq Below(n)
  BY <1>3, PrefixPointwise, CreateOpsAssumption DEF Below
<1>8. ASSUME NEW o \in Ops, IsStrictPrefix(Dest[o], c)
      PROVE  IsStrictPrefix(Dest[o], n) \/ Dest[o] = n
  <2>1. Dest[o] \in Seq(Part)
    BY CreateOpsAssumption
  <2>2. Len(Dest[o]) <= Len(c) /\ \A i \in 1..Len(Dest[o]) : Dest[o][i] = c[i]
    BY <1>3, <1>8, <2>1, PrefixPointwise DEF IsStrictPrefix
  <2>3. Len(Dest[o]) # Len(c)
    BY <1>3, <1>8, <2>1, <2>2 DEF IsStrictPrefix
  <2>4. Len(Dest[o]) <= Len(n) /\ \A i \in 1..Len(Dest[o]) : Dest[o][i] = n[i]
    BY <1>3, <2>1, <2>2, <2>3
  <2>5. QED
    BY <2>1, <2>4, PrefixPointwise DEF IsStrictPrefix
<1>9. QED
  BY <1>3, <1>6, <1>7, <1>8

\* No operation lies below two children of a node.
LEMMA ChildrenDisjoint ==
  ASSUME NEW n \in Seq(Part), NEW c \in Children(n), NEW d \in Children(n), c # d
  PROVE  Below(c) \cap Below(d) = {}
<1>1. SUFFICES ASSUME NEW o \in Ops, IsPrefix(c, Dest[o]), IsPrefix(d, Dest[o])
               PROVE  c = d
  BY DEF Below
<1>2. \A e \in Children(n) : e \in Seq(Part) /\ Len(e) = Len(n) + 1
  BY ChildBelow, CreateOpsAssumption DEF Children, Below
<1>3. Dest[o] \in Seq(Part)
  BY CreateOpsAssumption
<1>4. \A i \in 1..Len(n) + 1 : c[i] = Dest[o][i] /\ d[i] = Dest[o][i]
  BY <1>1, <1>2, <1>3, PrefixPointwise
<1>5. QED
  BY <1>2, <1>4

-----------------------------------------------------------------------------
\* What a worker claims depends on its own variables only.
LEMMA ClaimFrame ==
  ASSUME NEW v \in Workers, pc'[v] = pc[v], tree'[v] = tree[v],
         pend'[v] = pend[v], next'[v] = next[v]
  PROVE  Claim(v)' = Claim(v) /\ Load(v)' = Load(v)
BY DEF Claim, Load

\* What an idle worker, and one that sits on a subtree, claims.
LEMMA ClaimOf ==
  ASSUME NEW w \in Workers, WorkerShape(w)
  PROVE  /\ pc[w] \in {"recv", "exit"} => Claim(w) = {} /\ Load(w) = {}
         /\ pc[w] \in {"run", "clone", "err"} =>
              Claim(w) = {tree[w]} /\ Load(w) = Below(tree[w])
         /\ pc[w] = "push" => Claim(w) = pend[w]
         /\ pc[w] = "send" => Claim(w) = pend[w] \cup {next[w]}
BY DEF Claim, Load, WorkerShape

\* Busy workers and sending workers are counted by finite sets, which one worker
\* enters or leaves.
LEMMA CountChange ==
  ASSUME NEW A, NEW B, IsFiniteSet(A), NEW w
  PROVE  /\ w \notin A /\ B = A \cup {w} => Cardinality(B) = Cardinality(A) + 1
         /\ w \in A /\ B = A \ {w} => Cardinality(B) = Cardinality(A) - 1
         /\ Cardinality(A) \in Nat
BY FS_AddElement, FS_RemoveElement, FS_CardinalityType

LEMMA FiniteCounts ==
  /\ IsFiniteSet(Busy) /\ Cardinality(Busy) \in Nat
  /\ IsFiniteSet(Sending) /\ Cardinality(Sending) \in Nat
BY CreateOpsAssumption, FS_Subset, FS_CardinalityType DEF Busy, Sending

-----------------------------------------------------------------------------
\* The invariant holds at the start: nothing is queued and nobody works.
LEMMA InitInv == Init => IInv
<1> SUFFICES ASSUME Init PROVE IInv
  OBVIOUS
<1> USE DEF Init
<1>1. TypeOK
  <2>1. <<>> \in Seq(Nodes) /\ <<>> \in Seq(Ops) /\ <<>> \in Seq(Part)
    OBVIOUS
  <2>2. QED
    BY <2>1, Zenon DEF TypeOK, Pcs
<1>2. \A w \in Workers : Claim(w) = {} /\ Load(w) = {}
  BY DEF Claim, Load
<1>3. HeldOnce /\ FailedOnce /\ AllReady
  BY <1>2 DEF HeldOnce, FailedOnce, AllReady
<1>4. \A w \in Workers : WorkerShape(w)
  BY DEF WorkerShape
<1>5. Busy = {} /\ Sending = {}
  BY DEF Busy, Sending
<1>6. Counted
  BY <1>5, FS_EmptySet DEF Counted
<1>7. MainShape
  BY <1>5 DEF MainShape
<1>8. QED
  BY <1>1, <1>3, <1>4, <1>6, <1>7 DEF IInv, QuietWhenClosed, OuterFirst

\* Receive: the head of the queue passes from the channel to the worker.
LEMMA ReceiveInv ==
  ASSUME IInv, NEW w \in Workers, Receive(w)
  PROVE  IInv'
<1> USE DEF Receive
<1>1. /\ queue \in Seq(Nodes) /\ queue' \in Seq(Nodes) /\ Head(queue) \in Nodes
      /\ Len(queue') = Len(queue) - 1 /\ Len(queue) \in Nat /\ Len(queue) >= 1
      /\ Head(queue) = queue[1]
      /\ \A i \in DOMAIN queue' : queue'[i] = queue[i + 1] /\ i + 1 \in DOMAIN queue
      /\ 1 \in DOMAIN queue /\ \A i \in DOMAIN queue' : i + 1 # 1
      /\ \A i, j \in DOMAIN queue' : i # j => i + 1 # j + 1
  BY DEF IInv, TypeOK
<1>2. \A v \in Workers : WorkerShape(v)
  BY DEF IInv
<1>3. /\ pc' = [pc EXCEPT ![w] = "run"]
      /\ tree' = [tree EXCEPT ![w] = queue[1]]
      /\ todo' = [todo EXCEPT ![w] = OpsAt(queue[1])]
      /\ pc \in [Workers -> Pcs] /\ tree \in [Workers -> Seq(Part)]
      /\ todo \in [Workers -> SUBSET Ops]
  BY <1>1 DEF IInv, TypeOK
<1>4. Claim(w) = {} /\ Load(w) = {} /\ pend[w] = {}
  BY <1>2, ClaimOf DEF WorkerShape
<1>5. \A v \in Workers : v # w => Claim(v)' = Claim(v) /\ Load(v)' = Load(v)
  BY <1>3, ClaimFrame
<1>6. Claim(w)' = {queue[1]} /\ Load(w)' = Below(queue[1])
  BY <1>3, <1>4 DEF Claim, Load
<1>7. TypeOK'
  BY <1>1, <1>3 DEF IInv, TypeOK, Pcs, Nodes, OpsAt
<1>8. HeldOnce'
  BY <1>1, <1>4, <1>5, <1>6 DEF IInv, HeldOnce
<1>9. FailedOnce'
  BY <1>1, <1>5, <1>6 DEF IInv, FailedOnce
<1>10. \A v \in Workers : WorkerShape(v)'
  BY <1>1, <1>2, <1>3, <1>4 DEF WorkerShape
<1>11. AllReady'
  BY <1>1, <1>5, <1>6 DEF IInv, AllReady, Ready
<1>12. Counted'
  <2>1. Busy' = Busy \cup {w} /\ w \notin Busy /\ Sending' = Sending
    BY <1>3 DEF Busy, Sending
  <2>2. Cardinality(Busy') = Cardinality(Busy) + 1
    BY <2>1, FiniteCounts, CountChange
  <2>3. QED
    BY <1>1, <2>1, <2>2, FiniteCounts DEF IInv, Counted
<1>13. MainShape' /\ QuietWhenClosed' /\ OuterFirst' /\ (done \subseteq onDisk)'
  BY <1>1, <1>3 DEF IInv, MainShape, QuietWhenClosed, OuterFirst, Busy
<1>14. QED
  BY <1>7, <1>8, <1>9, <1>10, <1>11, <1>12, <1>13 DEF IInv

\* A step that leaves the claims, the queue and the counter alone: the conjuncts
\* of the invariant that speak only of them are carried over.
LEMMA SameClaims ==
  ASSUME IInv, UNCHANGED <<queue, wg, errs>>,
         \A v \in Workers : Claim(v)' = Claim(v) /\ Load(v)' = Load(v),
         done \subseteq done', UNCHANGED <<Busy, Sending>>
  PROVE  HeldOnce' /\ FailedOnce' /\ AllReady' /\ Counted'
<1>1. HeldOnce'
  BY DEF IInv, HeldOnce
<1>2. FailedOnce'
  BY DEF IInv, FailedOnce
<1>3. AllReady'
  BY DEF IInv, AllReady, Ready
<1>4. Counted'
  BY DEF IInv, Counted
<1>5. QED
  BY <1>1, <1>2, <1>3, <1>4

\* Exit: an idle worker leaves.
LEMMA ExitInv ==
  ASSUME IInv, NEW w \in Workers, Exit(w)
  PROVE  IInv'
<1> USE DEF Exit
<1>1. /\ pc' = [pc EXCEPT ![w] = "exit"] /\ pc \in [Workers -> Pcs]
      /\ \A v \in Workers : WorkerShape(v)
  BY DEF IInv, TypeOK
<1>2. \A v \in Workers : Claim(v)' = Claim(v) /\ Load(v)' = Load(v)
  BY <1>1 DEF Claim, Load
<1>3. Busy' = Busy /\ Sending' = Sending
  BY <1>1 DEF Busy, Sending
<1>4. HeldOnce' /\ FailedOnce' /\ AllReady' /\ Counted'
  BY <1>2, <1>3, SameClaims
<1>5. TypeOK' /\ (\A v \in Workers : WorkerShape(v)')
  BY <1>1 DEF IInv, TypeOK, Pcs, WorkerShape
<1>6. MainShape' /\ QuietWhenClosed' /\ OuterFirst' /\ (done \subseteq onDisk)'
  BY <1>1, <1>3 DEF IInv, MainShape, QuietWhenClosed, OuterFirst
<1>7. QED
  BY <1>4, <1>5, <1>6 DEF IInv

\* BeginCreate: the destination is empty or the root, so nothing created lies
\* below it; everything around it has been created because its node was ready.
LEMMA BeginCreateInv ==
  ASSUME IInv, NEW w \in Workers, BeginCreate(w)
  PROVE  IInv'
<1> USE DEF BeginCreate
<1>1. PICK o \in todo[w] : /\ Dest[o] = Root \/ ~NotEmpty(o)
                           /\ cur' = [cur EXCEPT ![w] = o]
                           /\ onDisk' = onDisk \cup {o}
  OBVIOUS
<1>2. /\ pc' = [pc EXCEPT ![w] = "clone"] /\ pc \in [Workers -> Pcs]
      /\ cur \in [Workers -> Ops \cup {NoOp}] /\ o \in Ops /\ onDisk \subseteq Ops
      /\ \A v \in Workers : WorkerShape(v)
      /\ todo \in [Workers -> SUBSET Ops]
  BY <1>1 DEF IInv, TypeOK
<1>3. Dest[o] = tree[w]
  BY <1>1, <1>2 DEF WorkerShape, OpsAt
<1>4. \A v \in Workers : Claim(v)' = Claim(v) /\ Load(v)' = Load(v)
  BY <1>2 DEF Claim, Load
<1>5. Busy' = Busy /\ Sending' = Sending
  BY <1>2 DEF Busy, Sending
<1>6. HeldOnce' /\ FailedOnce' /\ AllReady' /\ Counted'
  BY <1>4, <1>5, SameClaims
<1>7. TypeOK'
  BY <1>1, <1>2 DEF IInv, TypeOK, Pcs
<1>8. Dest[o] # Root => Below(Dest[o]) \cap done = {}
  BY <1>1 DEF IInv, NotEmpty, Below
<1>9. \A v \in Workers : WorkerShape(v)'
  BY <1>1, <1>2, <1>8 DEF WorkerShape
<1>10. OuterFirst'
  <2>1. Ready(Dest[o])
    BY <1>2, <1>3, ClaimOf DEF IInv, AllReady
  <2>2. QED
    BY <1>1, <2>1 DEF IInv, OuterFirst, Outer, Ready
<1>11. MainShape' /\ QuietWhenClosed' /\ (done \subseteq onDisk)'
  BY <1>1, <1>2, <1>5 DEF IInv, MainShape, QuietWhenClosed
<1>12. QED
  BY <1>6, <1>7, <1>9, <1>10, <1>11 DEF IInv

\* RefuseCreate: nothing but the worker's own state changes.
LEMMA RefuseCreateInv ==
  ASSUME IInv, NEW w \in Workers, RefuseCreate(w)
  PROVE  IInv'
<1> USE DEF RefuseCreate
<1>1. PICK o \in todo[w] : cur' = [cur EXCEPT ![w] = o]
  OBVIOUS
<1>2. /\ pc' = [pc EXCEPT ![w] = "err"] /\ pc \in [Workers -> Pcs]
      /\ cur \in [Workers -> Ops \cup {NoOp}] /\ o \in Ops
      /\ \A v \in Workers : WorkerShape(v)
  BY <1>1 DEF IInv, TypeOK
<1>3. \A v \in Workers : Claim(v)' = Claim(v) /\ Load(v)' = Load(v)
  BY <1>2 DEF Claim, Load
<1>4. Busy' = Busy /\ Sending' = Sending
  BY <1>2 DEF Busy, Sending
<1>5. HeldOnce' /\ FailedOnce' /\ AllReady' /\ Counted'
  BY <1>3, <1>4, SameClaims
<1>6. TypeOK' /\ (\A v \in Workers : WorkerShape(v)')
  BY <1>1, <1>2 DEF IInv, TypeOK, Pcs, WorkerShape
<1>7. MainShape' /\ QuietWhenClosed' /\ OuterFirst' /\ (done \subseteq onDisk)'
  BY <1>2, <1>4 DEF IInv, MainShape, QuietWhenClosed, OuterFirst
<1>8. QED
  BY <1>5, <1>6, <1>7 DEF IInv

\* CreateOk: the new project lies below the node of its worker, and no other
\* worker is creating a project around it.
LEMMA CreateOkInv ==
  ASSUME IInv, NEW w \in Workers, CreateOk(w)
  PROVE  IInv'
<1> USE DEF CreateOk
<1>1. /\ pc' = [pc EXCEPT ![w] = "run"] /\ pc \in [Workers -> Pcs] /\ pc[w] = "clone"
      /\ cur' = [cur EXCEPT ![w] = NoOp] /\ cur \in [Workers -> Ops \cup {NoOp}]
      /\ todo' = [todo EXCEPT ![w] = @ \ {cur[w]}] /\ todo \in [Workers -> SUBSET Ops]
      /\ done' = done \cup {cur[w]}
      /\ \A v \in Workers : WorkerShape(v)
  BY DEF IInv, TypeOK
<1>2. /\ cur[w] \in todo[w] /\ cur[w] \in Ops /\ Dest[cur[w]] = tree[w]
      /\ cur[w] \in onDisk /\ Dest[cur[w]] \in Seq(Part)
  BY <1>1, CreateOpsAssumption DEF WorkerShape, OpsAt
<1>3. cur[w] \in Load(w)
  <2>1. cur[w] \in Below(Dest[cur[w]])
    BY <1>2, PrefixPointwise DEF Below
  <2>2. QED
    BY <1>1, <1>2, <2>1, ClaimOf
<1>4. \A v \in Workers : Claim(v)' = Claim(v) /\ Load(v)' = Load(v)
  BY <1>1 DEF Claim, Load
<1>5. Busy' = Busy /\ Sending' = Sending
  BY <1>1 DEF Busy, Sending
<1>6. HeldOnce' /\ FailedOnce' /\ AllReady' /\ Counted'
  BY <1>1, <1>4, <1>5, SameClaims
<1>7. TypeOK'
  BY <1>1, <1>2 DEF IInv, TypeOK, Pcs
<1>8. ASSUME NEW v \in Workers PROVE WorkerShape(v)'
  <2>1. CASE v = w
    BY <1>1, <1>2, <2>1 DEF WorkerShape
  <2>2. CASE v # w
    <3>1. pc[v] = "clone" => Load(v) = Below(Dest[cur[v]])
      BY <1>1, ClaimOf DEF WorkerShape, OpsAt
    <3>2. pc[v] = "clone" => cur[w] \notin Below(Dest[cur[v]])
      BY <1>3, <2>2, <3>1 DEF IInv, HeldOnce
    <3>3. QED
      BY <1>1, <2>2, <3>2 DEF WorkerShape
  <2>3. QED
    BY <2>1, <2>2
<1>9. MainShape' /\ QuietWhenClosed' /\ OuterFirst' /\ (done \subseteq onDisk)'
  BY <1>1, <1>2, <1>5 DEF IInv, MainShape, QuietWhenClosed, OuterFirst
<1>10. QED
  BY <1>6, <1>7, <1>8, <1>9 DEF IInv

\* CreateFails: what the cleanup removes holds nothing that was created.
LEMMA CreateFailsKeeps ==
  ASSUME IInv, NEW w \in Workers, CreateFails(w)
  PROVE  done' = done
<1>1. WorkerShape(w) /\ pc[w] = "clone"
  BY DEF IInv, CreateFails
<1>2. PICK gone \in {{}, Below(Dest[cur[w]])} :
         (Dest[cur[w]] = Root => gone = {}) /\ done' = done \ gone
  BY DEF CreateFails
<1>3. gone \cap done = {}
  BY <1>1, <1>2 DEF WorkerShape
<1>4. QED
  BY <1>2, <1>3

LEMMA CreateFailsInv ==
  ASSUME IInv, NEW w \in Workers, CreateFails(w)
  PROVE  IInv'
<1> USE DEF CreateFails
<1>1. /\ pc' = [pc EXCEPT ![w] = "err"] /\ pc \in [Workers -> Pcs] /\ pc[w] = "clone"
      /\ \A v \in Workers : WorkerShape(v)
      /\ done' = done
  BY CreateFailsKeeps DEF IInv, TypeOK
<1>2. PICK gone \in {{}, Below(Dest[cur[w]])} :
         onDisk' = onDisk \ gone /\ done \cap gone = {}
  BY <1>1 DEF IInv, WorkerShape
<1>3. gone \subseteq Load(w)
  BY <1>1, <1>2, ClaimOf DEF WorkerShape, OpsAt
<1>4. \A v \in Workers : Claim(v)' = Claim(v) /\ Load(v)' = Load(v)
  BY <1>1 DEF Claim, Load
<1>5. Busy' = Busy /\ Sending' = Sending
  BY <1>1 DEF Busy, Sending
<1>6. HeldOnce' /\ FailedOnce' /\ AllReady' /\ Counted'
  BY <1>1, <1>4, <1>5, SameClaims
<1>7. TypeOK'
  BY <1>1, <1>2 DEF IInv, TypeOK, Pcs
<1>8. ASSUME NEW v \in Workers PROVE WorkerShape(v)'
  <2>1. CASE v = w
    BY <1>1, <2>1 DEF WorkerShape
  <2>2. CASE v # w
    <3>1. pc[v] = "clone" => cur[v] \in Below(Dest[cur[v]]) /\ Load(v) = Below(Dest[cur[v]])
      <4>1. pc[v] = "clone" => cur[v] \in Ops /\ Dest[cur[v]] = tree[v]
        BY <1>1 DEF WorkerShape, OpsAt
      <4>2. pc[v] = "clone" => cur[v] \in Below(Dest[cur[v]])
        BY <4>1, PrefixPointwise, CreateOpsAssumption DEF Below
      <4>3. QED
        BY <1>1, <4>1, <4>2, ClaimOf
    <3>2. pc[v] = "clone" => cur[v] \notin gone
      BY <1>3, <2>2, <3>1 DEF IInv, HeldOnce
    <3>3. QED
      BY <1>1, <1>2, <2>2, <3>2 DEF WorkerShape
  <2>3. QED
    BY <2>1, <2>2
<1>9. MainShape' /\ QuietWhenClosed' /\ OuterFirst' /\ (done \subseteq onDisk)'
  BY <1>1, <1>2, <1>5 DEF IInv, MainShape, QuietWhenClosed, OuterFirst
<1>10. QED
  BY <1>6, <1>7, <1>8, <1>9 DEF IInv

\* SendError: the failed operation, which the worker held, passes to errs, and the
\* rest of its subtree is given up.
LEMMA SendErrorInv ==
  ASSUME IInv, NEW w \in Workers, SendError(w)
  PROVE  IInv'
<1> USE DEF SendError
<1>1. /\ pc' = [pc EXCEPT ![w] = "recv"] /\ pc \in [Workers -> Pcs] /\ pc[w] = "err"
      /\ cur' = [cur EXCEPT ![w] = NoOp] /\ cur \in [Workers -> Ops \cup {NoOp}]
      /\ todo' = [todo EXCEPT ![w] = {}] /\ todo \in [Workers -> SUBSET Ops]
      /\ \A v \in Workers : WorkerShape(v)
  BY DEF IInv, TypeOK
<1>2. /\ cur[w] \in Ops /\ Dest[cur[w]] = tree[w] /\ Dest[cur[w]] \in Seq(Part)
      /\ pend[w] = {}
  BY <1>1, CreateOpsAssumption DEF WorkerShape, OpsAt
<1>3. cur[w] \in Load(w)
  <2>1. cur[w] \in Below(Dest[cur[w]])
    BY <1>2, PrefixPointwise DEF Below
  <2>2. QED
    BY <1>1, <1>2, <2>1, ClaimOf
<1>4. /\ errs \in Seq(Ops) /\ errs' \in Seq(Ops) /\ Len(errs') = Len(errs) + 1
      /\ \A i \in DOMAIN errs' : i # Len(errs) + 1 => i \in DOMAIN errs /\ errs'[i] = errs[i]
      /\ errs'[Len(errs) + 1] = cur[w]
  BY <1>2 DEF IInv, TypeOK
<1>5. Claim(w)' = {} /\ Load(w)' = {}
  BY <1>1, <1>2 DEF Claim, Load
<1>6. \A v \in Workers : v # w => Claim(v)' = Claim(v) /\ Load(v)' = Load(v)
  BY <1>1, ClaimFrame
<1>7. HeldOnce'
  BY <1>5, <1>6 DEF IInv, HeldOnce
<1>8. FailedOnce'
  <2>1. /\ \A i \in DOMAIN errs : errs[i] # cur[w]
        /\ \A j \in DOMAIN queue : cur[w] \notin Below(queue[j])
        /\ \A v \in Workers : v # w => cur[w] \notin Load(v)
    BY <1>3 DEF IInv, HeldOnce, FailedOnce
  <2>2. QED
    BY <1>4, <1>5, <1>6, <2>1 DEF IInv, FailedOnce
<1>9. AllReady'
  BY <1>5, <1>6 DEF IInv, AllReady, Ready
<1>10. Busy' = Busy \ {w} /\ w \in Busy /\ Sending' = Sending
  BY <1>1 DEF Busy, Sending
<1>11. Counted'
  <2>1. Cardinality(Busy') = Cardinality(Busy) - 1
    BY <1>10, FiniteCounts, CountChange
  <2>2. QED
    BY <1>10, <2>1, FiniteCounts DEF IInv, Counted, TypeOK
<1>12. wg' \in Nat
  <2>1. IsFiniteSet(Busy') /\ Cardinality(Busy') \in Nat
    BY <1>10, FiniteCounts, FS_Subset, FS_CardinalityType
  <2>2. QED
    BY <1>10, <1>11, <2>1, FiniteCounts DEF IInv, Counted, TypeOK
<1>13. TypeOK'
  BY <1>1, <1>4, <1>12 DEF IInv, TypeOK, Pcs
<1>14. \A v \in Workers : WorkerShape(v)'
  BY <1>1, <1>2 DEF WorkerShape
<1>15. MainShape' /\ QuietWhenClosed' /\ OuterFirst' /\ (done \subseteq onDisk)'
  BY <1>1, <1>10 DEF IInv, MainShape, QuietWhenClosed, OuterFirst
<1>16. QED
  BY <1>7, <1>8, <1>9, <1>11, <1>13, <1>14, <1>15 DEF IInv

\* OpsDone: the claim on a node is traded for claims on its children.
LEMMA OpsDoneInv ==
  ASSUME IInv, NEW w \in Workers, OpsDone(w)
  PROVE  IInv'
<1> USE DEF OpsDone
<1>1. /\ pc' = [pc EXCEPT ![w] = "push"] /\ pc \in [Workers -> Pcs] /\ pc[w] = "run"
      /\ pend' = [pend EXCEPT ![w] = Children(tree[w])] /\ pend \in [Workers -> SUBSET Nodes]
      /\ \A v \in Workers : WorkerShape(v)
      /\ tree[w] \in Seq(Part) /\ todo[w] = {}
  BY DEF IInv, TypeOK
<1>2. \A v \in Workers : v # w => Claim(v)' = Claim(v) /\ Load(v)' = Load(v)
  BY <1>1, ClaimFrame
<1>3. Claim(w) = {tree[w]} /\ Load(w) = Below(tree[w])
  BY <1>1, ClaimOf
<1>4. Claim(w)' = Children(tree[w])
  BY <1>1 DEF Claim
<1>5. Load(w)' \subseteq Load(w)
  <2>1. Load(w)' = UNION {Below(n) : n \in Children(tree[w])}
    BY <1>4 DEF Load
  <2>2. QED
    BY <1>1, <1>3, <2>1, ChildBelow
<1>6. Children(tree[w]) \subseteq Nodes
  BY <1>1, ChildBelow
<1>7. HeldOnce'
  <2>1. \A m, n \in Claim(w)' : m # n => Below(m) \cap Below(n) = {}
    BY <1>1, <1>4, ChildrenDisjoint
  <2>2. QED
    BY <1>2, <1>5, <2>1 DEF IInv, HeldOnce
<1>8. FailedOnce'
  BY <1>2, <1>5 DEF IInv, FailedOnce
<1>9. AllReady'
  <2>1. ASSUME NEW n \in Children(tree[w]) PROVE Ready(n)
    <3>1. \A o \in Ops : Dest[o] = tree[w] => o \in done
      BY <1>1 DEF WorkerShape, OpsAt
    <3>2. Ready(tree[w])
      BY <1>3 DEF IInv, AllReady
    <3>3. QED
      BY <1>1, <3>1, <3>2, ChildBelow DEF Ready
  <2>2. QED
    BY <1>2, <1>4, <2>1 DEF IInv, AllReady, Ready
<1>10. Busy' = Busy /\ Sending' = Sending
  BY <1>1 DEF Busy, Sending
<1>11. Counted'
  BY <1>10 DEF IInv, Counted
<1>12. TypeOK'
  BY <1>1, <1>6 DEF IInv, TypeOK, Pcs
<1>13. \A v \in Workers : WorkerShape(v)'
  BY <1>1 DEF WorkerShape
<1>14. MainShape' /\ QuietWhenClosed' /\ OuterFirst' /\ (done \subseteq onDisk)'
  BY <1>1, <1>10 DEF IInv, MainShape, QuietWhenClosed, OuterFirst
<1>15. QED
  BY <1>7, <1>8, <1>9, <1>11, <1>12, <1>13, <1>14 DEF IInv

\* AddChild: one of the children is set aside and counted.
LEMMA AddChildInv ==
  ASSUME IInv, NEW w \in Workers, AddChild(w)
  PROVE  IInv'
<1> USE DEF AddChild
<1>1. PICK n \in pend[w] : /\ next' = [next EXCEPT ![w] = n]
                           /\ pend' = [pend EXCEPT ![w] = @ \ {n}]
  OBVIOUS
<1>2. /\ pc' = [pc EXCEPT ![w] = "send"] /\ pc \in [Workers -> Pcs] /\ pc[w] = "push"
      /\ pend \in [Workers -> SUBSET Nodes] /\ next \in [Workers -> Seq(Part)]
      /\ \A v \in Workers : WorkerShape(v)
      /\ n \in Nodes /\ n \in Seq(Part)
  BY <1>1 DEF IInv, TypeOK, Nodes
<1>3. \A v \in Workers : v # w => Claim(v)' = Claim(v) /\ Load(v)' = Load(v)
  BY <1>1, <1>2, ClaimFrame
<1>4. Claim(w)' = Claim(w)
  BY <1>1, <1>2, ClaimOf DEF Claim
<1>5. Load(w)' = Load(w)
  BY <1>4 DEF Load
<1>6. HeldOnce' /\ FailedOnce' /\ AllReady'
  <2>1. \A v \in Workers : Claim(v)' = Claim(v) /\ Load(v)' = Load(v)
    BY <1>3, <1>4, <1>5
  <2>2. QED
    BY <2>1 DEF IInv, HeldOnce, FailedOnce, AllReady, Ready
<1>7. Busy' = Busy /\ Sending' = Sending \cup {w} /\ w \notin Sending
  BY <1>2 DEF Busy, Sending
<1>8. Counted'
  <2>1. Cardinality(Sending') = Cardinality(Sending) + 1
    BY <1>7, FiniteCounts, CountChange
  <2>2. QED
    BY <1>7, <2>1, FiniteCounts DEF IInv, Counted, TypeOK
<1>9. TypeOK'
  BY <1>1, <1>2 DEF IInv, TypeOK, Pcs
<1>10. \A v \in Workers : WorkerShape(v)'
  BY <1>1, <1>2 DEF WorkerShape
<1>11. MainShape' /\ QuietWhenClosed' /\ OuterFirst' /\ (done \subseteq onDisk)'
  BY <1>2, <1>7 DEF IInv, MainShape, QuietWhenClosed, OuterFirst
<1>12. QED
  BY <1>6, <1>8, <1>9, <1>10, <1>11 DEF IInv

\* SendChild: the announced child passes from the worker to the queue.
LEMMA SendChildInv ==
  ASSUME IInv, NEW w \in Workers, SendChild(w)
  PROVE  IInv'
<1> USE DEF SendChild
<1>1. /\ pc' = [pc EXCEPT ![w] = "push"] /\ pc \in [Workers -> Pcs] /\ pc[w] = "send"
      /\ \A v \in Workers : WorkerShape(v)
      /\ next[w] \in Nodes /\ next[w] \notin pend[w]
  BY DEF IInv, TypeOK, WorkerShape
<1>2. /\ queue \in Seq(Nodes) /\ queue' \in Seq(Nodes) /\ Len(queue') = Len(queue) + 1
      /\ \A i \in DOMAIN queue' : i # Len(queue) + 1 => i \in DOMAIN queue /\ queue'[i] = queue[i]
      /\ queue'[Len(queue) + 1] = next[w]
  BY <1>1 DEF IInv, TypeOK
<1>3. \A v \in Workers : v # w => Claim(v)' = Claim(v) /\ Load(v)' = Load(v)
  BY <1>1, ClaimFrame
<1>4. Claim(w) = pend[w] \cup {next[w]} /\ Claim(w)' = pend[w]
  BY <1>1, ClaimOf DEF Claim
<1>5. Below(next[w]) \subseteq Load(w) /\ Load(w)' \subseteq Load(w)
  BY <1>4 DEF Load
<1>6. Below(next[w]) \cap Load(w)' = {}
  <2>1. \A n \in pend[w] : Below(n) \cap Below(next[w]) = {}
    BY <1>1, <1>4 DEF IInv, HeldOnce
  <2>2. QED
    BY <1>4, <2>1 DEF Load
<1>7. HeldOnce'
  <2>1. \A i, j \in DOMAIN queue' : i # j => Below(queue'[i]) \cap Below(queue'[j]) = {}
    BY <1>2, <1>5 DEF IInv, HeldOnce
  <2>2. ASSUME NEW i \in DOMAIN queue', NEW v \in Workers
        PROVE  Below(queue'[i]) \cap Load(v)' = {}
    <3>1. CASE i # Len(queue) + 1
      BY <1>2, <1>3, <1>5, <3>1 DEF IInv, HeldOnce
    <3>2. CASE i = Len(queue) + 1
      BY <1>2, <1>3, <1>5, <1>6, <3>2 DEF IInv, HeldOnce
    <3>3. QED
      BY <3>1, <3>2
  <2>3. \A u, v \in Workers : u # v => Load(u)' \cap Load(v)' = {}
    BY <1>3, <1>5 DEF IInv, HeldOnce
  <2>4. \A v \in Workers : \A m, n \in Claim(v)' : m # n => Below(m) \cap Below(n) = {}
    BY <1>3, <1>4 DEF IInv, HeldOnce
  <2>5. QED
    BY <2>1, <2>2, <2>3, <2>4 DEF HeldOnce
<1>8. FailedOnce'
  BY <1>2, <1>3, <1>5 DEF IInv, FailedOnce
<1>9. AllReady'
  BY <1>2, <1>3, <1>4 DEF IInv, AllReady, Ready
<1>10. Busy' = Busy /\ Sending' = Sending \ {w} /\ w \in Sending
  BY <1>1 DEF Busy, Sending
<1>11. Counted'
  <2>1. Cardinality(Sending') = Cardinality(Sending) - 1
    BY <1>10, FiniteCounts, CountChange
  <2>2. QED
    BY <1>2, <1>10, <2>1, FiniteCounts DEF IInv, Counted, TypeOK
<1>12. TypeOK'
  BY <1>1, <1>2 DEF IInv, TypeOK, Pcs
<1>13. \A v \in Workers : WorkerShape(v)'
  BY <1>1 DEF WorkerShape
<1>14. MainShape' /\ QuietWhenClosed' /\ OuterFirst' /\ (done \subseteq onDisk)'
  BY <1>1, <1>10 DEF IInv, MainShape, QuietWhenClosed, OuterFirst, Busy
<1>15. QED
  BY <1>7, <1>8, <1>9, <1>11, <1>12, <1>13, <1>14 DEF IInv

\* TreeDone: a worker with nothing left becomes idle and is no longer counted.
LEMMA TreeDoneInv ==
  ASSUME IInv, NEW w \in Workers, TreeDone(w)
  PROVE  IInv'
<1> USE DEF TreeDone
<1>1. /\ pc' = [pc EXCEPT ![w] = "recv"] /\ pc \in [Workers -> Pcs] /\ pc[w] = "push"
      /\ \A v \in Workers : WorkerShape(v)
      /\ pend[w] = {}
  BY DEF IInv, TypeOK
<1>2. \A v \in Workers : Claim(v)' = Claim(v) /\ Load(v)' = Load(v)
  BY <1>1 DEF Claim, Load
<1>3. HeldOnce' /\ FailedOnce' /\ AllReady'
  BY <1>2 DEF IInv, HeldOnce, FailedOnce, AllReady, Ready
<1>4. Busy' = Busy \ {w} /\ w \in Busy /\ Sending' = Sending
  BY <1>1 DEF Busy, Sending
<1>5. Counted'
  <2>1. Cardinality(Busy') = Cardinality(Busy) - 1
    BY <1>4, FiniteCounts, CountChange
  <2>2. QED
    BY <1>4, <2>1, FiniteCounts DEF IInv, Counted, TypeOK
<1>6. wg' \in Nat
  <2>1. Cardinality(Busy') \in Nat
    BY <1>4, FiniteCounts, FS_Subset, FS_CardinalityType
  <2>2. QED
    BY <1>4, <1>5, <2>1, FiniteCounts DEF IInv, Counted, TypeOK
<1>7. TypeOK'
  BY <1>1, <1>6 DEF IInv, TypeOK, Pcs
<1>8. \A v \in Workers : WorkerShape(v)'
  BY <1>1 DEF WorkerShape
<1>9. MainShape' /\ QuietWhenClosed' /\ OuterFirst' /\ (done \subseteq onDisk)'
  BY <1>1, <1>4 DEF IInv, MainShape, QuietWhenClosed, OuterFirst
<1>10. QED
  BY <1>3, <1>5, <1>7, <1>8, <1>9 DEF IInv

\* StartWorkers: the head of the tree, below which lies every operation, is queued.
LEMMA StartWorkersInv ==
  ASSUME IInv, StartWorkers
  PROVE  IInv'
<1> USE DEF StartWorkers, workerVars
<1>1. queue = <<>> /\ errs = <<>> /\ Busy = {} /\ \A v \in Workers : WorkerShape(v)
  BY DEF IInv, MainShape
<1>2. \A v \in Workers : pc[v] \in {"recv", "exit"}
  BY <1>1 DEF Busy
<1>3. \A v \in Workers : Claim(v)' = {} /\ Load(v)' = {}
  <2>1. \A v \in Workers : Claim(v) = {} /\ Load(v) = {}
    BY <1>1, <1>2, ClaimOf
  <2>2. QED
    BY <2>1, ClaimFrame
<1>4. <<>> \in Nodes
  <2>1. PICK o \in Ops : Dest[o] \in Seq(Part)
    BY CreateOpsAssumption
  <2>2. IsPrefix(<<>>, Dest[o])
    <3>1. <<>> \in Seq(Part) /\ Len(<<>>) = 0 /\ Len(Dest[o]) \in Nat
      BY <2>1
    <3>2. SubSeq(<<>>, 1, 0) = SubSeq(Dest[o], 1, 0)
      BY <2>1, <3>1, SubSeqEmpty
    <3>3. QED
      BY <3>1, <3>2 DEF IsPrefix
  <2>3. QED
    BY <2>2 DEF Nodes, Below
<1>5. queue' \in Seq(Nodes) /\ Len(queue') = 1 /\ DOMAIN queue' = {1} /\ queue'[1] = <<>>
  BY <1>4
<1>6. HeldOnce' /\ FailedOnce'
  BY <1>1, <1>3, <1>5 DEF HeldOnce, FailedOnce
<1>7. AllReady'
  <2>1. ASSUME NEW o \in Ops PROVE ~IsStrictPrefix(Dest[o], <<>>)
    <3>1. Dest[o] \in Seq(Part) /\ (Len(Dest[o]) <= 0 => Dest[o] = <<>>)
      BY CreateOpsAssumption
    <3>2. Len(<<>>) = 0
      OBVIOUS
    <3>3. QED
      BY <3>1, <3>2 DEF IsStrictPrefix, IsPrefix
  <2>2. QED
    BY <1>3, <1>5, <2>1 DEF AllReady, Ready
<1>8. Busy' = {} /\ Sending' = {}
  BY <1>2 DEF Busy, Sending
<1>9. Counted'
  BY <1>5, <1>8, FS_EmptySet DEF Counted
<1>10. TypeOK'
  BY <1>5 DEF IInv, TypeOK
<1>11. (\A v \in Workers : WorkerShape(v)') /\ MainShape'
  BY <1>1 DEF IInv, WorkerShape, MainShape
<1>12. QuietWhenClosed' /\ OuterFirst' /\ (done \subseteq onDisk)'
  BY DEF IInv, QuietWhenClosed, OuterFirst
<1>13. QED
  BY <1>6, <1>7, <1>9, <1>10, <1>11, <1>12 DEF IInv

\* WaitReturns: a counter at zero means an empty queue and idle workers.
LEMMA WaitReturnsInv ==
  ASSUME IInv, WaitReturns
  PROVE  IInv'
<1> USE DEF WaitReturns, workerVars
<1>1. Len(queue) = 0 /\ Cardinality(Busy) = 0
  BY FiniteCounts DEF IInv, Counted, TypeOK
<1>2. queue = <<>>
  BY <1>1 DEF IInv, TypeOK
<1>3. Busy = {}
  BY <1>1, FiniteCounts, FS_EmptySet
<1>4. QuietWhenClosed'
  BY <1>2, <1>3 DEF QuietWhenClosed, Busy
<1>5. \A v \in Workers : Claim(v)' = Claim(v) /\ Load(v)' = Load(v)
  BY DEF Claim, Load
<1>6. HeldOnce' /\ FailedOnce' /\ AllReady' /\ Counted'
  <2>1. Busy' = Busy /\ Sending' = Sending
    BY DEF Busy, Sending
  <2>2. QED
    BY <1>5, <2>1, SameClaims
<1>7. TypeOK' /\ MainShape' /\ (\A v \in Workers : WorkerShape(v)')
  BY DEF IInv, TypeOK, MainShape, WorkerShape, Busy
<1>8. OuterFirst' /\ (done \subseteq onDisk)'
  BY DEF IInv, OuterFirst
<1>9. QED
  BY <1>4, <1>6, <1>7, <1>8 DEF IInv

\* CloseAndCollect: errs is emptied, nothing else moves.
LEMMA CloseAndCollectInv ==
  ASSUME IInv, CloseAndCollect
  PROVE  IInv'
<1> USE DEF CloseAndCollect, workerVars
<1>1. \A v \in Workers : Claim(v)' = Claim(v) /\ Load(v)' = Load(v)
  BY DEF Claim, Load
<1>2. Busy' = Busy /\ Sending' = Sending
  BY DEF Busy, Sending
<1>3. HeldOnce' /\ FailedOnce' /\ AllReady' /\ Counted'
  BY <1>1, <1>2 DEF IInv, HeldOnce, FailedOnce, AllReady, Ready, Counted
<1>4. TypeOK' /\ (\A v \in Workers : WorkerShape(v)')
  BY DEF IInv, TypeOK, WorkerShape
<1>5. MainShape' /\ QuietWhenClosed' /\ OuterFirst' /\ (done \subseteq onDisk)'
  BY DEF IInv, MainShape, QuietWhenClosed, OuterFirst
<1>6. QED
  BY <1>3, <1>4, <1>5 DEF IInv

LEMMA StutterInv ==
  ASSUME IInv, UNCHANGED vars
  PROVE  IInv'
<1> USE DEF vars, workerVars
<1>1. \A v \in Workers : Claim(v)' = Claim(v) /\ Load(v)' = Load(v)
  BY DEF Claim, Load
<1>2. Busy' = Busy /\ Sending' = Sending
  BY DEF Busy, Sending
<1>3. HeldOnce' /\ FailedOnce' /\ AllReady' /\ Counted'
  BY <1>1, <1>2, SameClaims
<1>4. TypeOK' /\ (\A v \in Workers : WorkerShape(v)')
  BY DEF IInv, TypeOK, WorkerShape
<1>5. MainShape' /\ QuietWhenClosed' /\ OuterFirst' /\ (done \subseteq onDisk)'
  BY <1>2 DEF IInv, MainShape, QuietWhenClosed, OuterFirst
<1>6. QED
  BY <1>3, <1>4, <1>5 DEF IInv

\* Every step preserves the invariant.
LEMMA NextInv == IInv /\ [Next]_vars => IInv'
<1> SUFFICES ASSUME IInv, [Next]_vars PROVE IInv'
  OBVIOUS
<1>1. CASE Main
  BY <1>1, StartWorkersInv, WaitReturnsInv, CloseAndCollectInv DEF Main
<1>2. ASSUME NEW w \in Workers, Worker(w) PROVE IInv'
  BY <1>2, ReceiveInv, ExitInv, BeginCreateInv, RefuseCreateInv, CreateOkInv,
     CreateFailsInv, SendErrorInv, OpsDoneInv, AddChildInv, SendChildInv, TreeDoneInv
     DEF Worker
<1>3. CASE Finished \/ UNCHANGED vars
  BY <1>3, StutterInv DEF Finished
<1>4. QED
  BY <1>1, <1>2, <1>3 DEF Next

\* The inductive invariant of the worker pool, for every set of operations, every
\* layout of their destinations and every number of workers.
THEOREM Invariance == Spec => []IInv
<1>1. QED
  BY InitInv, NextInv, PTL DEF Spec

-----------------------------------------------------------------------------
\* Type correctness; in particular the WaitGroup's counter never goes below zero,
\* where wg.Done() would panic.
THEOREM TypeCorrect == Spec => []TypeOK
<1>1. IInv => TypeOK
  BY DEF IInv
<1>2. QED
  BY <1>1, Invariance, PTL

\* An element of every set of Below for nodes of the queue, and one below next[w]:
\* different operations, so there are fewer queued subtrees than operations.
LEMMA RoomOnQueue ==
  ASSUME IInv, NEW w \in Workers, pc[w] = "send"
  PROVE  Len(queue) < QueueCap
<1>1. /\ queue \in Seq(Nodes) /\ Len(queue) \in Nat
      /\ next[w] \in Nodes /\ next[w] \in Claim(w)
  BY DEF IInv, TypeOK, WorkerShape, Claim
<1> DEFINE node(i) == IF i = 0 THEN next[w] ELSE queue[i]
           pick(i) == CHOOSE o \in Ops : o \in Below(node(i))
           f == [i \in 0..Len(queue) |-> pick(i)]
<1>2. \A i \in 0..Len(queue) : pick(i) \in Ops /\ pick(i) \in Below(node(i))
  <2>1. \A i \in 0..Len(queue) : node(i) \in Nodes
    BY <1>1
  <2>2. \A i \in 0..Len(queue) : \E o \in Ops : o \in Below(node(i))
    BY <2>1 DEF Nodes, Below
  <2>3. QED
    BY <2>2
<1>3. \A i, j \in 0..Len(queue) : i # j => Below(node(i)) \cap Below(node(j)) = {}
  <2>1. \A k \in 1..Len(queue) : Below(queue[k]) \cap Below(next[w]) = {}
    BY <1>1 DEF IInv, HeldOnce, Load
  <2>2. \A k, l \in 1..Len(queue) : k # l => Below(queue[k]) \cap Below(queue[l]) = {}
    BY <1>1 DEF IInv, HeldOnce
  <2>3. ASSUME NEW i \in 0..Len(queue), NEW j \in 0..Len(queue), i # j
        PROVE  Below(node(i)) \cap Below(node(j)) = {}
    <3>1. CASE i = 0
      BY <1>1, <2>1, <2>3, <3>1
    <3>2. CASE j = 0
      BY <1>1, <2>1, <2>3, <3>2
    <3>3. CASE i # 0 /\ j # 0
      <4>1. i \in 1..Len(queue) /\ j \in 1..Len(queue)
        BY <1>1, <3>3
      <4>2. node(i) = queue[i] /\ node(j) = queue[j]
        BY <3>3
      <4>3. Below(queue[i]) \cap Below(queue[j]) = {}
        BY <2>2, <2>3, <4>1
      <4>4. QED
        BY <4>2, <4>3
    <3>4. QED
      BY <3>1, <3>2, <3>3
  <2>4. QED
    BY <2>3
<1> HIDE DEF node, pick
<1>4. f \in [0..Len(queue) -> Ops]
  BY <1>2
<1>5. \A i, j \in 0..Len(queue) : f[i] = f[j] => i = j
  BY <1>2, <1>3
<1>6. f \in Injection(0..Len(queue), Ops)
  <2> HIDE DEF f
  <2>1. QED
    BY <1>4, <1>5, Fun_IsInj
<1>7. Cardinality(0..Len(queue)) <= Cardinality(Ops)
  BY <1>6, FS_Injection, CreateOpsAssumption
<1>8. Cardinality(0..Len(queue)) = Len(queue) + 1
  <2>1. Cardinality(0..Len(queue)) = IF 0 > Len(queue) THEN 0 ELSE Len(queue) - 0 + 1
    BY <1>1, FS_Interval
  <2>2. QED
    BY <1>1, <2>1
<1>9. QED
  BY <1>1, <1>7, <1>8, CreateOpsAssumption, FS_CardinalityType DEF QueueCap

\* The operation about to be reported is none of those reported before.
LEMMA RoomOnErrs ==
  ASSUME IInv, NEW w \in Workers, pc[w] = "err"
  PROVE  Len(errs) < ErrsCap
<1>1. errs \in Seq(Ops) /\ Len(errs) \in Nat /\ WorkerShape(w)
  BY DEF IInv, TypeOK
<1>2. cur[w] \in Ops /\ cur[w] \in Load(w)
  <2>1. cur[w] \in Ops /\ Dest[cur[w]] = tree[w]
    BY <1>1 DEF WorkerShape, OpsAt
  <2>2. cur[w] \in Below(Dest[cur[w]])
    BY <2>1, PrefixPointwise, CreateOpsAssumption DEF Below
  <2>3. QED
    BY <1>1, <2>1, <2>2, ClaimOf
<1> DEFINE f == [i \in 0..Len(errs) |-> IF i = 0 THEN cur[w] ELSE errs[i]]
<1>3. f \in [0..Len(errs) -> Ops]
  BY <1>1, <1>2
<1>4. \A i, j \in 0..Len(errs) : f[i] = f[j] => i = j
  <2>1. \A k \in 1..Len(errs) : errs[k] # cur[w]
    BY <1>1, <1>2 DEF IInv, FailedOnce
  <2>2. \A k, l \in 1..Len(errs) : k # l => errs[k] # errs[l]
    BY <1>1 DEF IInv, FailedOnce
  <2>3. QED
    BY <1>1, <2>1, <2>2
<1>5. f \in Injection(0..Len(errs), Ops)
  <2> HIDE DEF f
  <2>1. QED
    BY <1>3, <1>4, Fun_IsInj
<1>6. Cardinality(0..Len(errs)) <= Cardinality(Ops)
  BY <1>5, FS_Injection, CreateOpsAssumption
<1>7. Cardinality(0..Len(errs)) = Len(errs) + 1
  <2>1. Cardinality(0..Len(errs)) = IF 0 > Len(errs) THEN 0 ELSE Len(errs) - 0 + 1
    BY <1>1, FS_Interval
  <2>2. QED
    BY <1>1, <2>1
<1>8. QED
  BY <1>1, <1>6, <1>7, CreateOpsAssumption, FS_CardinalityType DEF ErrsCap

\* A channel with as many places as there are operations is enough: no worker ever
\* waits in a send, so the workers cannot all be stuck producing for one another.
THEOREM SendsNeverBlock == Spec => []NoBlockedSend
<1>1. IInv => NoBlockedSend
  BY RoomOnQueue, RoomOnErrs DEF NoBlockedSend
<1>2. QED
  BY <1>1, Invariance, PTL

\* When the channels are closed no worker can send on them any more.
THEOREM ClosedQuietly == Spec => []QuietWhenClosed
<1>1. IInv => QuietWhenClosed
  BY DEF IInv
<1>2. QED
  BY <1>1, Invariance, PTL

\* Nothing of a nested project is on disk before all the projects around it exist.
THEOREM OutermostFirst == Spec => []OuterFirst
<1>1. IInv => OuterFirst
  BY DEF IInv
<1>2. QED
  BY <1>1, Invariance, PTL

\* No cleanup after a failed checkout removes a project that was created.
THEOREM NothingCreatedIsLost == Spec => CreatedStays
<1>1. IInv /\ [Next]_vars => [done \subseteq done']_vars
  <2> SUFFICES ASSUME IInv, Next PROVE done \subseteq done'
    OBVIOUS
  <2>1. CASE Main
    BY <2>1 DEF Main, StartWorkers, WaitReturns, CloseAndCollect
  <2>2. ASSUME NEW w \in Workers, Worker(w) PROVE done \subseteq done'
    <3>1. CASE CreateFails(w)
      BY <3>1, CreateFailsKeeps
    <3>2. CASE CreateOk(w)
      BY <3>2 DEF CreateOk
    <3>3. CASE ~(CreateFails(w) \/ CreateOk(w))
      BY <2>2, <3>3 DEF Worker, Receive, Exit, BeginCreate, RefuseCreate, SendError,
         OpsDone, AddChild, SendChild, TreeDone
    <3>4. QED
      BY <3>1, <3>2, <3>3
  <2>3. CASE Finished
    BY <2>3 DEF Finished, vars
  <2>4. QED
    BY <2>1, <2>2, <2>3 DEF Next
<1>2. QED
  BY <1>1, Invariance, PTL DEF Spec, CreatedStays
-----------------------------------------------------------------------------
(* The pool implements CreateOrder. *)

\* A path is a prefix of itself, and prefixes go on.
LEMMA PrefixOrder ==
  ASSUME NEW s \in Seq(Part), NEW t \in Seq(Part), NEW u \in Seq(Part)
  PROVE  /\ IsPrefix(s, s)
         /\ IsPrefix(s, t) /\ IsPrefix(t, u) => IsPrefix(s, u)
         /\ IsPrefix(s, t) /\ Len(s) = Len(t) => s = t
BY PrefixPointwise

\* What a worker has at hand, nobody else runs and nobody has reported.
LEMMA OwnOp ==
  ASSUME IInv, OrderInv, NEW w \in Workers, NEW o \in Load(w)
  PROVE  /\ main \in {"start", "wait"} /\ multiErr = <<>>
         /\ o \in Failed => pc[w] = "err" /\ o = cur[w]
         /\ o \in Running => pc[w] = "clone" /\ o = cur[w]
         /\ \A i \in DOMAIN errs : errs[i] # o
<1>1. \A v \in Workers : WorkerShape(v)
  BY DEF IInv
<1>2. main \in {"start", "wait"}
  <2>1. pc[w] \notin {"recv", "exit"}
    BY <1>1, ClaimOf
  <2>2. QED
    BY <2>1 DEF IInv, QuietWhenClosed, TypeOK
<1>3. multiErr = <<>>
  BY <1>2 DEF OrderInv
<1>4. \A i \in DOMAIN errs : errs[i] # o
  BY DEF IInv, FailedOnce
<1>5. ASSUME NEW v \in Workers, pc[v] \in {"clone", "err"}, cur[v] = o
      PROVE  v = w
  <2>1. cur[v] \in Ops /\ Dest[cur[v]] = tree[v] /\ Dest[cur[v]] \in Seq(Part)
    BY <1>1, <1>5, CreateOpsAssumption DEF WorkerShape, OpsAt
  <2>2. cur[v] \in Below(tree[v])
    BY <2>1, PrefixOrder DEF Below
  <2>3. cur[v] \in Load(v)
    BY <1>1, <1>5, <2>2, ClaimOf
  <2>4. QED
    BY <1>5, <2>3 DEF IInv, HeldOnce
<1>6. QED
  BY <1>2, <1>3, <1>4, <1>5 DEF Failed, Running

\* The operations at the node a worker sits on.
LEMMA HereOp ==
  ASSUME IInv, OrderInv, NEW w \in Workers, pc[w] \in {"run", "clone", "err"},
         NEW o \in Ops, Dest[o] = tree[w]
  PROVE  o \in Load(w) /\ Load(w) = Below(tree[w])
<1>1. o \in Below(tree[w])
  BY PrefixOrder, CreateOpsAssumption DEF Below
<1>2. WorkerShape(w)
  BY DEF IInv
<1>3. QED
  BY <1>1, <1>2, ClaimOf

\* What runs has not been created, and what was created did not fail.
LEMMA Apart == ASSUME IInv, OrderInv PROVE Running \cap done = {} /\ Running \subseteq Ops
<1>1. \A w \in Workers : pc[w] = "clone" => cur[w] \in todo[w] /\ todo[w] \subseteq Ops
  BY DEF IInv, WorkerShape, TypeOK
<1>2. QED
  BY <1>1 DEF Running, OrderInv, Untried

\* An operation that is to be run may be started in the abstract order.
LEMMA MayStartOp ==
  ASSUME IInv, OrderInv, NEW w \in Workers, pc[w] = "run", NEW o \in todo[w]
  PROVE  o \in Ops /\ o \notin Running \cup Failed \cup done /\ Order!MayStart(o)
<1>1. o \in Ops /\ Dest[o] = tree[w] /\ \A v \in Workers : WorkerShape(v)
  BY DEF IInv, WorkerShape, OpsAt
<1>2. o \in Load(w) /\ Load(w) = Below(tree[w])
  BY <1>1, HereOp
<1>3. o \notin Running \cup Failed /\ main # "done"
  BY <1>2, OwnOp
<1>4. o \notin done
  BY DEF OrderInv, Untried
<1>5. Order!Outer(o) \subseteq Order!With("ok")
  <2>1. Ready(tree[w])
    BY <1>1, ClaimOf DEF IInv, AllReady
  <2>2. Order!Outer(o) \subseteq done
    BY <1>1, <2>1 DEF Order!Outer, Order!IsStrictPrefix, Order!IsPrefix, IsStrictPrefix, IsPrefix, Ready
  <2>3. done \subseteq Ops /\ done \cap Failed = {} /\ done \cap Running = {}
    BY Apart DEF IInv, TypeOK, OrderInv
  <2>4. QED
    BY <2>2, <2>3 DEF Order!With, Outcome
<1>6. ASSUME NEW p \in Order!Rivals(o)
      PROVE  p \notin Order!With("running") \cup Order!With("failed")
  <2>1. p \in Ops /\ Dest[p] = tree[w]
    BY <1>1, <1>6 DEF Order!Rivals
  <2>2. p \in Load(w)
    BY <2>1, HereOp
  <2>3. p \notin Running \cup Failed
    BY <2>2, OwnOp
  <2>4. QED
    BY <2>1, <2>3 DEF Order!With, Outcome
<1>7. Outcome[o] = "pending"
  BY <1>1, <1>3, <1>4 DEF Outcome
<1>8. QED
  BY <1>1, <1>3, <1>4, <1>5, <1>6, <1>7 DEF Order!MayStart, Reported

\* Both modules count alike.
LEMMA SameCount == \A S : Order!Cardinality(S) = Cardinality(S)
BY Zenon DEF Order!Cardinality, Cardinality

\* No worker, no place in the abstract order: fewer run than there are workers.
LEMMA PlaceLeft ==
  ASSUME IInv, OrderInv, NEW w \in Workers, pc[w] # "clone"
  PROVE  Cardinality(Order!With("running")) < Cardinality(Workers)
<1> DEFINE cloning == {v \in Workers : pc[v] = "clone"}
           f == [v \in cloning |-> cur[v]]
<1>1. Order!With("running") = Running
  BY Apart DEF Order!With, Outcome
<1>2. IsFiniteSet(Workers \ {w}) /\ Cardinality(Workers \ {w}) = Cardinality(Workers) - 1
      /\ Cardinality(Workers) \in Nat
  BY CreateOpsAssumption, FS_RemoveElement, FS_CardinalityType
<1>3. cloning \subseteq Workers \ {w}
  OBVIOUS
<1>4. IsFiniteSet(cloning) /\ Cardinality(cloning) <= Cardinality(Workers \ {w})
  BY <1>2, <1>3, FS_Subset
<1>5. f \in Surjection(cloning, Running)
  BY DEF Surjection, Running
<1>6. IsFiniteSet(Running) /\ Cardinality(Running) <= Cardinality(cloning)
  BY <1>4, <1>5, FS_Surjection
<1>7. Cardinality(Running) \in Nat /\ Cardinality(cloning) \in Nat
  BY <1>4, <1>6, FS_CardinalityType
<1>8. QED
  BY <1>1, <1>2, <1>4, <1>6, <1>7

\* The three ways in which a step shows in the abstract order, and a step that does not.
LEMMA OutcomeSame ==
  ASSUME Running' = Running, Failed' = Failed, done' = done
  PROVE  Outcome' = Outcome
BY DEF Outcome

LEMMA OutcomeStep ==
  ASSUME NEW o \in Ops,
         Running' \ {o} = Running \ {o}, Failed' \ {o} = Failed \ {o}, done' \ {o} = done \ {o}
  PROVE  Outcome' = [Outcome EXCEPT ![o] = Outcome'[o]]
BY DEF Outcome

\* The claims and what is created and reported stay: so does what is covered and untried.
LEMMA SameOrderInv ==
  ASSUME OrderInv, UNCHANGED <<queue, done, multiErr>>, Failed \subseteq Failed', Failed' \cap done = {},
         main' = "done" <=> main = "done", main' = "start" <=> main = "start",
         \A v \in Workers :
           /\ Load(v)' = Load(v) /\ todo'[v] \subseteq todo[v]
           /\ pc'[v] \in {"run", "clone", "err"} => pc[v] \in {"run", "clone", "err"} /\ tree'[v] = tree[v]
           /\ pc'[v] \in {"push", "send"} => pc[v] \in {"push", "send"}
           /\ pc'[v] \notin {"run", "clone", "err"} => todo'[v] = {}
  PROVE  OrderInv'
<1>1. Untried'
  BY DEF OrderInv, Untried
<1>2. main' # "start" => \A o \in Ops : Covered(o)'
  BY DEF OrderInv, Covered
<1>3. QED
  BY <1>1, <1>2 DEF OrderInv

\* A step that runs, fails and creates nothing is none in the abstract order.
LEMMA Stutters ==
  ASSUME Running' = Running, Failed' = Failed, done' = done,
         main' = "done" <=> main = "done"
  PROVE  [Order!Next]_(Order!vars)
BY OutcomeSame DEF Order!vars, Reported

\* BeginCreate starts an operation, RefuseCreate refuses one.
LEMMA BeginCreateOrder ==
  ASSUME IInv, OrderInv, NEW w \in Workers, BeginCreate(w)
  PROVE  OrderInv' /\ [Order!Next]_(Order!vars)
<1> USE DEF BeginCreate
<1>1. PICK o \in todo[w] : cur' = [cur EXCEPT ![w] = o]
  OBVIOUS
<1>2. /\ pc' = [pc EXCEPT ![w] = "clone"] /\ pc \in [Workers -> Pcs] /\ pc[w] = "run"
      /\ cur \in [Workers -> Ops \cup {NoOp}]
  BY DEF IInv, TypeOK
<1>3. o \in Ops /\ o \notin Running \cup Failed \cup done /\ Order!MayStart(o)
  BY <1>2, MayStartOp
<1>4. Failed' = Failed
  BY <1>1, <1>2 DEF Failed
<1>5. Running' = Running \cup {o}
  BY <1>1, <1>2 DEF Running
<1>6. Outcome' = [Outcome EXCEPT ![o] = "running"]
  <2>1. Outcome'[o] = "running"
    BY <1>3, <1>5 DEF Outcome
  <2>2. QED
    BY <1>3, <1>4, <1>5, <2>1, OutcomeStep
<1>7. Order!Start(o)
  BY <1>2, <1>3, <1>4, <1>6, PlaceLeft, SameCount DEF Order!Start, Reported
<1>8. OrderInv'
  <2>1. \A v \in Workers : Claim(v)' = Claim(v) /\ Load(v)' = Load(v)
    BY <1>2 DEF Claim, Load
  <2>2. Failed' \cap done = {}
    BY <1>4 DEF OrderInv
  <2>3. QED
    BY <1>2, <1>4, <2>1, <2>2, SameOrderInv DEF OrderInv, Untried
<1>9. QED
  BY <1>3, <1>7, <1>8 DEF Order!Next

LEMMA RefuseCreateOrder ==
  ASSUME IInv, OrderInv, NEW w \in Workers, RefuseCreate(w)
  PROVE  OrderInv' /\ [Order!Next]_(Order!vars)
<1> USE DEF RefuseCreate
<1>1. PICK o \in todo[w] : cur' = [cur EXCEPT ![w] = o]
  OBVIOUS
<1>2. /\ pc' = [pc EXCEPT ![w] = "err"] /\ pc \in [Workers -> Pcs] /\ pc[w] = "run"
      /\ cur \in [Workers -> Ops \cup {NoOp}]
  BY DEF IInv, TypeOK
<1>3. o \in Ops /\ o \notin Running \cup Failed \cup done /\ Order!MayStart(o)
  BY <1>2, MayStartOp
<1>4. Failed' = Failed \cup {o}
  BY <1>1, <1>2, <1>3 DEF Failed
<1>5. Running' = Running
  BY <1>1, <1>2 DEF Running
<1>6. Outcome' = [Outcome EXCEPT ![o] = "failed"]
  <2>1. Outcome'[o] = "failed"
    BY <1>3, <1>4, <1>5 DEF Outcome
  <2>2. QED
    BY <1>3, <1>4, <1>5, <2>1, OutcomeStep
<1>7. Reported' = Reported
  BY <1>3 DEF Order!MayStart, Reported
<1>8. Order!Refuse(o)
  BY <1>3, <1>6, <1>7 DEF Order!Refuse
<1>9. OrderInv'
  <2>1. \A v \in Workers : Claim(v)' = Claim(v) /\ Load(v)' = Load(v)
    BY <1>2 DEF Claim, Load
  <2>2. Failed' \cap done = {}
    BY <1>3, <1>4 DEF OrderInv
  <2>3. QED
    BY <1>2, <1>4, <2>1, <2>2, SameOrderInv DEF OrderInv, Untried
<1>10. QED
  BY <1>3, <1>8, <1>9 DEF Order!Next

\* CreateOk and CreateFails finish one.
LEMMA CreateOkOrder ==
  ASSUME IInv, OrderInv, NEW w \in Workers, CreateOk(w)
  PROVE  OrderInv' /\ [Order!Next]_(Order!vars)
<1> USE DEF CreateOk
<1> DEFINE o == cur[w]
<1>1. /\ pc' = [pc EXCEPT ![w] = "run"] /\ pc \in [Workers -> Pcs] /\ pc[w] = "clone"
      /\ cur' = [cur EXCEPT ![w] = NoOp] /\ cur \in [Workers -> Ops \cup {NoOp}]
      /\ todo' = [todo EXCEPT ![w] = @ \ {o}] /\ todo \in [Workers -> SUBSET Ops]
      /\ done' = done \cup {o}
      /\ \A v \in Workers : WorkerShape(v)
  BY DEF IInv, TypeOK
<1>2. o \in todo[w] /\ o \in Ops /\ Dest[o] = tree[w]
  BY <1>1 DEF WorkerShape, OpsAt
<1>3. o \in Load(w) /\ Load(w) = Below(tree[w])
  BY <1>1, <1>2, HereOp
<1> HIDE DEF o
<1>4. o \notin Failed /\ o \notin done
  BY <1>1, <1>2, <1>3, OwnOp DEF OrderInv, Untried
<1>5. Failed' = Failed
  BY <1>1 DEF Failed
<1>6. Running' = Running \ {o}
  <2>1. \A v \in Workers : v # w /\ pc[v] = "clone" => cur[v] # o
    <3>1. ASSUME NEW v \in Workers, v # w, pc[v] = "clone" PROVE cur[v] # o
      <4>1. cur[v] \in Ops /\ Dest[cur[v]] = tree[v]
        BY <1>1, <3>1 DEF WorkerShape, OpsAt
      <4>2. cur[v] \in Load(v)
        BY <3>1, <4>1, HereOp
      <4>3. QED
        BY <1>3, <3>1, <4>2 DEF IInv, HeldOnce
    <3>2. QED
      BY <3>1
  <2>2. QED
    BY <1>1, <2>1 DEF Running, o
<1>7. Outcome' = [Outcome EXCEPT ![o] = "ok"]
  <2>1. Outcome'[o] = "ok"
    BY <1>1, <1>2, <1>4, <1>5, <1>6 DEF Outcome
  <2>2. QED
    BY <1>1, <1>2, <1>5, <1>6, <2>1, OutcomeStep
<1>8. Outcome[o] = "running"
  BY <1>1, <1>2 DEF Outcome, Running, o
<1>9. Order!Finish(o)
  BY <1>5, <1>7, <1>8 DEF Order!Finish, Reported
<1>10. \A v \in Workers : Claim(v)' = Claim(v) /\ Load(v)' = Load(v)
  BY <1>1 DEF Claim, Load
<1>11. Untried'
  <2>1. ASSUME NEW i \in DOMAIN queue PROVE Below(queue[i]) \cap done' = {}
    BY <1>1, <1>3 DEF IInv, HeldOnce, OrderInv, Untried
  <2>2. ASSUME NEW v \in Workers
        PROVE  /\ todo'[v] \cap done' = {}
               /\ pc'[v] \in {"run", "clone", "err"} =>
                    (Below(tree[v]) \ OpsAt(tree[v])) \cap done' = {}
               /\ pc'[v] \in {"push", "send"} => Load(v) \cap done' = {}
               /\ pc'[v] \notin {"run", "clone", "err"} => todo'[v] = {}
    <3>1. CASE v = w
      BY <1>1, <1>2, <3>1 DEF OrderInv, Untried, OpsAt
    <3>2. CASE v # w
      <4>1. o \notin Load(v)
        BY <1>3, <3>2 DEF IInv, HeldOnce
      <4>2. pc[v] \in {"run", "clone", "err"} => o \notin Below(tree[v])
        BY <1>1, <4>1, ClaimOf
      <4>3. o \notin todo[v]
        <5>1. CASE pc[v] \in {"run", "clone", "err"}
          BY <1>1, <1>2, <4>1, <5>1, HereOp DEF WorkerShape, OpsAt
        <5>2. CASE pc[v] \notin {"run", "clone", "err"}
          BY <1>1, <1>2, <5>2 DEF OrderInv, Untried
        <5>3. QED
          BY <5>1, <5>2
      <4>4. QED
        BY <1>1, <3>2, <4>1, <4>2, <4>3 DEF OrderInv, Untried
    <3>3. QED
      BY <3>1, <3>2
  <2>3. QED
    BY <1>10, <2>1, <2>2 DEF Untried
<1>12. main' # "start" => \A p \in Ops : Covered(p)'
  BY <1>1, <1>5, <1>10 DEF OrderInv, Covered
<1>13. OrderInv'
  <2>1. main # "start"
    BY <1>1 DEF IInv, MainShape, Busy
  <2>2. QED
    BY <1>1, <1>4, <1>5, <1>11, <1>12, <2>1 DEF OrderInv
<1>14. QED
  BY <1>2, <1>9, <1>13 DEF Order!Next

LEMMA CreateFailsOrder ==
  ASSUME IInv, OrderInv, NEW w \in Workers, CreateFails(w)
  PROVE  OrderInv' /\ [Order!Next]_(Order!vars)
<1> USE DEF CreateFails
<1> DEFINE o == cur[w]
<1>1. /\ pc' = [pc EXCEPT ![w] = "err"] /\ pc \in [Workers -> Pcs] /\ pc[w] = "clone"
      /\ done' = done
      /\ \A v \in Workers : WorkerShape(v)
  BY CreateFailsKeeps DEF IInv, TypeOK
<1>2. o \in todo[w] /\ o \in Ops /\ Dest[o] = tree[w] /\ o \notin done
  BY <1>1 DEF WorkerShape, OpsAt, OrderInv, Untried
<1>3. o \in Load(w)
  BY <1>1, <1>2, HereOp
<1> HIDE DEF o
<1>4. Failed' = Failed \cup {o}
  BY <1>1, <1>2 DEF Failed, o
<1>5. Running' = Running \ {o}
  <2>1. ASSUME NEW v \in Workers, v # w, pc[v] = "clone" PROVE cur[v] # o
    <3>1. cur[v] \in Ops /\ Dest[cur[v]] = tree[v]
      BY <1>1, <2>1 DEF WorkerShape, OpsAt
    <3>2. cur[v] \in Load(v)
      BY <2>1, <3>1, HereOp
    <3>3. QED
      BY <1>3, <2>1, <3>2 DEF IInv, HeldOnce
  <2>2. QED
    BY <1>1, <2>1 DEF Running, o
<1>6. Outcome' = [Outcome EXCEPT ![o] = "failed"]
  <2>1. Outcome'[o] = "failed"
    BY <1>2, <1>4, <1>5 DEF Outcome
  <2>2. QED
    BY <1>1, <1>2, <1>4, <1>5, <2>1, OutcomeStep
<1>7. Outcome[o] = "running"
  BY <1>1, <1>2 DEF Outcome, Running, o
<1>8. Reported' = Reported
  BY <1>3, OwnOp DEF Reported
<1>9. Order!Finish(o)
  BY <1>6, <1>7, <1>8 DEF Order!Finish
<1>10. OrderInv'
  <2>1. \A v \in Workers : Claim(v)' = Claim(v) /\ Load(v)' = Load(v)
    BY <1>1 DEF Claim, Load
  <2>2. Failed' \cap done = {}
    BY <1>2, <1>4 DEF OrderInv
  <2>3. QED
    BY <1>1, <1>4, <2>1, <2>2, SameOrderInv DEF OrderInv, Untried
<1>11. QED
  BY <1>2, <1>9, <1>10 DEF Order!Next

\* SendError hands a failure on and gives up what lies below it.
LEMMA SendErrorOrder ==
  ASSUME IInv, OrderInv, NEW w \in Workers, SendError(w)
  PROVE  OrderInv' /\ [Order!Next]_(Order!vars)
<1> USE DEF SendError
<1>1. /\ pc' = [pc EXCEPT ![w] = "recv"] /\ pc \in [Workers -> Pcs] /\ pc[w] = "err"
      /\ cur' = [cur EXCEPT ![w] = NoOp] /\ cur \in [Workers -> Ops \cup {NoOp}]
      /\ todo' = [todo EXCEPT ![w] = {}] /\ todo \in [Workers -> SUBSET Ops]
      /\ \A v \in Workers : WorkerShape(v)
  BY DEF IInv, TypeOK
<1>2. cur[w] \in Ops /\ Dest[cur[w]] = tree[w] /\ pend[w] = {}
  BY <1>1 DEF WorkerShape, OpsAt
<1>3. /\ errs \in Seq(Ops) /\ DOMAIN errs' = DOMAIN errs \cup {Len(errs) + 1}
      /\ \A i \in DOMAIN errs : errs'[i] = errs[i]
      /\ errs'[Len(errs) + 1] = cur[w]
  BY <1>2 DEF IInv, TypeOK
<1>4. Failed' = Failed
  BY <1>1, <1>3 DEF Failed
<1>5. Running' = Running
  BY <1>1 DEF Running
<1>6. Load(w)' = {} /\ \A v \in Workers : v # w => Load(v)' = Load(v)
  BY <1>1, <1>2, ClaimFrame DEF Claim, Load
<1>7. Untried'
  BY <1>1, <1>6 DEF OrderInv, Untried
<1>8. ASSUME main # "start", NEW p \in Ops PROVE Covered(p)'
  <2>1. CASE p \in Load(w)
    <3>1. IsPrefix(Dest[cur[w]], Dest[p])
      BY <1>1, <1>2, <2>1, ClaimOf DEF Below
    <3>2. cur[w] \in Failed
      BY <1>1, <1>2 DEF Failed
    <3>3. QED
      BY <1>4, <3>1, <3>2 DEF Covered
  <2>2. CASE p \notin Load(w)
    BY <1>4, <1>6, <1>8, <2>2 DEF OrderInv, Covered
  <2>3. QED
    BY <2>1, <2>2
<1>9. OrderInv'
  BY <1>4, <1>7, <1>8 DEF OrderInv
<1>10. QED
  BY <1>4, <1>5, <1>9, Stutters

\* Receive moves a subtree from the queue to a worker.
LEMMA ReceiveOrder ==
  ASSUME IInv, OrderInv, NEW w \in Workers, Receive(w)
  PROVE  OrderInv' /\ [Order!Next]_(Order!vars)
<1> USE DEF Receive
<1>1. /\ queue \in Seq(Nodes) /\ 1 \in DOMAIN queue /\ Head(queue) = queue[1]
      /\ \A i \in DOMAIN queue' : queue'[i] = queue[i + 1] /\ i + 1 \in DOMAIN queue
      /\ \A i \in DOMAIN queue : i = 1 \/ (i - 1 \in DOMAIN queue' /\ queue'[i - 1] = queue[i])
  BY DEF IInv, TypeOK
<1>2. /\ pc' = [pc EXCEPT ![w] = "run"] /\ pc \in [Workers -> Pcs] /\ pc[w] = "recv"
      /\ tree' = [tree EXCEPT ![w] = queue[1]] /\ tree \in [Workers -> Seq(Part)]
      /\ todo' = [todo EXCEPT ![w] = OpsAt(queue[1])] /\ todo \in [Workers -> SUBSET Ops]
      /\ \A v \in Workers : WorkerShape(v)
  BY <1>1 DEF IInv, TypeOK
<1>3. Failed' = Failed /\ Running' = Running
  BY <1>2 DEF Failed, Running
<1>4. Load(w) = {} /\ Load(w)' = Below(queue[1])
  BY <1>2, ClaimOf DEF Claim, Load, WorkerShape
<1>5. \A v \in Workers : v # w => Load(v)' = Load(v)
  BY <1>2, ClaimFrame
<1>6. OpsAt(queue[1]) \subseteq Below(queue[1])
  BY PrefixOrder, CreateOpsAssumption DEF OpsAt, Below
<1>7. Untried'
  BY <1>1, <1>2, <1>4, <1>5, <1>6 DEF OrderInv, Untried
<1>8. ASSUME NEW p \in Ops PROVE Covered(p)'
  <2>1. Covered(p)
    BY DEF OrderInv
  <2>2. CASE \E i \in DOMAIN queue : p \in Below(queue[i])
    BY <1>1, <1>4, <2>2 DEF Covered
  <2>3. CASE \E v \in Workers : p \in Load(v)
    BY <1>4, <1>5, <2>3 DEF Covered
  <2>4. QED
    BY <1>3, <2>1, <2>2, <2>3 DEF Covered
<1>9. OrderInv'
  BY <1>3, <1>7, <1>8 DEF OrderInv
<1>10. QED
  BY <1>3, <1>9, Stutters

\* OpsDone trades a node, whose operations have been created, for its children.
LEMMA ChildrenCover ==
  ASSUME NEW n \in Seq(Part), NEW o \in Below(n)
  PROVE  Dest[o] = n \/ \E c \in Children(n) : o \in Below(c)
<1>1. o \in Ops /\ Dest[o] \in Seq(Part) /\ Len(n) <= Len(Dest[o])
      /\ \A i \in 1..Len(n) : n[i] = Dest[o][i]
  BY CreateOpsAssumption, PrefixPointwise DEF Below
<1>2. CASE Len(Dest[o]) = Len(n)
  BY <1>1, <1>2
<1>3. CASE Len(Dest[o]) > Len(n)
  <2> DEFINE c == Append(n, Dest[o][Len(n) + 1])
  <2>1. c \in Children(n)
    BY <1>1, <1>3 DEF Children
  <2>2. c \in Seq(Part) /\ Len(c) = Len(n) + 1 /\ \A i \in 1..Len(c) : c[i] = Dest[o][i]
    BY <1>1, <1>3
  <2>3. Len(c) <= Len(Dest[o])
    BY <1>1, <1>3, <2>2
  <2>4. IsPrefix(c, Dest[o])
    BY <1>1, <2>2, <2>3, PrefixPointwise
  <2>5. QED
    BY <1>1, <2>1, <2>4 DEF Below
<1>4. QED
  BY <1>1, <1>2, <1>3

LEMMA OpsDoneOrder ==
  ASSUME IInv, OrderInv, NEW w \in Workers, OpsDone(w)
  PROVE  OrderInv' /\ [Order!Next]_(Order!vars)
<1> USE DEF OpsDone
<1>1. /\ pc' = [pc EXCEPT ![w] = "push"] /\ pc \in [Workers -> Pcs] /\ pc[w] = "run"
      /\ pend' = [pend EXCEPT ![w] = Children(tree[w])] /\ pend \in [Workers -> SUBSET Nodes]
      /\ tree[w] \in Seq(Part)
      /\ \A v \in Workers : WorkerShape(v)
  BY DEF IInv, TypeOK
<1>2. Failed' = Failed /\ Running' = Running
  BY <1>1 DEF Failed, Running
<1>3. Load(w) = Below(tree[w]) /\ Load(w)' = UNION {Below(c) : c \in Children(tree[w])}
  BY <1>1, ClaimOf DEF Claim, Load
<1>4. \A v \in Workers : v # w => Load(v)' = Load(v)
  BY <1>1, ClaimFrame
<1>5. Load(w)' \subseteq Below(tree[w]) \ OpsAt(tree[w])
  <2>1. ASSUME NEW c \in Children(tree[w]), NEW o \in Below(c)
        PROVE  o \in Below(tree[w]) /\ Dest[o] # tree[w]
    <3>1. o \in Ops /\ Dest[o] \in Seq(Part) /\ c \in Seq(Part) /\ Len(c) <= Len(Dest[o])
      BY <1>1, ChildBelow, CreateOpsAssumption, PrefixPointwise DEF Below
    <3>2. Len(c) = Len(tree[w]) + 1
      BY <1>1 DEF Children
    <3>3. o \in Below(tree[w])
      BY <1>1, ChildBelow
    <3>4. QED
      BY <1>1, <3>1, <3>2, <3>3
  <2>2. QED
    BY <1>3, <2>1 DEF OpsAt
<1>6. Untried'
  BY <1>1, <1>4, <1>5 DEF OrderInv, Untried
<1>7. ASSUME main # "start", NEW p \in Ops PROVE Covered(p)'
  <2>1. CASE p \in Load(w)
    <3>1. Dest[p] = tree[w] => p \in done
      BY <1>1 DEF WorkerShape, OpsAt
    <3>2. Dest[p] # tree[w] => p \in Load(w)'
      BY <1>1, <1>3, <2>1, ChildrenCover
    <3>3. QED
      BY <3>1, <3>2 DEF Covered
  <2>2. CASE p \notin Load(w)
    BY <1>2, <1>4, <1>7, <2>2 DEF OrderInv, Covered
  <2>3. QED
    BY <2>1, <2>2
<1>8. OrderInv'
  BY <1>2, <1>6, <1>7 DEF OrderInv
<1>9. QED
  BY <1>2, <1>8, Stutters

\* AddChild, SendChild and TreeDone move what is claimed.
LEMMA AddChildOrder ==
  ASSUME IInv, OrderInv, NEW w \in Workers, AddChild(w)
  PROVE  OrderInv' /\ [Order!Next]_(Order!vars)
<1> USE DEF AddChild
<1>1. PICK n \in pend[w] : /\ next' = [next EXCEPT ![w] = n]
                           /\ pend' = [pend EXCEPT ![w] = @ \ {n}]
  OBVIOUS
<1>2. /\ pc' = [pc EXCEPT ![w] = "send"] /\ pc \in [Workers -> Pcs] /\ pc[w] = "push"
      /\ pend \in [Workers -> SUBSET Nodes] /\ next \in [Workers -> Seq(Part)]
      /\ \A v \in Workers : WorkerShape(v)
  BY <1>1 DEF IInv, TypeOK
<1>3. Failed' = Failed /\ Running' = Running
  BY <1>2 DEF Failed, Running
<1>4. \A v \in Workers : Load(v)' = Load(v)
  <2>1. Claim(w)' = Claim(w)
    BY <1>1, <1>2, ClaimOf DEF Claim
  <2>2. QED
    BY <1>1, <1>2, <2>1, ClaimFrame DEF Load
<1>5. OrderInv'
  BY <1>2, <1>3, <1>4, SameOrderInv DEF OrderInv, Untried
<1>6. QED
  BY <1>3, <1>5, Stutters

LEMMA SendChildOrder ==
  ASSUME IInv, OrderInv, NEW w \in Workers, SendChild(w)
  PROVE  OrderInv' /\ [Order!Next]_(Order!vars)
<1> USE DEF SendChild
<1>1. /\ pc' = [pc EXCEPT ![w] = "push"] /\ pc \in [Workers -> Pcs] /\ pc[w] = "send"
      /\ \A v \in Workers : WorkerShape(v)
      /\ next[w] \in Nodes
  BY DEF IInv, TypeOK, WorkerShape
<1>2. /\ queue \in Seq(Nodes) /\ DOMAIN queue' = DOMAIN queue \cup {Len(queue) + 1}
      /\ \A i \in DOMAIN queue : queue'[i] = queue[i]
      /\ queue'[Len(queue) + 1] = next[w]
  BY <1>1 DEF IInv, TypeOK
<1>3. Failed' = Failed /\ Running' = Running
  BY <1>1 DEF Failed, Running
<1>4. Load(w) = Load(w)' \cup Below(next[w])
  <2>1. Claim(w) = Claim(w)' \cup {next[w]}
    BY <1>1, ClaimOf DEF Claim
  <2>2. QED
    BY <2>1 DEF Load
<1>5. \A v \in Workers : v # w => Load(v)' = Load(v)
  BY <1>1, ClaimFrame
<1>6. Untried'
  <2>1. Below(next[w]) \cap done = {}
    BY <1>1, <1>4 DEF OrderInv, Untried
  <2>2. QED
    BY <1>1, <1>2, <1>4, <1>5, <2>1 DEF OrderInv, Untried
<1>7. ASSUME main # "start", NEW p \in Ops PROVE Covered(p)'
  <2>1. CASE p \in Below(next[w])
    BY <1>2, <2>1 DEF Covered
  <2>2. CASE p \notin Below(next[w])
    <3>1. Covered(p)
      BY <1>7 DEF OrderInv
    <3>2. (\E i \in DOMAIN queue : p \in Below(queue[i])) => \E i \in DOMAIN queue' : p \in Below(queue'[i])
      BY <1>2
    <3>3. \A v \in Workers : p \in Load(v) => p \in Load(v)'
      BY <1>4, <1>5, <2>2
    <3>4. QED
      BY <1>3, <3>1, <3>2, <3>3 DEF Covered
  <2>3. QED
    BY <2>1, <2>2
<1>8. OrderInv'
  BY <1>3, <1>6, <1>7 DEF OrderInv
<1>9. QED
  BY <1>3, <1>8, Stutters

LEMMA TreeDoneOrder ==
  ASSUME IInv, OrderInv, NEW w \in Workers, TreeDone(w)
  PROVE  OrderInv' /\ [Order!Next]_(Order!vars)
<1> USE DEF TreeDone
<1>1. /\ pc' = [pc EXCEPT ![w] = "recv"] /\ pc \in [Workers -> Pcs] /\ pc[w] = "push"
      /\ pend[w] = {}
  BY DEF IInv, TypeOK
<1>2. Failed' = Failed /\ Running' = Running
  BY <1>1 DEF Failed, Running
<1>3. \A v \in Workers : Load(v)' = Load(v)
  BY <1>1 DEF Claim, Load
<1>4. OrderInv'
  BY <1>1, <1>2, <1>3, SameOrderInv DEF OrderInv, Untried
<1>5. QED
  BY <1>2, <1>4, Stutters

LEMMA ExitOrder ==
  ASSUME IInv, OrderInv, NEW w \in Workers, Exit(w)
  PROVE  OrderInv' /\ [Order!Next]_(Order!vars)
<1> USE DEF Exit
<1>1. pc' = [pc EXCEPT ![w] = "exit"] /\ pc \in [Workers -> Pcs] /\ pc[w] = "recv"
  BY DEF IInv, TypeOK
<1>2. Failed' = Failed /\ Running' = Running
  BY <1>1 DEF Failed, Running
<1>3. \A v \in Workers : Load(v)' = Load(v)
  BY <1>1 DEF Claim, Load
<1>4. OrderInv'
  BY <1>1, <1>2, <1>3, SameOrderInv DEF OrderInv, Untried
<1>5. QED
  BY <1>2, <1>4, Stutters

\* The head of the tree covers every operation.
LEMMA StartWorkersOrder ==
  ASSUME IInv, OrderInv, StartWorkers
  PROVE  OrderInv' /\ [Order!Next]_(Order!vars)
<1> USE DEF StartWorkers, workerVars
<1>1. Failed' = Failed /\ Running' = Running
  BY DEF Failed, Running
<1>2. queue' = << <<>> >> /\ DOMAIN queue' = {1} /\ queue'[1] = <<>>
  OBVIOUS
<1>3. Below(<<>>) = Ops
  <2>1. ASSUME NEW o \in Ops PROVE IsPrefix(<<>>, Dest[o])
    <3>1. Dest[o] \in Seq(Part) /\ Len(<<>>) = 0 /\ Len(Dest[o]) \in Nat
      BY CreateOpsAssumption
    <3>2. SubSeq(<<>>, 1, 0) = SubSeq(Dest[o], 1, 0)
      BY <3>1, SubSeqEmpty
    <3>3. QED
      BY <3>1, <3>2 DEF IsPrefix
  <2>2. QED
    BY <2>1 DEF Below
<1>4. done = {}
  BY DEF OrderInv
<1>5. Untried'
  BY <1>2, <1>4 DEF OrderInv, Untried, Load, Claim
<1>6. \A o \in Ops : Covered(o)'
  BY <1>2, <1>3 DEF Covered
<1>7. OrderInv'
  BY <1>1, <1>5, <1>6 DEF OrderInv
<1>8. QED
  BY <1>1, <1>7, Stutters

LEMMA WaitReturnsOrder ==
  ASSUME IInv, OrderInv, WaitReturns
  PROVE  OrderInv' /\ [Order!Next]_(Order!vars)
<1> USE DEF WaitReturns, workerVars
<1>1. Failed' = Failed /\ Running' = Running
  BY DEF Failed, Running
<1>2. \A v \in Workers : Load(v)' = Load(v)
  BY DEF Claim, Load
<1>3. OrderInv'
  BY <1>1, <1>2, SameOrderInv DEF OrderInv, Untried
<1>4. QED
  BY <1>1, <1>3, Stutters

\* CloseAndCollect returns the failures: with nothing queued or claimed any more, what
\* was not created lies at or below a failure and may not be started.
LEMMA CloseAndCollectOrder ==
  ASSUME IInv, OrderInv, CloseAndCollect
  PROVE  OrderInv' /\ [Order!Next]_(Order!vars)
<1> USE DEF CloseAndCollect, workerVars
<1>1. multiErr = <<>> /\ main = "closing" /\ queue = <<>>
      /\ \A w \in Workers : WorkerShape(w) /\ pc[w] \in {"recv", "exit"}
  BY DEF OrderInv, IInv, QuietWhenClosed
<1>2. Failed' = Failed /\ Running = {} /\ Running' = {}
  BY <1>1 DEF Failed, Running
<1>3. Failed \subseteq Ops
  BY <1>1 DEF Failed
<1>4. \A w \in Workers : Load(w) = {} /\ Load(w)' = {}
  <2>1. \A w \in Workers : Load(w) = {}
    BY <1>1, ClaimOf
  <2>2. QED
    BY <2>1, ClaimFrame
<1>5. ASSUME NEW o \in Ops PROVE ~Order!MayStart(o)
  <2>1. Covered(o)
    BY <1>1 DEF OrderInv
  <2>2. CASE o \in done
    BY <1>2, <2>2 DEF OrderInv, Order!MayStart, Outcome
  <2>3. ASSUME NEW f \in Failed, IsPrefix(Dest[f], Dest[o])
        PROVE  ~Order!MayStart(o)
    <3>1. f \in Ops /\ Outcome[f] = "failed"
      BY <1>2, <1>3 DEF Outcome
    <3>2. CASE f = o
      BY <3>1, <3>2 DEF Order!MayStart
    <3>3. CASE f # o /\ Dest[f] = Dest[o]
      BY <3>1, <3>3 DEF Order!MayStart, Order!Rivals, Order!With
    <3>4. CASE Dest[f] # Dest[o]
      <4>1. f \in Order!Outer(o)
        BY <2>3, <3>1, <3>4 DEF Order!Outer, Order!IsStrictPrefix, Order!IsPrefix, IsPrefix
      <4>2. QED
        BY <3>1, <4>1 DEF Order!MayStart, Order!With
    <3>5. QED
      BY <3>2, <3>3, <3>4
  <2>4. QED
    BY <1>1, <1>4, <2>1, <2>2, <2>3 DEF Covered
<1>6. Order!With("running") = {} /\ Order!With("failed") = Failed
  BY <1>2, <1>3 DEF Order!With, Outcome
<1>7. Outcome' = Outcome
  BY <1>2, OutcomeSame
<1>8. Order!Return
  BY <1>1, <1>2, <1>5, <1>6, <1>7 DEF Order!Return, Reported
<1>9. Untried'
  BY <1>4 DEF OrderInv, Untried
<1>10. \A o \in Ops : Covered(o)'
  BY <1>1, <1>2, <1>4 DEF OrderInv, Covered
<1>11. OrderInv'
  BY <1>2, <1>9, <1>10 DEF OrderInv
<1>12. QED
  BY <1>8, <1>11 DEF Order!Next

LEMMA OrderNext == IInv /\ OrderInv /\ [Next]_vars => OrderInv' /\ [Order!Next]_(Order!vars)
<1> SUFFICES ASSUME IInv, OrderInv, [Next]_vars
             PROVE  OrderInv' /\ [Order!Next]_(Order!vars)
  OBVIOUS
<1>1. CASE Main
  BY <1>1, StartWorkersOrder, WaitReturnsOrder, CloseAndCollectOrder DEF Main
<1>2. ASSUME NEW w \in Workers, Worker(w)
      PROVE  OrderInv' /\ [Order!Next]_(Order!vars)
  BY <1>2, ReceiveOrder, ExitOrder, BeginCreateOrder, RefuseCreateOrder, CreateOkOrder,
     CreateFailsOrder, SendErrorOrder, OpsDoneOrder, AddChildOrder, SendChildOrder, TreeDoneOrder
     DEF Worker
<1>3. CASE UNCHANGED vars
  <2>1. Failed' = Failed /\ Running' = Running
    BY <1>3 DEF vars, workerVars, Failed, Running
  <2>2. \A v \in Workers : Load(v)' = Load(v)
    BY <1>3 DEF vars, workerVars, Claim, Load
  <2>3. OrderInv'
    BY <1>3, <2>1, <2>2, SameOrderInv DEF vars, workerVars, OrderInv, Untried
  <2>4. QED
    BY <1>3, <2>1, <2>3, Stutters DEF vars
<1>4. QED
  BY <1>1, <1>2, <1>3 DEF Next, Finished

LEMMA OrderInit == Init => OrderInv /\ Order!Init
<1> SUFFICES ASSUME Init PROVE OrderInv /\ Order!Init
  OBVIOUS
<1> USE DEF Init
<1>1. Failed = {} /\ Running = {}
  BY DEF Failed, Running
<1>2. \A w \in Workers : Load(w) = {}
  BY DEF Claim, Load
<1>3. OrderInv
  BY <1>1, <1>2 DEF OrderInv, Untried
<1>4. QED
  BY <1>1, <1>3 DEF Order!Init, Outcome, Reported

\* The pool of workers implements the order of creation: what it creates, refuses, gives
\* up and returns is what CreateOrder allows, for every tree of projects and however the
\* workers interleave.
THEOREM PoolImplementsOrder == Spec => ImplementsOrder
<1>1. QED
  BY OrderInit, OrderNext, Invariance, PTL DEF Spec, ImplementsOrder, Order!Spec
=============================================================================
