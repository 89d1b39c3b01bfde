---------------------------- MODULE SimpleMRProofs ----------------------------
(***************************************************************************)
(* What is proved about simplemr and jiri runp, for any number of mappers, *)
(* any records, keys and capacities, and whoever fails, cancels or times   *)
(* out.  A result is lost only by a mapper whose error is still to be      *)
(* received (Failed), so once all of them have reported nil every record   *)
(* is in the store (Accounted); and while no error of the reducer is       *)
(* pending, each key is reduced, being reduced or still to come (Reducing).*)
(***************************************************************************)
EXTENDS RunP, FiniteSetTheorems, TLAPS

USE SimpleMRAssumption

-----------------------------------------------------------------------------
(***************************************************************************)
(* The invariant of simplemr.                                              *)
(***************************************************************************)
Exited == {m \in Mappers : mpc[m] = "exit"}
Passed == sent - Len(in)
KeysOf(S) == {Key[r] : r \in S}

\* The result of a mapper that lost its record is in the channel, or Run is over.
Failed == run \in {"close", "done"} \/ \E i \in DOMAIN mch : mch[i] = "map"

\* Every mapper that has ended left one result; Run has them all before it goes on.
Counted ==
  /\ Len(mch) + ended <= Cardinality(Exited)
  /\ run = "map" => Len(mch) + ended = Cardinality(Exited)
  /\ run \in {"check", "go", "reduce"} \/ rpc # "none" => Exited = Mappers
  /\ run \in {"check", "go", "reduce"} => mch = <<>>

\* The records in the channel are the last that were sent, and one that has been received
\* is with one mapper or in the store, not both.
Once ==
  /\ Len(in) <= sent
  /\ \A i \in 1..Len(in) : in[i] = Passed + i
  /\ data \subseteq 1..Passed
  /\ \A m \in Mappers : mpc[m] = "map" => rec[m] \in 1..Passed \ data
  /\ \A m, n \in Mappers : mpc[m] = "map" /\ mpc[n] = "map" /\ rec[m] = rec[n] => m = n

Accounted ==
  Failed \/ \A r \in 1..Passed : r \in data \/ \E m \in Mappers : mpc[m] = "map" /\ rec[m] = r

\* A mapper ends well only when the input is closed and empty.
EndedWell ==
  /\ inClosed => sent = Recs
  /\ Failed \/ \A m \in Exited : inClosed /\ in = <<>>

\* The reducer runs between go and the end of Run, or is left behind.
Stages ==
  /\ run \in {"map", "check", "go"} => rpc = "none"
  /\ run = "reduce" => rpc # "none"
  /\ outClosed <=> run = "done"
  /\ rpc = "panic" => outClosed
  /\ rchClosed => rpc = "exit"
  /\ rpc = "none" => reduced = <<>> /\ keys = {}
  /\ rpc = "exit" => keys = {}

\* The keys are taken in order.
Sorted ==
  /\ \A i, j \in DOMAIN reduced : i < j => reduced[i] < reduced[j]
  /\ \A i \in DOMAIN reduced, k \in keys : reduced[i] < k
  /\ rpc \in {"reduce", "err"} =>
       (\A i \in DOMAIN reduced : reduced[i] < key) /\ \A k \in keys : key < k

\* Only keys of the store are reduced, and while no error is pending every one of them is.
Reducing ==
  /\ keys \subseteq KeysOf(data) /\ Range(reduced) \subseteq KeysOf(data)
  /\ rpc \in {"reduce", "err"} => key \in KeysOf(data)
  /\ run = "reduce" /\ rch = <<>> /\ rpc # "err" =>
       \A k \in KeysOf(data) : k \in keys \/ k \in Range(reduced) \/ (rpc = "reduce" /\ k = key)

\* What ret and err say of the end of Run.
Returned ==
  /\ run \notin {"close", "done"} => ret = "none"
  /\ run \in {"close", "done"} /\ err = "nil" => ret \in {"nil", "cancelled"}
  /\ ret = "cancelled" => cancelled
  /\ ret = "nil" =>
       /\ rpc = "exit" /\ inClosed /\ data = 1..sent
       /\ Range(reduced) = KeysOf(data)

Early == early => cancelled /\ rpc = "none" /\ run \notin {"go", "reduce"}

IInv ==
  /\ TypeOK /\ Counted /\ Once /\ Accounted /\ EndedWell
  /\ Stages /\ Sorted /\ Reducing /\ Returned /\ Early
-----------------------------------------------------------------------------
(***************************************************************************)
(* The invariant of runp.                                                  *)
(***************************************************************************)
RunPTypeOK ==
  /\ flags \in [collate : BOOLEAN, prefix : BOOLEAN, exitOnError : BOOLEAN]
  /\ main \in {"run", "over", "panic"} /\ begun \in BOOLEAN
  /\ step \in [Mappers -> {"start", "wait", "drain"}]
  /\ proc \in [Records -> {"none", "unstarted", "running", "done", "failed", "killed"}]
  /\ file \in [Records -> {"none", "empty", "piped", "whole"}]
  /\ outcome \in [Records -> {"none", "nil", "failed"}]
  /\ printed \in Seq(Records \X {"output", "FAILED"} \X {"none", "empty", "piped", "whole"})

\* The err of mapOutput is that of a command that has ended, with its output in the file.
Told(r) ==
  /\ outcome[r] # "none"
  /\ outcome[r] = "nil" => proc[r] \in {"done", "failed", "killed"}

Handled ==
  /\ \A r \in Records : proc[r] \in {"done", "failed"} => file[r] \in {"piped", "whole"}
  /\ \A r \in Records : r > Passed => proc[r] = "none"
  /\ \A m \in Mappers : mpc[m] # "map" => step[m] = "start"
  /\ \A m \in Mappers : mpc[m] = "map" =>
       /\ step[m] = "start" => proc[rec[m]] = "none"
       /\ step[m] = "wait" => proc[rec[m]] # "none"
       /\ step[m] = "drain" => Told(rec[m])
  /\ \A r \in data : Told(r) /\ (outcome[r] = "nil" => proc[r] = "killed" \/ file[r] = "whole")

\* A command is killed only while there is no reducer and will be none.
Killed == (\E r \in Records : proc[r] = "killed") => cancelled /\ rpc = "none" /\ run \notin {"go", "reduce"}

Printed ==
  /\ \A i \in DOMAIN printed :
       /\ Key[printed[i][1]] \in Range(reduced) /\ printed[i][3] = "whole"
       /\ flags.collate \/ outcome[printed[i][1]] = "failed"
  /\ \A i, j \in DOMAIN printed : i < j => Key[printed[i][1]] < Key[printed[j][1]]
  /\ \A r \in Records : Key[r] \in Range(reduced) /\ (flags.collate \/ outcome[r] = "failed") =>
       \E i \in DOMAIN printed : printed[i][1] = r

RunPInv == RunPTypeOK /\ Handled /\ Killed /\ Printed /\ (main = "over" => outClosed)
-----------------------------------------------------------------------------
(***************************************************************************)
(* The steps of simplemr and of its clients.                               *)
(***************************************************************************)
\* Reduce returns nil without a call of ReduceOut, as that of runp does.
ReduceNil ==
  /\ rpc = "reduce" /\ rpc' = "loop"
  /\ reduced' = Append(reduced, key)
  /\ UNCHANGED <<producerVars, run, timer, mapperVars, mch, ended, cancelled, data,
                 key, keys, rch, rchClosed, outVars, err, ret, early>>

\* Cancel is called by a Mapper, by the Reducer or from outside.
Cancelled ==
  \/ \E m \in Mappers : MapperCancels(m)
  \/ ReducerCancels
  \/ Cancel("external")

Step ==
  \/ Produce \/ CloseInput \/ Consume \/ TimerFires \/ Cancelled
  \/ \E m \in Mappers : MapperStep(m)
  \/ RunStep \/ ReducerStep \/ ReduceNil
  \/ UNCHANGED vars

\* What is left as it is by all but the mappers, but Run and but the reducer.
ClientSteps == Produce \/ CloseInput \/ Consume \/ TimerFires \/ Cancelled
LEMMA NextIsStep == Next => Step
BY DEF Next, Step, Cancelled, Halted

LEMMA Frames ==
  /\ ClientSteps => UNCHANGED <<run, mapperVars, mch, ended, data, reducerVars, rch, rchClosed, outClosed, err, ret>>
  /\ \A m \in Mappers : MapperStep(m) =>
       UNCHANGED <<sent, inClosed, run, timer, ended, cancelled, reducerVars, rch, rchClosed, outVars, err, ret, early>>
  /\ RunStep => UNCHANGED <<producerVars, mapperVars, cancelled, data, key, reduced, rchClosed, out, early>>
  /\ ReducerStep \/ ReduceNil =>
       UNCHANGED <<producerVars, run, timer, mapperVars, mch, ended, cancelled, data, outClosed, err, ret, early>>
<1>1. ClientSteps => UNCHANGED <<run, mapperVars, mch, ended, data, reducerVars, rch, rchClosed, outClosed, err, ret>>
  BY DEF ClientSteps, Produce, CloseInput, Consume, TimerFires, Cancelled, MapperCancels, ReducerCancels,
    Cancel, outVars, mapperVars, reducerVars
<1>2. ASSUME NEW m \in Mappers, MapperStep(m)
      PROVE  UNCHANGED <<sent, inClosed, run, timer, ended, cancelled, reducerVars, rch, rchClosed, outVars, err, ret, early>>
  BY <1>2 DEF MapperStep, Receive, InputEnds, MapOk, MapFails, producerVars
<1>3. RunStep => UNCHANGED <<producerVars, mapperVars, cancelled, data, key, reduced, rchClosed, out, early>>
  BY DEF RunStep, MapperResult, MappersCancelled, MappersTimeOut, CheckCancelled, StartReducer,
    ReducerResult, ReducerTimesOut, CloseOutput, reducerVars, outVars
<1>4. ReducerStep \/ ReduceNil =>
        UNCHANGED <<producerVars, run, timer, mapperVars, mch, ended, cancelled, data, outClosed, err, ret, early>>
  BY DEF ReducerStep, ReduceNil, NextKey, KeysEnd, ReduceOut, ReduceFails, SendReduceError, outVars
<1> QED BY <1>1, <1>2, <1>3, <1>4

LEMMA StepCases ==
  Step <=> \/ ClientSteps \/ (\E m \in Mappers : MapperStep(m))
           \/ RunStep \/ ReducerStep \/ ReduceNil \/ UNCHANGED vars
BY DEF Step, ClientSteps
-----------------------------------------------------------------------------
\* The mappers that have ended are finitely many, and one more ends.
LEMMA ExitedFacts ==
  /\ IsFiniteSet(Exited) /\ Cardinality(Exited) \in Nat /\ Cardinality(Mappers) \in Nat
  /\ Cardinality(Exited) <= Cardinality(Mappers)
  /\ Cardinality(Exited) = Cardinality(Mappers) => Exited = Mappers
<1>1. Exited \subseteq Mappers
  BY DEF Exited
<1> QED BY <1>1, FS_Subset, FS_CardinalityType

LEMMA ExitAdds ==
  ASSUME TypeOK, NEW m \in Mappers, mpc[m] # "exit", mpc' = [mpc EXCEPT ![m] = "exit"]
  PROVE  /\ Exited' = Exited \cup {m} /\ m \notin Exited
         /\ Cardinality(Exited') = Cardinality(Exited) + 1
         /\ Cardinality(Exited') <= Cardinality(Mappers)
         /\ IsFiniteSet(Exited')
<1>1. Exited' = Exited \cup {m} /\ m \notin Exited
  BY DEF TypeOK, Exited
<1>2. Cardinality(Exited') = Cardinality(Exited) + 1
  BY <1>1, ExitedFacts, FS_AddElement
<1>3. Exited' \subseteq Mappers
  BY DEF Exited
<1> QED BY <1>1, <1>2, <1>3, FS_Subset

LEMMA ExitStays ==
  ASSUME TypeOK, NEW m \in Mappers, mpc[m] # "exit", NEW v \in {"recv", "map"}, mpc' = [mpc EXCEPT ![m] = v]
  PROVE  Exited' = Exited
BY DEF TypeOK, Exited

\* All the records are in the store once Run has heard from all the mappers.
LEMMA AllMapped ==
  ASSUME IInv, run \in {"check", "go", "reduce"}
  PROVE  inClosed /\ data = 1..sent /\ Passed = sent /\ \A m \in Mappers : mpc[m] = "exit"
<1>1. Exited = Mappers /\ mch = <<>>
  BY DEF IInv, Counted
<1>2. ~Failed
  BY <1>1 DEF Failed
<1>3. \A m \in Mappers : mpc[m] = "exit"
  BY <1>1 DEF Exited
<1>4. inClosed /\ in = <<>>
  BY <1>1, <1>2 DEF IInv, EndedWell
<1>5. Passed = sent
  BY <1>4 DEF Passed, IInv, TypeOK
<1>6. \A r \in 1..sent : r \in data
  BY <1>2, <1>3, <1>5 DEF IInv, Accounted
<1> QED BY <1>3, <1>4, <1>5, <1>6 DEF IInv, Once

\* While a mapper is at work the reducer has not been started.
LEMMA MappersAtWork ==
  ASSUME IInv, NEW m \in Mappers, mpc[m] # "exit"
  PROVE  rpc = "none" /\ run \in {"map", "close", "done"}
BY DEF IInv, Counted, Exited, TypeOK
-----------------------------------------------------------------------------
(***************************************************************************)
(* The invariant holds at first, and every step keeps each of its parts.   *)
(***************************************************************************)
LEMMA InitHolds == ASSUME Init PROVE IInv
<1>1. Exited = {} /\ Passed = 0 /\ ~Failed
  <2>1. Len(in) = 0 /\ sent = 0
    BY DEF Init
  <2>2. DOMAIN mch = {}
    BY DEF Init
  <2>3. Exited = {}
    BY DEF Init, Exited
  <2>4. Passed = 0
    BY <2>1 DEF Passed
  <2>5. run = "map"
    BY DEF Init
  <2> QED BY <2>2, <2>3, <2>4, <2>5 DEF Failed
<1>2. Cardinality(Exited) = 0 /\ Cardinality(Mappers) \in Nat
  BY <1>1, FS_EmptySet, ExitedFacts
<1>3. TypeOK
  <2>1. Len(in) = 0 /\ Len(mch) = 0 /\ Len(out) = 0 /\ Len(rch) = 0
    BY DEF Init
  <2>2. in \in Seq(Records) /\ mch \in Seq({"nil", "map"}) /\ out \in Seq(Keys) /\ rch \in Seq({"reduce"}) /\ reduced \in Seq(Keys)
    BY DEF Init
  <2>3. mpc \in [Mappers -> {"recv", "map", "exit"}] /\ rec \in [Mappers -> 0..Recs]
    BY DEF Init
  <2>4. data \subseteq Records /\ keys \subseteq Keys /\ key \in Keys \cup {0}
    BY DEF Init
  <2>5. sent \in 0..Recs /\ ended \in 0..Cardinality(Mappers) /\ timer \in {"none", "armed", "fired", "taken"}
    BY <1>2 DEF Init
  <2>6. run = "map" /\ rpc = "none" /\ err = "nil" /\ ret = "none" /\ inClosed = FALSE /\ cancelled = FALSE
        /\ early = FALSE /\ rchClosed = FALSE /\ outClosed = FALSE
    BY DEF Init
  <2>7. Len(in) <= InCap /\ Len(out) <= OutCap /\ Len(mch) <= Cardinality(Mappers) /\ Len(rch) <= 1
    BY <1>2, <2>1
  <2> QED BY <2>2, <2>3, <2>4, <2>5, <2>6, <2>7 DEF TypeOK
<1>4. Counted
  BY <1>1, <1>2 DEF Init, Counted
<1>5. Once /\ Accounted /\ EndedWell
  BY <1>1 DEF Init, Once, Accounted, EndedWell
<1>6. Stages /\ Returned /\ Early
  BY DEF Init, Stages, Returned, Early
<1>7. Sorted /\ Reducing
  BY DEF Init, Sorted, Reducing, KeysOf, Range
<1> QED BY <1>3, <1>4, <1>5, <1>6, <1>7 DEF IInv

LEMMA TypePreserved == ASSUME IInv, Step PROVE TypeOK'
<1> USE DEF IInv
<1>1. CASE Produce
  BY <1>1 DEF Produce, TypeOK, Records, mapperVars, reducerVars, outVars
<1>2. CASE CloseInput
  BY <1>2 DEF CloseInput, TypeOK, mapperVars, reducerVars, outVars
<1>3. CASE Consume
  BY <1>3 DEF Consume, TypeOK, producerVars, mapperVars, reducerVars
<1>4. CASE TimerFires
  BY <1>4 DEF TimerFires, TypeOK, producerVars, mapperVars, reducerVars, outVars
<1>5. CASE Cancelled
  <2>1. cancelled' = TRUE /\ early' \in BOOLEAN
    BY <1>5 DEF Cancelled, MapperCancels, ReducerCancels, Cancel
  <2>2. UNCHANGED <<producerVars, run, timer, mapperVars, mch, ended, data, reducerVars, rch, rchClosed, outVars, err, ret>>
    BY <1>5 DEF Cancelled, MapperCancels, ReducerCancels, Cancel
  <2> QED BY <2>1, <2>2 DEF TypeOK, producerVars, mapperVars, reducerVars, outVars
<1>6. ASSUME NEW m \in Mappers, Receive(m) PROVE TypeOK'
  <2>1. Head(in) \in Records /\ Tail(in) \in Seq(Records) /\ Len(Tail(in)) <= InCap
    BY <1>6 DEF Receive, TypeOK
  <2>2. rec' \in [Mappers -> 0..Recs] /\ mpc' \in [Mappers -> {"recv", "map", "exit"}]
    <3>1. Head(in) \in 0..Recs
      BY <2>1 DEF Records
    <3>2. rec \in [Mappers -> 0..Recs] /\ mpc \in [Mappers -> {"recv", "map", "exit"}]
      BY DEF TypeOK
    <3>3. rec' = [rec EXCEPT ![m] = Head(in)] /\ mpc' = [mpc EXCEPT ![m] = "map"]
      BY <1>6 DEF Receive
    <3> QED BY <3>1, <3>2, <3>3
  <2> QED BY <1>6, <2>1, <2>2 DEF Receive, TypeOK, reducerVars, outVars
<1>7. ASSUME NEW m \in Mappers, NEW e \in {"nil", "map"}, mpc[m] # "exit",
             mpc' = [mpc EXCEPT ![m] = "exit"], mch' = Append(mch, e),
             UNCHANGED <<producerVars, run, timer, rec, ended, cancelled, data,
                 reducerVars, rch, rchClosed, outVars, err, ret, early>>
      PROVE  TypeOK'
  <2>1. Len(mch) + 1 <= Cardinality(Mappers)
    <3>1. Cardinality(Exited) + 1 <= Cardinality(Mappers)
      BY <1>7, ExitAdds
    <3> QED BY <3>1, ExitedFacts DEF Counted, TypeOK
  <2> QED BY <1>7, <2>1, ExitedFacts DEF TypeOK, producerVars, reducerVars, outVars
<1>8. ASSUME NEW m \in Mappers, InputEnds(m) \/ MapFails(m) PROVE TypeOK'
  BY <1>7, <1>8 DEF InputEnds, MapFails
<1>9. ASSUME NEW m \in Mappers, MapOk(m) PROVE TypeOK'
  <2>1. rec[m] \in Records
    BY <1>9 DEF Once, Passed, MapOk, TypeOK, Records
  <2> QED BY <1>9, <2>1 DEF MapOk, TypeOK, producerVars, reducerVars, outVars
<1>10. CASE MapperResult
  <2>1. ended + Len(mch) <= Cardinality(Mappers) /\ Len(mch) >= 1 /\ Cardinality(Mappers) \in Nat
    BY <1>10, ExitedFacts DEF Counted, TypeOK, MapperResult
  <2> QED BY <1>10, <2>1 DEF MapperResult, Fail, TypeOK, producerVars, mapperVars, reducerVars, outVars, Errors
<1>11. CASE MappersCancelled \/ MappersTimeOut \/ CheckCancelled
  BY <1>11 DEF MappersCancelled, MappersTimeOut, CheckCancelled, Fail, TypeOK, producerVars, mapperVars, reducerVars, outVars, Errors
<1>12. CASE StartReducer
  BY <1>12 DEF StartReducer, TypeOK, producerVars, mapperVars, outVars, Keys
<1>13. CASE ReducerResult \/ ReducerTimesOut \/ CloseOutput
  <2>1. rch' \in Seq({"reduce"}) /\ Len(rch') <= 1
    BY <1>13 DEF ReducerResult, ReducerTimesOut, CloseOutput, TypeOK
  <2>2. err' \in Errors \cup {"nil"} /\ ret' \in Errors \cup {"nil", "none"}
    BY <1>13 DEF ReducerResult, ReducerTimesOut, CloseOutput, AfterReduce, TypeOK, Errors
  <2>3. timer' \in {"none", "armed", "fired", "taken"} /\ run' \in {"close", "done"} /\ outClosed' \in BOOLEAN
    BY <1>13 DEF ReducerResult, ReducerTimesOut, CloseOutput, AfterReduce, TypeOK, outVars
  <2>4. UNCHANGED <<mch, ended, keys, rpc>>
    BY <1>13 DEF ReducerResult, ReducerTimesOut, CloseOutput, reducerVars
  <2> QED BY <1>13, <2>1, <2>2, <2>3, <2>4, Frames DEF RunStep, TypeOK, producerVars, mapperVars
<1>14. CASE NextKey \/ KeysEnd \/ ReduceFails \/ SendReduceError
  <2>1. rpc' \in {"loop", "reduce", "err", "exit"} /\ key' \in Keys \cup {0} /\ keys' \subseteq Keys
    BY <1>14 DEF NextKey, KeysEnd, ReduceFails, SendReduceError, TypeOK
  <2>2. rch' \in Seq({"reduce"}) /\ Len(rch') <= 1 /\ rchClosed' \in BOOLEAN
    <3>1. rch' \in {rch, <<"reduce">>} /\ rchClosed' \in {rchClosed, TRUE}
      BY <1>14 DEF NextKey, KeysEnd, ReduceFails, SendReduceError
    <3>2. rch \in Seq({"reduce"}) /\ Len(rch) <= 1 /\ rchClosed \in BOOLEAN
      BY DEF TypeOK
    <3>3. rch' \in Seq({"reduce"}) /\ Len(rch') <= 1
      <4>1. CASE rch' = rch
        BY <4>1, <3>2
      <4>2. CASE rch' = <<"reduce">>
        <5>1. "reduce" \in {"reduce"}
          OBVIOUS
        <5> HIDE <3>2
        <5> QED BY <4>2, <5>1
      <4> QED BY <3>1, <4>1, <4>2
    <3> QED BY <3>1, <3>2, <3>3
  <2>3. UNCHANGED <<out, reduced>>
    BY <1>14 DEF NextKey, KeysEnd, ReduceFails, SendReduceError, outVars
  <2> QED BY <1>14, <2>1, <2>2, <2>3, Frames DEF ReducerStep, TypeOK, producerVars, mapperVars
<1>15. CASE ReduceOut \/ ReduceNil
  <2>1. key \in Keys
    BY <1>15 DEF Reducing, KeysOf, TypeOK, ReduceOut, ReduceNil, Keys
  <2>2. rpc' \in {"loop", "panic"} /\ reduced' \in Seq(Keys) /\ out' \in Seq(Keys) /\ Len(out') <= OutCap
    <3>1. /\ rpc' \in {"loop", "panic"} /\ reduced' \in {reduced, Append(reduced, key)}
          /\ out' = out \/ (Len(out) < OutCap /\ out' = Append(out, key))
      BY <1>15 DEF ReduceOut, ReduceNil, outVars
    <3>2. reduced \in Seq(Keys) /\ out \in Seq(Keys) /\ Len(out) <= OutCap
      BY DEF TypeOK
    <3>3. reduced' \in Seq(Keys)
      BY <2>1, <3>1, <3>2
    <3>4. out' \in Seq(Keys) /\ Len(out') <= OutCap
      <4>1. CASE out' = out
        BY <4>1, <3>2
      <4>2. CASE Len(out) < OutCap /\ out' = Append(out, key)
        <5>1. Len(out) \in Nat /\ out' \in Seq(Keys) /\ Len(out') = Len(out) + 1
          BY <2>1, <3>2, <4>2
        <5> QED BY <5>1, <4>2
      <4> QED BY <3>1, <4>1, <4>2
    <3> QED BY <3>1, <3>3, <3>4
  <2>3. UNCHANGED <<key, keys, rch, rchClosed>>
    BY <1>15 DEF ReduceOut, ReduceNil
  <2> QED BY <1>15, <2>2, <2>3, Frames DEF ReducerStep, TypeOK, producerVars, mapperVars
<1>16. CASE UNCHANGED vars
  BY <1>16 DEF vars, TypeOK
<1> QED BY <1>1, <1>2, <1>3, <1>4, <1>5, <1>6, <1>8, <1>9, <1>10, <1>11, <1>12, <1>13, <1>14, <1>15, <1>16
  DEF Step, MapperStep, RunStep, ReducerStep

LEMMA CountedPreserved == ASSUME IInv, Step PROVE Counted'
<1> USE DEF IInv
<1>1. CASE ClientSteps \/ UNCHANGED vars
  BY <1>1, Frames DEF Counted, Exited, vars, mapperVars, reducerVars
<1>2. ASSUME NEW m \in Mappers, InputEnds(m) \/ MapFails(m) PROVE Counted'
  <2>1. mpc[m] # "exit" /\ mpc' = [mpc EXCEPT ![m] = "exit"] /\ Len(mch') = Len(mch) + 1
    BY <1>2 DEF InputEnds, MapFails, TypeOK
  <2>2. UNCHANGED <<run, rpc, ended>>
    BY <1>2, Frames DEF MapperStep, reducerVars
  <2>3. rpc = "none" /\ run \in {"map", "close", "done"}
    BY <2>1, MappersAtWork
  <2>4. Cardinality(Exited') = Cardinality(Exited) + 1
    BY <2>1, ExitAdds
  <2> QED BY <2>1, <2>2, <2>3, <2>4, ExitedFacts DEF Counted, TypeOK
<1>3. ASSUME NEW m \in Mappers, Receive(m) \/ MapOk(m) PROVE Counted'
  <2>1. Exited' = Exited
    BY <1>3, ExitStays DEF Receive, MapOk
  <2> QED BY <1>3, <2>1 DEF Receive, MapOk, Counted, reducerVars
<1>4. CASE MapperResult
  <2>1. Exited' = Exited
    BY <1>4 DEF MapperResult, mapperVars, Exited
  <2>2. Len(mch) \in Nat /\ Len(mch) >= 1 /\ Len(mch') = Len(mch) - 1 /\ (Len(mch') = 0 => mch' = <<>>)
    BY <1>4 DEF MapperResult, TypeOK
  <2> QED BY <1>4, <2>1, <2>2, ExitedFacts DEF MapperResult, Fail, Counted, TypeOK, reducerVars, Stages
<1>5. CASE RunStep /\ ~MapperResult
  <2>1. Exited' = Exited
    BY <1>5, Frames DEF mapperVars, Exited
  <2>2. UNCHANGED <<mch, ended>>
    BY <1>5 DEF RunStep, MappersCancelled, MappersTimeOut, CheckCancelled, StartReducer,
      ReducerResult, ReducerTimesOut, CloseOutput
  <2> QED BY <1>5, <2>1, <2>2 DEF RunStep, MappersCancelled, MappersTimeOut, CheckCancelled, StartReducer,
      ReducerResult, ReducerTimesOut, CloseOutput, Fail, AfterReduce, Counted, reducerVars
<1>6. CASE ReducerStep \/ ReduceNil
  <2>1. Exited' = Exited /\ UNCHANGED <<run, mch, ended>>
    BY <1>6, Frames DEF mapperVars, Exited
  <2>2. rpc # "none"
    BY <1>6 DEF ReducerStep, ReduceNil, NextKey, KeysEnd, ReduceOut, ReduceFails, SendReduceError
  <2> QED BY <2>1, <2>2 DEF Counted
<1> QED BY <1>1, <1>2, <1>3, <1>4, <1>5, <1>6, StepCases DEF MapperStep

LEMMA OncePreserved == ASSUME IInv, Step PROVE Once'
<1> USE DEF IInv
<1>1. CASE Produce
  <2>1. Len(in') = Len(in) + 1 /\ Passed' = Passed /\ UNCHANGED <<data, mpc, rec>>
    BY <1>1 DEF Produce, Passed, TypeOK, mapperVars
  <2>2. in \in Seq(Records) /\ sent \in Nat /\ Len(in) \in Nat
    BY DEF TypeOK
  <2>3. \A i \in 1..Len(in') : in'[i] = IF i <= Len(in) THEN in[i] ELSE sent + 1
    BY <1>1, <2>1, <2>2 DEF Produce
  <2>4. \A i \in 1..Len(in') : in'[i] = Passed + i
    <3>1. \A i \in 1..Len(in) : in[i] = Passed + i
      BY DEF Once
    <3>2. sent + 1 = Passed + Len(in) + 1 /\ Passed \in Int
      BY <2>2 DEF Passed
    <3> QED BY <2>1, <2>2, <2>3, <3>1, <3>2
  <2> QED BY <1>1, <2>1, <2>2, <2>4 DEF Produce, Once
<1>2. CASE ClientSteps /\ UNCHANGED <<sent, in>>
  BY <1>2, Frames DEF Once, Passed, mapperVars
<1>3. ASSUME NEW m \in Mappers, Receive(m) PROVE Once'
  <2>1. Len(in) \in Nat /\ Len(in) >= 1 /\ Len(in') = Len(in) - 1 /\ \A i \in 1..Len(in') : in'[i] = in[i + 1]
    BY <1>3 DEF Receive, TypeOK
  <2>2. rec'[m] = Passed + 1 /\ Passed' = Passed + 1
    BY <1>3, <2>1 DEF Receive, TypeOK, Once, Passed
  <2>3. Len(in') <= sent' /\ \A i \in 1..Len(in') : in'[i] = Passed' + i
    BY <1>3, <2>1, <2>2 DEF Receive, TypeOK, Once, Passed
  <2>4. Passed \in Nat /\ data' = data /\ data \subseteq 1..Passed
    BY <1>3 DEF Receive, TypeOK, Once, Passed
  <2>5. \A n \in Mappers : mpc'[n] = "map" => n = m \/ (mpc[n] = "map" /\ rec'[n] = rec[n] /\ rec[n] \in 1..Passed \ data)
    BY <1>3 DEF Receive, TypeOK, Once
  <2>6. \A n \in Mappers : mpc'[n] = "map" => rec'[n] \in 1..Passed' \ data'
    BY <2>2, <2>4, <2>5
  <2>7. \A n \in Mappers : mpc'[n] = "map" /\ rec'[n] = rec'[m] => n = m
    BY <2>2, <2>4, <2>5
  <2>8. \A n, k \in Mappers : mpc'[n] = "map" /\ mpc'[k] = "map" /\ rec'[n] = rec'[k] => n = k
    BY <2>5, <2>7 DEF Once
  <2>9. data' \subseteq 1..Passed'
    BY <2>2, <2>4
  <2> QED BY <2>3, <2>6, <2>8, <2>9 DEF Once
<1>4. ASSUME NEW m \in Mappers, MapOk(m) PROVE Once'
  BY <1>4 DEF MapOk, TypeOK, Once, Passed, producerVars
<1>5. ASSUME NEW m \in Mappers, InputEnds(m) \/ MapFails(m) PROVE Once'
  <2>1. UNCHANGED <<sent, in, data, rec>> /\ mpc' = [mpc EXCEPT ![m] = "exit"]
    BY <1>5 DEF InputEnds, MapFails, producerVars
  <2> QED BY <2>1 DEF TypeOK, Once, Passed
<1>6. CASE RunStep \/ ReducerStep \/ ReduceNil \/ UNCHANGED vars
  BY <1>6, Frames DEF Once, Passed, mapperVars, producerVars, vars
<1>7. ClientSteps => Produce \/ UNCHANGED <<sent, in>>
  BY DEF ClientSteps, CloseInput, Consume, TimerFires, Cancelled, MapperCancels, ReducerCancels, Cancel, producerVars
<1> QED BY <1>1, <1>2, <1>3, <1>4, <1>5, <1>6, <1>7, StepCases DEF MapperStep

\* A failure stays in the channel until Run takes it and is over.
LEMMA FailedStays == ASSUME IInv, Step, Failed PROVE Failed'
<1> USE DEF IInv
<1>1. CASE run \in {"close", "done"}
  <2>1. run' \in {"close", "done"}
    <3>1. CASE ClientSteps \/ ReducerStep \/ ReduceNil \/ UNCHANGED vars
      BY <1>1, <3>1, Frames DEF vars
    <3>2. CASE RunStep
      BY <1>1, <3>2 DEF RunStep, MapperResult, MappersCancelled, MappersTimeOut, CheckCancelled, StartReducer,
        ReducerResult, ReducerTimesOut, CloseOutput
    <3>3. ASSUME NEW m \in Mappers, MapperStep(m) PROVE run' = run
      BY <3>3, Frames
    <3> QED BY <1>1, <3>1, <3>2, <3>3, StepCases
  <2> QED BY <2>1 DEF Failed
<1>2. CASE run \notin {"close", "done"}
  <2>1. PICK i \in DOMAIN mch : mch[i] = "map"
    BY <1>2 DEF Failed
  <2>2. mch \in Seq({"nil", "map"}) /\ i \in 1..Len(mch)
    BY <2>1 DEF TypeOK
  <2>3. CASE ClientSteps \/ ReducerStep \/ ReduceNil \/ UNCHANGED vars
    BY <2>1, <2>3, Frames DEF vars, Failed
  <2>4. ASSUME NEW m \in Mappers, MapperStep(m) PROVE Failed'
    <3>1. mch' = mch \/ \E e \in {"nil", "map"} : mch' = Append(mch, e)
      BY <2>4 DEF MapperStep, Receive, InputEnds, MapOk, MapFails
    <3>2. i \in DOMAIN mch' /\ mch'[i] = "map"
      BY <2>1, <2>2, <3>1
    <3> QED BY <3>2 DEF Failed
  <2>5. CASE MapperResult
    <3>1. CASE i = 1
      <4>1. Head(mch) = "map"
        BY <2>1, <2>2, <3>1
      <4> QED BY <2>5, <4>1 DEF MapperResult, Fail, Failed
    <3>2. CASE i # 1
      <4>1. mch' = Tail(mch)
        BY <2>5 DEF MapperResult
      <4>2. i - 1 \in DOMAIN mch' /\ mch'[i - 1] = mch[i]
        BY <2>2, <3>2, <4>1
      <4> QED BY <2>1, <4>2 DEF Failed
    <3> QED BY <3>1, <3>2
  <2>6. CASE RunStep /\ ~MapperResult
    <3>1. mch # <<>>
      BY <2>2
    <3>2. run = "map"
      BY <1>2, <3>1 DEF Counted, TypeOK
    <3>3. run' = "close"
      BY <2>6, <3>2 DEF RunStep, MappersCancelled, MappersTimeOut, CheckCancelled, StartReducer,
        ReducerResult, ReducerTimesOut, CloseOutput, Fail
    <3> QED BY <3>3 DEF Failed
  <2> QED BY <2>3, <2>4, <2>5, <2>6, StepCases
<1> QED BY <1>1, <1>2

\* A mapper whose Map fails leaves its error in the channel.
LEMMA FailureTold == ASSUME IInv, NEW m \in Mappers, MapFails(m) PROVE Failed'
<1>1. mch \in Seq({"nil", "map"}) /\ mch' = Append(mch, "map")
  BY DEF IInv, TypeOK, MapFails
<1>2. Len(mch) + 1 \in DOMAIN mch' /\ mch'[Len(mch) + 1] = "map"
  BY <1>1
<1> QED BY <1>2 DEF Failed

LEMMA AccountedPreserved == ASSUME IInv, Step PROVE Accounted'
<1> USE DEF IInv
<1>1. CASE Failed
  BY <1>1, FailedStays DEF Accounted
<1>2. CASE ~Failed /\ (ClientSteps \/ UNCHANGED vars)
  <2>1. Passed' = Passed /\ UNCHANGED <<data, mpc, rec>>
    <3>1. CASE Produce
      BY <3>1 DEF Produce, Passed, TypeOK, mapperVars
    <3>2. CASE ~Produce
      BY <1>2, <3>2, Frames DEF ClientSteps, CloseInput, Consume, TimerFires, Cancelled, MapperCancels, ReducerCancels,
        Cancel, producerVars, mapperVars, Passed, vars
    <3> QED BY <3>1, <3>2
  <2> QED BY <1>2, <2>1 DEF Accounted
<1>3. ASSUME ~Failed, NEW m \in Mappers, Receive(m) PROVE Accounted'
  <2>1. Len(in) \in Nat /\ Len(in) >= 1 /\ Len(in') = Len(in) - 1 /\ sent \in Nat
    BY <1>3 DEF Receive, TypeOK
  <2>2. rec'[m] = Passed + 1 /\ Passed' = Passed + 1 /\ Passed \in Nat
    BY <1>3, <2>1 DEF Receive, TypeOK, Once, Passed
  <2>3. mpc'[m] = "map" /\ \A n \in Mappers : mpc[n] = "map" => mpc'[n] = "map" /\ rec'[n] = rec[n]
    BY <1>3 DEF Receive, TypeOK
  <2>4. data' = data
    BY <1>3 DEF Receive
  <2> QED BY <1>3, <2>2, <2>3, <2>4 DEF Accounted
<1>4. ASSUME ~Failed, NEW m \in Mappers, MapOk(m) PROVE Accounted'
  <2>1. data' = data \cup {rec[m]} /\ Passed' = Passed /\ rec' = rec
    BY <1>4 DEF MapOk, producerVars, Passed
  <2>2. \A n \in Mappers : n # m => mpc'[n] = mpc[n]
    BY <1>4 DEF MapOk, TypeOK
  <2> QED BY <1>4, <2>1, <2>2 DEF Accounted
<1>5. ASSUME ~Failed, NEW m \in Mappers, InputEnds(m) PROVE Accounted'
  <2>1. data' = data /\ Passed' = Passed /\ rec' = rec
    BY <1>5 DEF InputEnds, producerVars, Passed
  <2>2. \A n \in Mappers : mpc[n] = "map" => mpc'[n] = mpc[n]
    BY <1>5 DEF InputEnds, TypeOK
  <2> QED BY <1>5, <2>1, <2>2 DEF Accounted
<1>6. CASE ~Failed /\ (RunStep \/ ReducerStep \/ ReduceNil)
  BY <1>6, Frames DEF Accounted, Passed, mapperVars, producerVars
<1>7. ASSUME NEW m \in Mappers, MapFails(m) PROVE Accounted'
  BY <1>7, FailureTold DEF Accounted
<1> QED BY <1>1, <1>2, <1>3, <1>4, <1>5, <1>6, <1>7, StepCases DEF MapperStep

LEMMA EndedWellPreserved == ASSUME IInv, Step PROVE EndedWell'
<1> USE DEF IInv
<1>1. (inClosed => sent = Recs)'
  <2>1. (inClosed' = inClosed /\ sent' = sent) \/ Produce \/ CloseInput
    BY StepCases, Frames DEF ClientSteps, Consume, TimerFires, Cancelled, MapperCancels,
      ReducerCancels, Cancel, producerVars, vars
  <2>2. CASE inClosed' = inClosed /\ sent' = sent
    BY <2>2 DEF EndedWell
  <2>3. CASE Produce
    BY <2>3 DEF Produce, EndedWell, TypeOK
  <2>4. CASE CloseInput
    BY <2>4 DEF CloseInput
  <2> QED BY <2>1, <2>2, <2>3, <2>4
<1>2. CASE Failed
  BY <1>1, <1>2, FailedStays DEF EndedWell
<1>3. CASE ~Failed /\ (ClientSteps \/ UNCHANGED vars)
  <2>1. Exited' = Exited
    BY <1>3, Frames DEF Exited, mapperVars, vars
  <2>2. inClosed /\ in = <<>> => inClosed' /\ in' = <<>>
    <3>1. (in' = in /\ inClosed' \in {inClosed, TRUE}) \/ Produce
      BY <1>3 DEF ClientSteps, CloseInput, Consume, TimerFires, Cancelled, MapperCancels,
        ReducerCancels, Cancel, producerVars, vars
    <3>2. Produce => ~inClosed
      BY DEF Produce, EndedWell, TypeOK
    <3> QED BY <3>1, <3>2
  <2> QED BY <1>1, <1>3, <2>1, <2>2 DEF EndedWell
<1>4. ASSUME ~Failed, NEW m \in Mappers, Receive(m) \/ MapOk(m) PROVE EndedWell'
  <2>1. Exited' = Exited
    BY <1>4, ExitStays DEF Receive, MapOk
  <2>2. inClosed /\ in = <<>> => inClosed' /\ in' = <<>>
    BY <1>4 DEF Receive, MapOk, producerVars
  <2> QED BY <1>1, <1>4, <2>1, <2>2 DEF EndedWell
<1>5. ASSUME NEW m \in Mappers, InputEnds(m) PROVE EndedWell'
  BY <1>1, <1>5 DEF InputEnds, EndedWell, producerVars
<1>6. ASSUME NEW m \in Mappers, MapFails(m) PROVE EndedWell'
  BY <1>1, <1>6, FailureTold DEF EndedWell
<1>7. CASE ~Failed /\ (RunStep \/ ReducerStep \/ ReduceNil)
  BY <1>1, <1>7, Frames DEF EndedWell, Exited, mapperVars, producerVars
<1> QED BY <1>2, <1>3, <1>4, <1>5, <1>6, <1>7, StepCases DEF MapperStep

LEMMA StagesPreserved == ASSUME IInv, Step PROVE Stages'
<1> USE DEF IInv
<1>1. CASE ClientSteps \/ UNCHANGED vars
  BY <1>1, Frames DEF Stages, reducerVars, outVars, vars
<1>2. ASSUME NEW m \in Mappers, MapperStep(m) PROVE Stages'
  BY <1>2, Frames DEF Stages, reducerVars, outVars
<1>3. CASE StartReducer
  BY <1>3 DEF StartReducer, Stages, outVars
<1>4. CASE RunStep /\ ~StartReducer
  BY <1>4, Frames DEF RunStep, MapperResult, MappersCancelled, MappersTimeOut, CheckCancelled,
    ReducerResult, ReducerTimesOut, CloseOutput, Fail, AfterReduce, Stages, reducerVars, outVars
<1>5. CASE ReducerStep \/ ReduceNil
  <2>1. rpc # "none" /\ rpc' # "none" /\ UNCHANGED <<run, outClosed>>
    BY <1>5, Frames DEF ReducerStep, ReduceNil, NextKey, KeysEnd, ReduceOut, ReduceFails, SendReduceError
  <2>2. rpc' = "panic" => outClosed
    BY <1>5 DEF ReducerStep, ReduceNil, NextKey, KeysEnd, ReduceOut, ReduceFails, SendReduceError
  <2>3. rpc # "exit" /\ (rpc' = "exit" => keys' = {}) /\ (rchClosed' = rchClosed \/ rpc' = "exit")
    BY <1>5 DEF ReducerStep, ReduceNil, NextKey, KeysEnd, ReduceOut, ReduceFails, SendReduceError
  <2>4. ~rchClosed
    BY <2>3 DEF Stages
  <2> QED BY <2>1, <2>2, <2>3, <2>4 DEF Stages
<1> QED BY <1>1, <1>2, <1>3, <1>4, <1>5, StepCases

LEMMA EarlyPreserved == ASSUME IInv, Step PROVE Early'
<1> USE DEF IInv
<1>1. CASE Cancelled
  <2>1. UNCHANGED <<rpc, run>> /\ cancelled'
    BY <1>1 DEF Cancelled, MapperCancels, ReducerCancels, Cancel, reducerVars
  <2>2. early' => rpc = "none" /\ \E m \in Mappers : mpc[m] = "map"
    BY <1>1 DEF Cancelled, MapperCancels, ReducerCancels, Cancel
  <2> QED BY <2>1, <2>2, MappersAtWork DEF Early
<1>2. CASE ~Cancelled /\ (ClientSteps \/ UNCHANGED vars)
  <2>1. UNCHANGED <<early, cancelled, rpc, run>>
    BY <1>2 DEF ClientSteps, Produce, CloseInput, Consume, TimerFires, reducerVars, vars
  <2> QED BY <2>1, Zenon DEF Early
<1>3. ASSUME NEW m \in Mappers, MapperStep(m) PROVE Early'
  <2>1. UNCHANGED <<early, cancelled, rpc, run>>
    BY <1>3, Frames DEF reducerVars
  <2> QED BY <2>1, Zenon DEF Early
<1>4. CASE RunStep
  <2>1. UNCHANGED <<early, cancelled>>
    BY <1>4, Frames
  <2>2. cancelled /\ rpc = "none" /\ run \notin {"go", "reduce"} => rpc' = "none" /\ run' \notin {"go", "reduce"}
    BY <1>4 DEF RunStep, MapperResult, MappersCancelled, MappersTimeOut, CheckCancelled, StartReducer,
      ReducerResult, ReducerTimesOut, CloseOutput, Fail, AfterReduce, reducerVars
  <2> QED BY <2>1, <2>2, Zenon DEF Early
<1>5. CASE ReducerStep \/ ReduceNil
  BY <1>5, Frames DEF ReducerStep, ReduceNil, NextKey, KeysEnd, ReduceOut, ReduceFails, SendReduceError, Early
<1> QED BY <1>1, <1>2, <1>3, <1>4, <1>5, StepCases

LEMMA KeysAreNumbers == Keys \subseteq Nat
BY DEF Keys, Records

\* A key that has been reduced is the last of reduced.
LEMMA ReducedOne ==
  ASSUME TypeOK, rpc = "reduce", key \in Keys, reduced' = Append(reduced, key)
  PROVE  /\ DOMAIN reduced' = DOMAIN reduced \cup {Len(reduced) + 1} /\ DOMAIN reduced = 1..Len(reduced)
         /\ Len(reduced) \in Nat
         /\ reduced'[Len(reduced) + 1] = key
         /\ \A i \in DOMAIN reduced : reduced'[i] = reduced[i]
         /\ Range(reduced') = Range(reduced) \cup {key}
<1>1. reduced \in Seq(Keys)
  BY DEF TypeOK
<1>2. /\ DOMAIN reduced' = DOMAIN reduced \cup {Len(reduced) + 1} /\ DOMAIN reduced = 1..Len(reduced)
      /\ Len(reduced) \in Nat
      /\ reduced'[Len(reduced) + 1] = key
      /\ \A i \in DOMAIN reduced : reduced'[i] = reduced[i]
  BY <1>1
<1> QED BY <1>2 DEF Range

\* What happens to the key that is taken and to the key that is reduced.
LEMMA ReducerMoves ==
  ASSUME IInv, ReducerStep \/ ReduceNil
  PROVE  \/ NextKey
         \/ KeysEnd
         \/ rpc = "reduce" /\ rpc' = "loop" /\ reduced' = Append(reduced, key) /\ UNCHANGED <<key, keys, rch>>
         \/ rpc = "reduce" /\ rpc' = "panic" /\ run = "done" /\ UNCHANGED <<key, keys, reduced, rch>>
         \/ ReduceFails
         \/ SendReduceError
BY DEF IInv, Stages, ReducerStep, ReduceNil, ReduceOut

LEMMA SortedPreserved == ASSUME IInv, Step PROVE Sorted'
<1> USE DEF IInv
<1>1. CASE ClientSteps \/ UNCHANGED vars
  BY <1>1, Frames DEF Sorted, reducerVars, vars
<1>2. ASSUME NEW m \in Mappers, MapperStep(m) PROVE Sorted'
  BY <1>2, Frames DEF Sorted, reducerVars
<1>3. CASE StartReducer
  <2>1. rpc = "none" /\ DOMAIN reduced = {}
    BY <1>3 DEF StartReducer, Stages
  <2> QED BY <1>3, <2>1 DEF StartReducer, Sorted
<1>4. CASE RunStep /\ ~StartReducer
  <2>1. UNCHANGED <<reduced, keys, key, rpc>>
    BY <1>4, Frames DEF RunStep, MapperResult, MappersCancelled, MappersTimeOut, CheckCancelled,
      ReducerResult, ReducerTimesOut, CloseOutput, reducerVars
  <2> QED BY <2>1 DEF Sorted
<1>5. CASE NextKey
  <2>1. key' \in keys /\ keys' = keys \ {key'} /\ \A k \in keys : key' <= k
    BY <1>5 DEF NextKey
  <2>2. \A k \in keys : k \in Nat
    BY KeysAreNumbers DEF TypeOK
  <2>3. reduced' = reduced
    BY <1>5 DEF NextKey
  <2>4. \A k \in keys' : key' < k
    BY <2>1, <2>2
  <2> QED BY <2>1, <2>3, <2>4 DEF Sorted
<1>6. CASE rpc = "reduce" /\ rpc' = "loop" /\ reduced' = Append(reduced, key) /\ UNCHANGED <<key, keys, rch>>
  <2>1. key \in Keys
    BY <1>6 DEF Reducing, KeysOf, TypeOK, Keys
  <2>2. \A i, j \in DOMAIN reduced' : i < j => reduced'[i] < reduced'[j]
    BY <1>6, <2>1, ReducedOne DEF Sorted
  <2>3. \A i \in DOMAIN reduced', k \in keys' : reduced'[i] < k
    BY <1>6, <2>1, ReducedOne DEF Sorted
  <2> QED BY <1>6, <2>2, <2>3 DEF Sorted
<1>7. CASE KeysEnd \/ ReduceFails \/ SendReduceError
  BY <1>7 DEF KeysEnd, ReduceFails, SendReduceError, Sorted
<1>8. CASE rpc' = "panic" /\ UNCHANGED <<key, keys, reduced, rch>>
  BY <1>8 DEF Sorted
<1> QED BY <1>1, <1>2, <1>3, <1>4, <1>5, <1>6, <1>7, <1>8, StepCases, ReducerMoves

LEMMA ReducingPreserved == ASSUME IInv, Step PROVE Reducing'
<1> USE DEF IInv
<1>1. CASE ClientSteps \/ UNCHANGED vars
  BY <1>1, Frames DEF Reducing, KeysOf, Range, reducerVars, vars
<1>2. ASSUME NEW m \in Mappers, MapperStep(m) PROVE Reducing'
  <2>1. rpc = "none" /\ run # "reduce"
    BY <1>2, MappersAtWork DEF MapperStep, Receive, InputEnds, MapOk, MapFails
  <2>2. UNCHANGED <<rpc, run, keys, reduced>>
    BY <1>2, Frames DEF reducerVars
  <2>3. keys = {} /\ Range(reduced) = {}
    BY <2>1 DEF Stages, Range
  <2>4. Range(reduced') = Range(reduced)
    BY <2>2 DEF Range
  <2> QED BY <2>1, <2>2, <2>3, <2>4 DEF Reducing
<1>3. CASE StartReducer
  <2>1. Range(reduced') = {}
    BY <1>3 DEF StartReducer, Stages, Range
  <2>2. keys' = KeysOf(data') /\ rpc' = "loop"
    BY <1>3 DEF StartReducer, KeysOf
  <2> QED BY <2>1, <2>2 DEF Reducing
<1>4. CASE RunStep /\ ~StartReducer
  <2>1. UNCHANGED <<reduced, keys, key, rpc, data>> /\ run' # "reduce"
    BY <1>4, Frames DEF RunStep, MapperResult, MappersCancelled, MappersTimeOut, CheckCancelled,
      ReducerResult, ReducerTimesOut, CloseOutput, Fail, AfterReduce, reducerVars
  <2>2. Range(reduced') = Range(reduced) /\ KeysOf(data') = KeysOf(data)
    BY <2>1 DEF Range, KeysOf
  <2> QED BY <2>1, <2>2 DEF Reducing
<1>5. ASSUME ReducerStep \/ ReduceNil PROVE UNCHANGED <<run, data>> /\ KeysOf(data') = KeysOf(data)
  BY <1>5, Frames DEF KeysOf
<1>6. CASE NextKey
  <2>1. key' \in keys /\ keys' = keys \ {key'} /\ reduced' = reduced /\ rch' = rch /\ rpc = "loop" /\ rpc' = "reduce"
    BY <1>6 DEF NextKey
  <2>2. Range(reduced') = Range(reduced)
    BY <2>1 DEF Range
  <2> QED BY <1>5, <1>6, <2>1, <2>2 DEF Reducing, ReducerStep
<1>7. CASE KeysEnd
  <2>1. UNCHANGED <<keys, key, reduced, rch>> /\ rpc = "loop" /\ rpc' = "exit"
    BY <1>7 DEF KeysEnd
  <2>2. Range(reduced') = Range(reduced)
    BY <2>1 DEF Range
  <2> QED BY <1>5, <1>7, <2>1, <2>2 DEF Reducing, ReducerStep
<1>8. CASE (ReducerStep \/ ReduceNil) /\ rpc = "reduce" /\ rpc' = "loop" /\ reduced' = Append(reduced, key) /\ UNCHANGED <<key, keys, rch>>
  <2>1. key \in Keys /\ key \in KeysOf(data)
    BY <1>8 DEF Reducing, KeysOf, TypeOK, Keys
  <2>2. Range(reduced') = Range(reduced) \cup {key}
    BY <1>8, <2>1, ReducedOne
  <2> QED BY <1>5, <1>8, <2>1, <2>2 DEF Reducing
<1>9. CASE (ReducerStep \/ ReduceNil) /\ rpc' = "panic" /\ run = "done" /\ UNCHANGED <<key, keys, reduced, rch>>
  <2>1. Range(reduced') = Range(reduced)
    BY <1>9 DEF Range
  <2> QED BY <1>5, <1>9, <2>1 DEF Reducing
<1>10. CASE ReduceFails
  <2>1. UNCHANGED <<keys, key, reduced, rch>> /\ rpc = "reduce" /\ rpc' = "err"
    BY <1>10 DEF ReduceFails
  <2>2. Range(reduced') = Range(reduced)
    BY <2>1 DEF Range
  <2> QED BY <1>5, <1>10, <2>1, <2>2 DEF Reducing, ReducerStep
<1>11. CASE SendReduceError
  <2>1. UNCHANGED <<keys, key, reduced>> /\ rch' = <<"reduce">> /\ rpc' = "loop"
    BY <1>11 DEF SendReduceError
  <2>2. Range(reduced') = Range(reduced) /\ rch' # <<>>
    BY <2>1 DEF Range
  <2> QED BY <1>5, <1>11, <2>1, <2>2 DEF Reducing, ReducerStep
<1> QED BY <1>1, <1>2, <1>3, <1>4, <1>6, <1>7, <1>8, <1>9, <1>10, <1>11, StepCases, ReducerMoves

LEMMA ReturnedPreserved == ASSUME IInv, Step PROVE Returned'
<1> USE DEF IInv
<1>1. CASE ClientSteps \/ UNCHANGED vars
  <2>1. UNCHANGED <<run, err, ret, rpc, data, reduced>> /\ (cancelled => cancelled')
    BY <1>1, Frames DEF ClientSteps, Produce, CloseInput, Consume, TimerFires, Cancelled, MapperCancels, ReducerCancels,
      Cancel, reducerVars, vars
  <2>2. inClosed => inClosed' /\ sent' = sent
    <3>1. Produce \/ (sent' = sent /\ inClosed' \in {inClosed, TRUE})
      BY <1>1 DEF ClientSteps, CloseInput, Consume, TimerFires, Cancelled, MapperCancels, ReducerCancels,
        Cancel, producerVars, vars
    <3>2. Produce => ~inClosed
      BY DEF Produce, EndedWell, TypeOK
    <3> QED BY <3>1, <3>2
  <2>3. Range(reduced') = Range(reduced) /\ KeysOf(data') = KeysOf(data)
    BY <2>1 DEF Range, KeysOf
  <2> QED BY <2>1, <2>2, <2>3 DEF Returned
<1>2. ASSUME NEW m \in Mappers, MapperStep(m) PROVE Returned'
  <2>1. rpc = "none"
    BY <1>2, MappersAtWork DEF MapperStep, Receive, InputEnds, MapOk, MapFails
  <2>2. UNCHANGED <<run, ret, err, cancelled>>
    BY <1>2, Frames
  <2> QED BY <2>1, <2>2 DEF Returned
<1>3. CASE ReducerResult \/ ReducerTimesOut
  <2>1. inClosed /\ data = 1..sent /\ UNCHANGED <<inClosed, data, sent, reduced, rpc, cancelled>>
    BY <1>3, AllMapped, Frames DEF ReducerResult, ReducerTimesOut, RunStep, producerVars, reducerVars
  <2>2. run' = "close" /\ ret' = IF cancelled THEN "cancelled" ELSE err'
    BY <1>3 DEF ReducerResult, ReducerTimesOut, AfterReduce
  <2>3. err' = "nil" => rch = <<>> /\ rchClosed /\ run = "reduce"
    <3>1. rch # <<>> => Head(rch) = "reduce"
      BY DEF TypeOK
    <3> QED BY <1>3, <3>1 DEF ReducerResult, ReducerTimesOut, AfterReduce
  <2>4. err' = "nil" => rpc = "exit" /\ Range(reduced) = KeysOf(data)
    BY <2>3 DEF Stages, Reducing
  <2>5. Range(reduced') = Range(reduced) /\ KeysOf(data') = KeysOf(data)
    BY <2>1 DEF Range, KeysOf
  <2>6. err' \in {"reduce", "timeout", "nil"}
    BY <1>3 DEF ReducerResult, ReducerTimesOut, AfterReduce, TypeOK
  <2> QED BY <2>1, <2>2, <2>4, <2>5, <2>6 DEF Returned
<1>4. CASE CloseOutput
  <2>1. UNCHANGED <<inClosed, data, sent, reduced, rpc, cancelled, ret, err>> /\ run' = "done" /\ run = "close"
    BY <1>4 DEF CloseOutput, producerVars, reducerVars
  <2>2. Range(reduced') = Range(reduced) /\ KeysOf(data') = KeysOf(data)
    BY <2>1 DEF Range, KeysOf
  <2> QED BY <2>1, <2>2 DEF Returned
<1>5. CASE MapperResult \/ MappersCancelled \/ MappersTimeOut \/ CheckCancelled \/ StartReducer
  <2>1. run \notin {"close", "done"} /\ cancelled' = cancelled
    BY <1>5 DEF MapperResult, MappersCancelled, MappersTimeOut, CheckCancelled, StartReducer
  <2>2. ret = "none"
    BY <2>1 DEF Returned
  <2>3. \/ run' \notin {"close", "done"} /\ ret' = "none"
        \/ run' = "close" /\ ret' = "cancelled" /\ cancelled
        \/ run' = "close" /\ ret' \in {"map", "timeout"} /\ err' # "nil"
    BY <1>5, <2>1, <2>2 DEF MapperResult, MappersCancelled, MappersTimeOut, CheckCancelled, StartReducer, Fail
  <2> QED BY <2>1, <2>3 DEF Returned
<1>6. CASE ReducerStep \/ ReduceNil
  <2>1. UNCHANGED <<run, ret, err, cancelled>> /\ rpc # "exit"
    BY <1>6, Frames DEF ReducerStep, ReduceNil, NextKey, KeysEnd, ReduceOut, ReduceFails, SendReduceError
  <2> QED BY <2>1 DEF Returned
<1> QED BY <1>1, <1>2, <1>3, <1>4, <1>5, <1>6, StepCases DEF RunStep
-----------------------------------------------------------------------------
LEMMA StepKeeps == ASSUME IInv, Step PROVE IInv'
BY TypePreserved, CountedPreserved, OncePreserved, AccountedPreserved, EndedWellPreserved, StagesPreserved,
  SortedPreserved, ReducingPreserved, ReturnedPreserved, EarlyPreserved DEF IInv

LEMMA IInvIsEnough == ASSUME IInv PROVE ReducedRight
BY DEF IInv, Returned, Sorted, Early, KeysOf, ReducedRight, SuccessComplete, CancelStopsReducers

\* The variables of simplemr keep their types; no channel holds more than it can, and
\* no mapper waits to report.
THEOREM TypeCorrect == Spec => []TypeOK
<1>1. Spec => []IInv
  BY InitHolds, NextIsStep, StepKeeps, PTL DEF Spec, Step
<1>2. IInv => TypeOK
  BY DEF IInv
<1> QED BY <1>1, <1>2, PTL

\* A run of simplemr that returns nil has mapped every record and reduced every key, in
\* order and once; and Cancel from Map keeps the reducer from being started.
THEOREM ReducesRight == Spec => []ReducedRight
<1>1. IInv /\ [Next]_vars => IInv'
  BY NextIsStep, StepKeeps DEF Step
<1> QED BY InitHolds, <1>1, IInvIsEnough, PTL DEF Spec
-----------------------------------------------------------------------------
(***************************************************************************)
(* The steps of runp.                                                      *)
(***************************************************************************)
LEMMA RunPInitHolds == ASSUME RunPInit PROVE IInv /\ RunPInv
<1>1. IInv
  BY InitHolds DEF RunPInit
<1>2. RunPTypeOK
  <2>1. printed = <<>>
    BY DEF RunPInit
  <2>2. printed \in Seq(Records \X {"output", "FAILED"} \X {"none", "empty", "piped", "whole"})
    BY <2>1
  <2> QED BY <2>2 DEF RunPInit, RunPTypeOK
<1>3. Handled
  BY DEF RunPInit, Init, Handled
<1>4. Killed
  BY DEF RunPInit, Killed
<1>5. Printed
  <2>1. DOMAIN printed = {} /\ Range(reduced) = {}
    BY DEF RunPInit, Init, Range
  <2> QED BY <2>1 DEF Printed
<1> QED BY <1>1, <1>2, <1>3, <1>4, <1>5 DEF RunPInit, RunPInv

\* A step of simplemr that is not one of a Map, nor of Reduce.
Between ==
  \/ Produce \/ CloseInput \/ RunStep \/ NextKey \/ KeysEnd \/ SendReduceError
  \/ \E m \in Mappers : Receive(m) \/ InputEnds(m)

\* The steps of runp, as its invariant sees them.
LEMMA RunPCases ==
  ASSUME RunPNext
  PROVE  \/ Between /\ UNCHANGED runpVars
         \/ Begin \/ Interrupt \/ Over \/ RunPOver \/ Reduce
         \/ \E r \in Records : Ends(r)
         \/ \E m \in Mappers : NoFile(m) \/ Start(m) \/ Waited(m) \/ Kill(m) \/ Copy(m) \/ MapOut(m)
BY DEF RunPNext, RunPStep, MRStep, Between

LEMMA RunPRefines == ASSUME RunPNext PROVE Step
<1>1. CASE Between
  BY <1>1 DEF Between, Step, MapperStep, ReducerStep
<1>2. CASE Begin \/ Over \/ RunPOver \/ \E r \in Records : Ends(r)
  BY <1>2 DEF Begin, Over, RunPOver, Ends, Step, mrVars
<1>3. CASE Interrupt
  BY <1>3 DEF Interrupt, Step, Cancelled, mrVars
<1>4. CASE Reduce
  BY <1>4 DEF Reduce, ReduceNil, Step, ReducerStep, reducerVars
<1>5. ASSUME NEW m \in Mappers, NoFile(m) \/ Start(m) \/ Waited(m) \/ Kill(m) \/ Copy(m) \/ MapOut(m) PROVE Step
  BY <1>5 DEF NoFile, Start, Waited, Kill, Copy, MapOut, Step, MapperStep, Cancelled, MapperCancels, mrVars
<1> QED BY <1>1, <1>2, <1>3, <1>4, <1>5, RunPCases

\* The steps of runp are steps of simplemr, and keep its invariant.
LEMMA RunPKeeps == ASSUME IInv, RunPNext PROVE IInv'
BY RunPRefines, StepKeeps

\* What the steps leave alone.
LEMMA BetweenFrames ==
  ASSUME IInv, Between
  PROVE  UNCHANGED <<data, reduced>> /\ Passed' >= Passed /\ Passed \in Nat /\ Passed' \in Int
<1> USE DEF IInv
<1>1. UNCHANGED <<data, reduced>>
  BY Frames DEF Between, RunStep, ClientSteps, NextKey, KeysEnd, SendReduceError, Receive, InputEnds, reducerVars
<1>2. in \in Seq(Records) /\ sent \in Nat /\ Len(in) \in Nat /\ Len(in) <= sent
  BY DEF TypeOK, Once
<1>3. \/ in' = in /\ sent' = sent
      \/ in' = Append(in, sent + 1) /\ sent' = sent + 1
      \/ in # <<>> /\ in' = Tail(in) /\ sent' = sent
  BY Frames DEF Between, Produce, CloseInput, ReducerStep, Receive, InputEnds, producerVars
<1>4. Len(in') \in Nat /\ sent' - Len(in') >= sent - Len(in) /\ sent' \in Nat
  BY <1>2, <1>3
<1> QED BY <1>1, <1>2, <1>4 DEF Passed

LEMMA RunPTypePreserved == ASSUME IInv, RunPInv, RunPNext PROVE RunPTypeOK'
<1> USE DEF IInv, RunPInv
<1>1. CASE UNCHANGED runpVars
  BY <1>1 DEF runpVars, RunPTypeOK
<1>2. CASE Begin \/ Interrupt \/ Over \/ RunPOver
  BY <1>2 DEF Begin, Interrupt, Over, RunPOver, RunPTypeOK, runpVars
<1>3. ASSUME NEW r \in Records, Ends(r) PROVE RunPTypeOK'
  BY <1>3 DEF Ends, RunPTypeOK, rest
<1>4. ASSUME NEW m \in Mappers, Start(m) \/ Waited(m) \/ Copy(m) \/ MapOut(m) PROVE RunPTypeOK'
  <2>1. CASE Start(m)
    <3>1. PICK how \in {"running", "unstarted"} : proc' = [proc EXCEPT ![rec[m]] = how]
      BY <2>1 DEF Start
    <3>2. /\ step' = [step EXCEPT ![m] = "wait"] /\ file' = [file EXCEPT ![rec[m]] = "empty"]
          /\ UNCHANGED <<flags, main, begun, outcome, printed>>
      BY <2>1 DEF Start, rest
    <3> QED BY <3>1, <3>2 DEF RunPTypeOK
  <2>2. CASE Waited(m)
    BY <2>2 DEF Waited, RunPTypeOK, rest
  <2>3. CASE Copy(m) \/ MapOut(m)
    BY <2>3 DEF Copy, MapOut, RunPTypeOK, rest
  <2> QED BY <1>4, <2>1, <2>2, <2>3
<1>6. ASSUME NEW m \in Mappers, Kill(m) PROVE RunPTypeOK'
  <2>1. UNCHANGED <<flags, begun, file, printed>> /\ main' \in {main, "panic"}
    BY <1>6 DEF Kill
  <2>2. CASE UNCHANGED <<step, proc, outcome>>
    BY <2>1, <2>2 DEF RunPTypeOK
  <2>3. ASSUME NEW e \in {"nil", "failed"},
               proc' = [proc EXCEPT ![rec[m]] = IF @ = "running" THEN "killed" ELSE @],
               outcome' = [outcome EXCEPT ![rec[m]] = e],
               step' = [step EXCEPT ![m] = "drain"]
        PROVE  RunPTypeOK'
    BY <2>1, <2>3 DEF RunPTypeOK
  <2> QED BY <1>6, <2>2, <2>3 DEF Kill
<1>5. CASE Reduce
  <2>1. key \in KeysOf(data)
    BY <1>5 DEF Reduce, Reducing
  <2>2. ProjectOf(key) \in Records
    BY <2>1 DEF KeysOf, ProjectOf, TypeOK
  <2> DEFINE Line == Records \X {"output", "FAILED"} \X {"none", "empty", "piped", "whole"}
  <2>3. printed' \in Seq(Line)
    <3>1. \A e \in Line : Append(printed, e) \in Seq(Line)
      <4>1. printed \in Seq(Line)
        BY DEF RunPTypeOK
      <4> HIDE DEF Line
      <4> QED BY <4>1
    <3>2. /\ <<ProjectOf(key), "FAILED", "whole">> \in Line
          /\ <<ProjectOf(key), "output", file[ProjectOf(key)]>> \in Line
      BY <2>2 DEF RunPTypeOK
    <3>3. \/ printed' = printed
          \/ printed' = Append(printed, <<ProjectOf(key), "FAILED", "whole">>)
          \/ printed' = Append(printed, <<ProjectOf(key), "output", file[ProjectOf(key)]>>)
      BY <1>5 DEF Reduce
    <3>4. printed \in Seq(Line)
      BY DEF RunPTypeOK
    <3> HIDE DEF Line
    <3> QED BY <3>1, <3>2, <3>3, <3>4
  <2> QED BY <1>5, <2>3 DEF Reduce, RunPTypeOK, rest
<1> QED BY <1>1, <1>2, <1>3, <1>4, <1>5, <1>6, RunPCases DEF NoFile

\* A mapper's record is a record, which no other mapper has and the store has not.
LEMMA ItsRecord ==
  ASSUME IInv, NEW m \in Mappers, mpc[m] = "map"
  PROVE  /\ rec[m] \in Records /\ rec[m] <= Passed /\ rec[m] \notin data /\ Passed \in Nat
         /\ \A n \in Mappers : mpc[n] = "map" /\ rec[n] = rec[m] => n = m
BY DEF IInv, Once, Passed, TypeOK, Records

LEMMA HandledPreserved == ASSUME IInv, RunPInv, RunPNext PROVE Handled'
<1> USE DEF IInv, RunPInv
<1>1. CASE Between /\ UNCHANGED runpVars
  <2>1. CASE \E m \in Mappers : Receive(m)
    <3>1. PICK m \in Mappers : Receive(m)
      BY <2>1
    <3>2. rec'[m] = Passed + 1 /\ rec'[m] \in Records
      BY <3>1 DEF Receive, TypeOK, Once, Passed
    <3>3. proc[rec'[m]] = "none" /\ step[m] = "start"
      BY <1>1, <3>1, <3>2, BetweenFrames DEF Receive, Handled
    <3>4. \A n \in Mappers : n # m => mpc'[n] = mpc[n] /\ rec'[n] = rec[n]
      BY <3>1 DEF Receive, TypeOK
    <3>5. UNCHANGED <<step, proc, file, outcome, data>> /\ Passed' >= Passed /\ Passed \in Nat /\ Passed' \in Int
      BY <1>1, BetweenFrames DEF runpVars
    <3>6. \A q \in Records : Told(q) => Told(q)'
      BY <3>5 DEF Told
    <3>7. \A n \in Mappers : mpc'[n] = "map" /\ n # m =>
             /\ step'[n] = "start" => proc'[rec'[n]] = "none"
             /\ step'[n] = "wait" => proc'[rec'[n]] # "none"
             /\ step'[n] = "drain" => (Told(rec[n]))'
      BY <3>4, <3>5 DEF Handled, Told
    <3>8. \A q \in data' : (Told(q))' /\ (outcome'[q] = "nil" => proc'[q] = "killed" \/ file'[q] = "whole")
      BY <3>5 DEF Handled, Told
    <3>9. \A q \in Records : q > Passed' => proc'[q] = "none"
      BY <3>5 DEF Handled, Records
    <3>10. \A n \in Mappers : mpc'[n] # "map" => step'[n] = "start"
      BY <3>3, <3>4, <3>5 DEF Handled
    <3> QED BY <3>3, <3>5, <3>7, <3>8, <3>9, <3>10 DEF Handled
  <2>2. CASE ~\E m \in Mappers : Receive(m)
    <3>1. rec' = rec /\ \A m \in Mappers : mpc'[m] = mpc[m] \/ (mpc[m] # "map" /\ mpc'[m] = "exit")
      BY <1>1, <2>2, Frames DEF Between, ClientSteps, InputEnds, NextKey, KeysEnd, SendReduceError, mapperVars, TypeOK
    <3> QED BY <1>1, <3>1, BetweenFrames DEF Handled, Told, runpVars, Records
  <2> QED BY <2>1, <2>2
<1>2. CASE Begin \/ Interrupt \/ Over \/ RunPOver
  <2>1. UNCHANGED <<sent, in, mpc, rec, data, step, proc, file, outcome>>
    BY <1>2 DEF Begin, Interrupt, Over, RunPOver, Cancel, mrVars, vars, runpVars, producerVars, mapperVars
  <2> QED BY <2>1 DEF Handled, Told, Passed
<1>3. ASSUME NEW r \in Records, Ends(r) PROVE Handled'
  <2>1. UNCHANGED <<sent, in, mpc, rec, data, step, outcome>> /\ proc[r] = "running"
    BY <1>3 DEF Ends, mrVars, vars, rest
  <2>2. /\ proc'[r] \in {"done", "failed"} /\ file'[r] \in {"piped", "whole"}
        /\ \A q \in Records : q # r => proc'[q] = proc[q] /\ file'[q] = file[q]
    BY <1>3 DEF Ends, RunPTypeOK
  <2>3. Passed' = Passed
    BY <2>1 DEF Passed
  <2>4. \A q \in Records : Told(q) => Told(q)'
    BY <2>1, <2>2 DEF Told
  <2>5. \A m \in Mappers : mpc[m] = "map" => rec[m] \in Records
    BY ItsRecord
  <2>6. \A q \in data : q \in Records
    BY DEF TypeOK
  <2> QED BY <2>1, <2>2, <2>3, <2>4, <2>5, <2>6 DEF Handled, Told
<1>4. ASSUME NEW m \in Mappers, NoFile(m) PROVE Handled'
  <2>1. UNCHANGED <<sent, in, rec, data, step, proc, file, outcome>> /\ mpc' = [mpc EXCEPT ![m] = "exit"] /\ step[m] = "start"
    BY <1>4 DEF NoFile, MapFails, runpVars, producerVars
  <2>2. Passed' = Passed
    BY <2>1 DEF Passed
  <2> QED BY <2>1, <2>2 DEF Handled, Told, TypeOK
<1>5. ASSUME NEW m \in Mappers, mpc[m] = "map", UNCHANGED <<sent, in, mpc, rec, data>>,
             \A n \in Mappers \ {m} : step'[n] = step[n],
             \A q \in Records \ {rec[m]} : proc'[q] = proc[q] /\ file'[q] = file[q] /\ outcome'[q] = outcome[q],
             proc'[rec[m]] \in {"done", "failed"} => file'[rec[m]] \in {"piped", "whole"},
             step'[m] = "start" => proc'[rec[m]] = "none",
             step'[m] = "wait" => proc'[rec[m]] # "none",
             step'[m] = "drain" => Told(rec[m])'
      PROVE  Handled'
  <2>1. rec[m] \in Records /\ rec[m] <= Passed /\ rec[m] \notin data /\ Passed' = Passed /\ Passed \in Nat
    BY <1>5, ItsRecord DEF Passed
  <2>2. \A n \in Mappers : mpc[n] = "map" /\ n # m => rec[n] \in Records \ {rec[m]}
    BY <1>5, ItsRecord
  <2>3. \A q \in Records \ {rec[m]} : Told(q) => Told(q)'
    BY <1>5 DEF Told
  <2>4. \A q \in data : q \in Records \ {rec[m]}
    BY <2>1 DEF TypeOK
  <2>5. \A q \in Records : proc'[q] \in {"done", "failed"} => file'[q] \in {"piped", "whole"}
    BY <1>5 DEF Handled
  <2>6. \A q \in Records : q > Passed' => proc'[q] = "none"
    BY <1>5, <2>1 DEF Handled, Records
  <2>7. \A n \in Mappers : mpc'[n] # "map" => step'[n] = "start"
    BY <1>5 DEF Handled
  <2>8. \A n \in Mappers : mpc'[n] = "map" => (step'[n] = "start" => proc'[rec'[n]] = "none")
         /\ (step'[n] = "wait" => proc'[rec'[n]] # "none") /\ (step'[n] = "drain" => Told(rec[n])')
    BY <1>5, <2>2, <2>3 DEF Handled
  <2>9. \A q \in data' : (Told(q))' /\ (outcome'[q] = "nil" => proc'[q] = "killed" \/ file'[q] = "whole")
    BY <1>5, <2>3, <2>4 DEF Handled
  <2> QED BY <1>5, <2>5, <2>6, <2>7, <2>8, <2>9 DEF Handled, Told
<1>6. ASSUME NEW m \in Mappers, Start(m) PROVE Handled'
  <2>1. rec[m] \in Records
    BY <1>6, ItsRecord DEF Start
  <2>2. mpc[m] = "map" /\ step' = [step EXCEPT ![m] = "wait"] /\ outcome' = outcome /\ UNCHANGED <<sent, in, mpc, rec, data>>
    BY <1>6 DEF Start, mrVars, vars
  <2>3. file' = [file EXCEPT ![rec[m]] = "empty"] /\ proc'[rec[m]] \in {"running", "unstarted"}
        /\ \A q \in Records \ {rec[m]} : proc'[q] = proc[q]
    BY <1>6, <2>1 DEF Start, RunPTypeOK
  <2> QED BY <1>5, <2>1, <2>2, <2>3 DEF RunPTypeOK
<1>7. ASSUME NEW m \in Mappers, Waited(m) PROVE Handled'
  <2>1. rec[m] \in Records
    BY <1>7, ItsRecord DEF Waited
  <2>2. mpc[m] = "map" /\ step' = [step EXCEPT ![m] = "drain"] /\ UNCHANGED <<proc, file, sent, in, mpc, rec, data>>
    BY <1>7 DEF Waited, Cancel, mrVars, vars, producerVars, mapperVars
  <2>3. /\ outcome' = [outcome EXCEPT ![rec[m]] = IF proc[rec[m]] = "done" THEN "nil" ELSE "failed"]
    BY <1>7 DEF Waited
  <2>5. step[m] = "wait"
    BY <1>7 DEF Waited
  <2>4. Told(rec[m])'
    BY <2>1, <2>2, <2>3 DEF Told, RunPTypeOK
  <2> QED BY <1>5, <2>1, <2>2, <2>3, <2>4 DEF RunPTypeOK, Handled
<1>8. ASSUME NEW m \in Mappers, Kill(m) PROVE Handled'
  <2>1. rec[m] \in Records /\ mpc[m] = "map" /\ step[m] = "wait"
    BY <1>8, ItsRecord DEF Kill
  <2>2. UNCHANGED <<file, sent, in, mpc, rec, data>>
    BY <1>8 DEF Kill, mrVars, vars
  <2>3. CASE UNCHANGED <<step, proc, outcome>>
    BY <2>2, <2>3 DEF Handled, Told, Passed
  <2>4. ASSUME proc[rec[m]] # "unstarted",
               NEW e \in {"nil", "failed"}, proc[rec[m]] = "running" => e = "nil",
               proc' = [proc EXCEPT ![rec[m]] = IF @ = "running" THEN "killed" ELSE @],
               outcome' = [outcome EXCEPT ![rec[m]] = e],
               step' = [step EXCEPT ![m] = "drain"]
        PROVE  Handled'
    <3>1. Told(rec[m])'
      BY <2>1, <2>2, <2>4 DEF Told, RunPTypeOK, Handled
    <3> QED BY <1>5, <2>1, <2>2, <2>4, <3>1 DEF RunPTypeOK, Handled
  <2> QED BY <1>8, <2>3, <2>4 DEF Kill
<1>9. ASSUME NEW m \in Mappers, Copy(m) PROVE Handled'
  <2>1. rec[m] \in Records
    BY <1>9, ItsRecord DEF Copy
  <2>2. mpc[m] = "map" /\ file' = [file EXCEPT ![rec[m]] = "whole"] /\ UNCHANGED <<step, proc, outcome, sent, in, mpc, rec, data>>
    BY <1>9 DEF Copy, mrVars, vars
  <2>3. step'[m] = "drain" => Told(rec[m])'
    BY <2>2 DEF Told, Handled
  <2> QED BY <1>5, <2>1, <2>2, <2>3 DEF RunPTypeOK, Handled
<1>10. ASSUME NEW m \in Mappers, MapOut(m) PROVE Handled'
  <2>1. /\ mpc[m] = "map" /\ mpc' = [mpc EXCEPT ![m] = "recv"] /\ step' = [step EXCEPT ![m] = "start"]
        /\ step[m] = "drain" /\ file[rec[m]] # "piped" /\ data' = data \cup {rec[m]}
        /\ UNCHANGED <<sent, in, rec, proc, file, outcome>>
    BY <1>10 DEF MapOut, MapOk, producerVars, rest
  <2>2. Told(rec[m]) /\ rec[m] \in Records
    BY <2>1, ItsRecord DEF Handled
  <2>3. outcome[rec[m]] = "nil" => proc[rec[m]] = "killed" \/ file[rec[m]] = "whole"
    BY <2>1, <2>2 DEF Handled, Told
  <2>4. Passed' = Passed
    BY <2>1 DEF Passed
  <2>5. \A n \in Mappers \ {m} : mpc'[n] = mpc[n] /\ step'[n] = step[n]
    BY <2>1 DEF TypeOK, RunPTypeOK
  <2>6. mpc'[m] = "recv" /\ step'[m] = "start"
    BY <2>1 DEF TypeOK, RunPTypeOK
  <2> QED BY <2>1, <2>2, <2>3, <2>4, <2>5, <2>6 DEF Handled, Told
<1>11. CASE Reduce
  <2>1. UNCHANGED <<sent, in, mpc, rec, data, step, proc, file, outcome>>
    BY <1>11 DEF Reduce, ReduceFails, producerVars, mapperVars, rest
  <2> QED BY <2>1 DEF Handled, Told, Passed
<1> QED BY <1>1, <1>2, <1>3, <1>4, <1>6, <1>7, <1>8, <1>9, <1>10, <1>11, RunPCases

LEMMA KilledPreserved == ASSUME IInv, RunPInv, RunPNext PROVE Killed'
<1> USE DEF IInv, RunPInv
<1> DEFINE Cut == cancelled /\ rpc = "none" /\ run \notin {"go", "reduce"}
<1>1. ASSUME \A r \in Records : proc'[r] = "killed" => proc[r] = "killed", Cut => Cut' PROVE Killed'
  BY <1>1 DEF Killed
<1>2. CASE Between /\ UNCHANGED runpVars
  <2>1. cancelled => cancelled'
    BY <1>2, Frames DEF Between, ClientSteps, Produce, CloseInput, ReducerStep, MapperStep
  <2>2. Cut => rpc' = "none"
    BY <1>2, Frames DEF Between, ClientSteps, RunStep, MapperResult, MappersCancelled, MappersTimeOut, CheckCancelled,
      StartReducer, ReducerResult, ReducerTimesOut, CloseOutput, NextKey, KeysEnd, SendReduceError, MapperStep, reducerVars
  <2>3. Cut => run' \notin {"go", "reduce"}
    BY <1>2, Frames DEF Between, ClientSteps, RunStep, MapperResult, MappersCancelled, MappersTimeOut, CheckCancelled,
      StartReducer, ReducerResult, ReducerTimesOut, CloseOutput, Fail, AfterReduce, ReducerStep, MapperStep
  <2> QED BY <1>1, <1>2, <2>1, <2>2, <2>3 DEF runpVars
<1>3. CASE Begin \/ Interrupt \/ Over \/ RunPOver
  <2>1. UNCHANGED <<proc, rpc, run>> /\ (cancelled => cancelled')
    BY <1>3 DEF Begin, Interrupt, Over, RunPOver, Cancel, mrVars, vars, runpVars, reducerVars
  <2> QED BY <1>1, <2>1
<1>4. ASSUME NEW r \in Records, Ends(r) PROVE Killed'
  <2>1. UNCHANGED <<cancelled, rpc, run>>
    BY <1>4 DEF Ends, mrVars, vars
  <2>2. \A q \in Records : proc'[q] = "killed" => proc[q] = "killed"
    BY <1>4 DEF Ends, RunPTypeOK
  <2> QED BY <1>1, <2>1, <2>2
<1>5. ASSUME NEW m \in Mappers, Kill(m) PROVE Killed'
  <2>1. Cut
    BY <1>5, MappersAtWork DEF Kill
  <2>2. UNCHANGED <<cancelled, rpc, run>>
    BY <1>5 DEF Kill, mrVars, vars
  <2> QED BY <2>1, <2>2 DEF Killed
<1>6. ASSUME NEW m \in Mappers, NoFile(m) \/ Start(m) \/ Waited(m) \/ Copy(m) \/ MapOut(m) PROVE Killed'
  <2>1. UNCHANGED <<rpc, run>> /\ (cancelled => cancelled')
    BY <1>6 DEF NoFile, Start, Waited, Copy, MapOut, MapFails, MapOk, Cancel, mrVars, vars, reducerVars
  <2>2. \A q \in Records : proc'[q] = "killed" => proc[q] = "killed"
    BY <1>6 DEF NoFile, Start, Waited, Copy, MapOut, RunPTypeOK, runpVars, rest
  <2> QED BY <1>1, <2>1, <2>2
<1>7. CASE Reduce
  <2>1. rpc # "none" /\ UNCHANGED proc
    BY <1>7 DEF Reduce
  <2> QED BY <2>1 DEF Killed
<1> QED BY <1>2, <1>3, <1>4, <1>5, <1>6, <1>7, RunPCases

\* What is printed stays as it was told: the records of reduced keys are in the store.
LEMMA ReducedInStore ==
  ASSUME IInv, RunPInv, ProjectKeys, NEW r \in Records, Key[r] \in Range(reduced) \/ (rpc = "reduce" /\ key = Key[r])
  PROVE  /\ r \in data
         /\ outcome[r] \in {"nil", "failed"}
         /\ proc[r] # "killed" /\ (outcome[r] = "nil" => file[r] = "whole")
<1> USE DEF IInv, RunPInv
<1>1. PICK q \in data : Key[q] = Key[r]
  BY DEF Reducing, KeysOf
<1>2. q = r
  BY <1>1 DEF ProjectKeys, TypeOK
<1>3. rpc # "none"
  BY DEF Stages, Range
<1>4. proc[r] # "killed"
  BY <1>3 DEF Killed
<1>5. outcome[r] \in {"nil", "failed"} /\ (outcome[r] = "nil" => file[r] = "whole")
  BY <1>1, <1>2, <1>4 DEF Handled, Told, RunPTypeOK
<1> QED BY <1>1, <1>2, <1>4, <1>5

\* What a command of the store was told to be does not change.
LEMMA ToldStays == ASSUME IInv, RunPInv, RunPNext, NEW r \in data PROVE outcome'[r] = outcome[r]
<1>1. \A m \in Mappers : mpc[m] = "map" => rec[m] # r
  BY ItsRecord
<1>2. r \in Records
  BY DEF IInv, TypeOK
<1>3. ASSUME NEW m \in Mappers, Waited(m) \/ Kill(m) PROVE outcome'[r] = outcome[r]
  BY <1>1, <1>2, <1>3 DEF Waited, Kill, RunPInv, RunPTypeOK
<1>4. (\E m \in Mappers : Waited(m) \/ Kill(m)) \/ outcome' = outcome
  BY RunPCases DEF Begin, Interrupt, Over, RunPOver, Ends, NoFile, Start, Copy, MapOut, Reduce, runpVars, rest
<1> QED BY <1>3, <1>4

LEMMA PrintedPreserved == ASSUME IInv, RunPInv, ProjectKeys, RunPNext PROVE Printed'
<1> USE DEF IInv, RunPInv
<1>1. \A i \in DOMAIN printed : printed[i][1] \in Records
  BY DEF RunPTypeOK
<1>2. \A r \in Records : Key[r] \in Range(reduced) => outcome'[r] = outcome[r]
  BY ReducedInStore, ToldStays
<1>3. CASE UNCHANGED <<reduced, printed, flags>>
  <2>1. Range(reduced') = Range(reduced)
    BY <1>3 DEF Range
  <2> QED BY <1>1, <1>2, <1>3, <2>1 DEF Printed
<1>4. CASE Reduce /\ ~UNCHANGED <<reduced, printed>>
  <2>1. rpc = "reduce" /\ reduced' = Append(reduced, key) /\ UNCHANGED <<flags, outcome>>
    BY <1>4 DEF Reduce, ReduceFails, reducerVars, rest
  <2>2. key \in KeysOf(data) /\ key \in Keys
    BY <2>1 DEF Reducing, KeysOf, TypeOK, Keys
  <2> DEFINE p == ProjectOf(key)
  <2>3. p \in Records /\ Key[p] = key
    BY <2>2 DEF KeysOf, ProjectOf, TypeOK
  <2>4. outcome[p] \in {"nil", "failed"} /\ (outcome[p] = "nil" => file[p] = "whole")
    BY <2>1, <2>3, ReducedInStore
  <2>5. Range(reduced') = Range(reduced) \cup {key}
    BY <2>1, <2>2, ReducedOne
  <2>6. \A r \in Records : Key[r] = key => r = p
    BY <2>3 DEF ProjectKeys
  <2>7. \A i \in DOMAIN reduced : reduced[i] < key
    BY <2>1 DEF Sorted
  <2>8. \A k \in Range(reduced) : k < key
    BY <2>7 DEF Range
  <2> HIDE DEF p
  <2>9. CASE printed' = printed /\ outcome[p] # "failed" /\ ~flags.collate
    BY <1>1, <2>1, <2>5, <2>6, <2>9 DEF Printed
  <2>10. ASSUME NEW e, e[1] = p, e[3] = "whole", printed' = Append(printed, e), flags.collate \/ outcome[p] = "failed"
         PROVE  Printed'
    <3>1. /\ DOMAIN printed = 1..Len(printed) /\ Len(printed) \in Nat /\ DOMAIN printed' = 1..(Len(printed) + 1)
          /\ printed'[Len(printed) + 1] = e
          /\ \A i \in 1..Len(printed) : printed'[i] = printed[i]
      BY <2>10 DEF RunPTypeOK
    <3>2. \A i \in DOMAIN printed' : i \in DOMAIN printed \/ i = Len(printed) + 1
      BY <3>1
    <3>3. \A i \in DOMAIN printed' :
            /\ Key[printed'[i][1]] \in Range(reduced') /\ printed'[i][3] = "whole"
            /\ flags'.collate \/ outcome'[printed'[i][1]] = "failed"
      BY <2>1, <2>3, <2>5, <2>10, <3>1, <3>2 DEF Printed
    <3>4. \A i, j \in DOMAIN printed' : i < j => Key[printed'[i][1]] < Key[printed'[j][1]]
      <4> SUFFICES ASSUME NEW i \in DOMAIN printed', NEW j \in DOMAIN printed', i < j
                   PROVE  Key[printed'[i][1]] < Key[printed'[j][1]]
        OBVIOUS
      <4>1. i \in DOMAIN printed /\ printed'[i] = printed[i]
        BY <3>1
      <4>2. CASE j \in DOMAIN printed
        BY <3>1, <4>1, <4>2 DEF Printed
      <4>3. CASE j = Len(printed) + 1
        BY <2>3, <2>8, <2>10, <3>1, <4>1, <4>3 DEF Printed
      <4> QED BY <3>2, <4>2, <4>3
    <3>5. \A r \in Records : Key[r] \in Range(reduced') /\ (flags'.collate \/ outcome'[r] = "failed") =>
            \E i \in DOMAIN printed' : printed'[i][1] = r
      <4> SUFFICES ASSUME NEW r \in Records, Key[r] \in Range(reduced'), flags.collate \/ outcome[r] = "failed"
                   PROVE  \E i \in DOMAIN printed' : printed'[i][1] = r
        BY <2>1
      <4>1. CASE r = p
        BY <2>10, <3>1, <4>1
      <4>2. CASE r # p
        <5>1. PICK i \in DOMAIN printed : printed[i][1] = r
          BY <2>5, <2>6, <4>2 DEF Printed
        <5> QED BY <3>1, <5>1
      <4> QED BY <4>1, <4>2
    <3> QED BY <3>3, <3>4, <3>5 DEF Printed
  <2>11. \/ printed' = printed /\ outcome[p] # "failed" /\ ~flags.collate
         \/ outcome[p] = "failed" /\ printed' = Append(printed, <<p, "FAILED", "whole">>)
         \/ outcome[p] # "failed" /\ flags.collate /\ printed' = Append(printed, <<p, "output", file[p]>>)
    BY <1>4 DEF Reduce, ReduceFails, reducerVars, p
  <2> QED BY <2>4, <2>9, <2>10, <2>11
<1>5. Reduce \/ UNCHANGED <<reduced, printed, flags>>
  <2>1. Between => UNCHANGED reduced
    BY BetweenFrames
  <2> QED BY <2>1, RunPCases DEF Begin, Interrupt, Over, RunPOver, Ends, NoFile, Start, Copy, MapOut, Waited, Kill, MapFails, MapOk,
      Cancel, mrVars, vars, runpVars, rest, reducerVars
<1>6. Reduce => UNCHANGED flags
  BY DEF Reduce, rest
<1> QED BY <1>3, <1>4, <1>5, <1>6

LEMMA OverPreserved == ASSUME IInv, RunPNext, main = "over" => outClosed PROVE (main = "over" => outClosed)'
<1>1. outClosed => outClosed'
  BY RunPRefines, StepCases, Frames, StagesPreserved DEF IInv, Stages, RunStep, MapperResult, MappersCancelled, MappersTimeOut, CheckCancelled,
    StartReducer, ReducerResult, ReducerTimesOut, CloseOutput, vars, outVars
<1>2. main' = "over" => main = "over" \/ outClosed
  BY RunPCases DEF Begin, Interrupt, Over, RunPOver, Ends, NoFile, Start, Copy, MapOut, Waited, Kill, Reduce, runpVars, rest
<1> QED BY <1>1, <1>2
-----------------------------------------------------------------------------
LEMMA RunPInvIsEnough == ASSUME IInv, RunPInv, ProjectKeys PROVE OutputTold
<1> USE DEF IInv, RunPInv
<1>1. \A i \in DOMAIN printed : printed[i][1] \in Records /\ DOMAIN outcome = Records /\ DOMAIN printed = 1..Len(printed) /\ Len(printed) \in Nat
  BY DEF RunPTypeOK
<1>2. \A i \in DOMAIN printed :
        /\ printed[i][3] = "whole" /\ proc[printed[i][1]] # "killed"
        /\ i > 1 => Key[printed[i - 1][1]] < Key[printed[i][1]]
  <2> SUFFICES ASSUME NEW i \in DOMAIN printed
               PROVE  /\ printed[i][3] = "whole" /\ proc[printed[i][1]] # "killed"
                      /\ i > 1 => Key[printed[i - 1][1]] < Key[printed[i][1]]
    OBVIOUS
  <2>1. printed[i][3] = "whole" /\ Key[printed[i][1]] \in Range(reduced)
    BY DEF Printed
  <2>2. proc[printed[i][1]] # "killed"
    BY <1>1, <2>1, ReducedInStore
  <2>3. i > 1 => i - 1 \in DOMAIN printed /\ i - 1 < i
    BY <1>1
  <2> QED BY <2>1, <2>2, <2>3 DEF Printed
<1>3. ASSUME main = "over", err = "nil", ~cancelled
      PROVE  {r \in DOMAIN outcome : flags.collate \/ outcome[r] = "failed"} = {printed[i][1] : i \in DOMAIN printed}
  <2>1. ret = "nil"
    BY <1>3 DEF Stages, Returned
  <2>2. Range(reduced) = KeysOf(Records)
    BY <2>1 DEF Returned, EndedWell, Records
  <2>3. \A r \in Records : Key[r] \in Range(reduced)
    BY <2>2 DEF KeysOf
  <2>4. DOMAIN outcome = Records
    BY DEF RunPTypeOK
  <2> QED BY <1>1, <2>3, <2>4 DEF Printed
<1> QED BY <1>2, <1>3 DEF OutputTold

\* What jiri runp prints is whole, in the order of the keys and not of a command that was
\* killed; and of every project if there was no error and no Cancel.
THEOREM RunPTellsAll == ASSUME ProjectKeys PROVE RunPSpec => []OutputTold
<1> DEFINE Inv == IInv /\ RunPInv
<1>1. RunPInit => Inv
  BY RunPInitHolds
<1>2. Inv /\ [RunPNext]_<<mrVars, runpVars>> => Inv'
  <2> SUFFICES ASSUME Inv, [RunPNext]_<<mrVars, runpVars>> PROVE Inv'
    OBVIOUS
  <2>1. CASE RunPNext
    BY <2>1, RunPKeeps, RunPTypePreserved, HandledPreserved, KilledPreserved, PrintedPreserved, OverPreserved DEF RunPInv
  <2>2. CASE UNCHANGED <<mrVars, runpVars>>
    <3>1. IInv'
      BY <2>2, StepKeeps DEF Step, mrVars
    <3>2. UNCHANGED <<runpVars, reduced, cancelled, rpc, run, data, mpc, rec, sent, in, outClosed>>
      BY <2>2 DEF mrVars, vars
    <3>3. RunPTypeOK' /\ Handled' /\ Killed'
      BY <3>2 DEF RunPInv, RunPTypeOK, Handled, Told, Passed, Killed, runpVars
    <3>4. Printed'
      BY <3>2 DEF RunPInv, Printed, Range, runpVars
    <3> QED BY <3>1, <3>2, <3>3, <3>4 DEF RunPInv, runpVars
  <2> QED BY <2>1, <2>2
<1>3. Inv => OutputTold
  BY RunPInvIsEnough
<1> QED BY <1>1, <1>2, <1>3, PTL DEF RunPSpec
===============================================================================
