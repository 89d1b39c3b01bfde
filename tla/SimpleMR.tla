------------------------------- MODULE SimpleMR -------------------------------
(***************************************************************************)
(* The map-reduce of simplemr/mr.go: Run starts NumMappers mapper          *)
(* goroutines over the input channel, collects one result from each, and   *)
(* then starts one reducer goroutine, while Cancel and a timer race with   *)
(* both.  Run closes the output channel as it returns.                     *)
(*                                                                         *)
(* A record is its number; Key gives its key.  The Mapper and the Reducer  *)
(* are the client's: the constants say what they may do.                   *)
(***************************************************************************)
EXTENDS Naturals, FiniteSets, Sequences, Functions

CONSTANTS
  Recs,        \* the number of input records
  Key,         \* Key[r]: the key of record r, a number
  InCap,       \* capacity of the input channel
  OutCap,      \* capacity of the output channel
  Mappers,     \* the mapper goroutines, NumMappers of them
  MapErrs,     \* records for which Map may return an error
  ReduceErrs,  \* keys for which Reduce may return an error
  Cancellers,  \* who may call Cancel: "mapper", "reducer", "external"
  HasTimeout   \* is Timeout > 0?

Records == 1..Recs
Keys == {Key[r] : r \in Records}

ASSUME SimpleMRAssumption ==
  /\ Recs \in Nat
  /\ Key \in [1..Recs -> Nat]
  /\ InCap \in Nat \ {0} /\ OutCap \in Nat \ {0}
  /\ IsFiniteSet(Mappers) /\ Mappers # {}
  /\ MapErrs \subseteq Records /\ ReduceErrs \subseteq Keys
  /\ Cancellers \subseteq {"mapper", "reducer", "external"}
  /\ HasTimeout \in BOOLEAN

VARIABLES
  sent,       \* records the producer has put on the input channel
  in,         \* contents of the input channel
  inClosed,   \* has the producer closed it?
  run,        \* where Run is
  timer,      \* the channel of time.After
  mpc, rec,   \* each mapper: where it is, the record it maps
  mch,        \* contents of the mappers' result channel
  ended,      \* mappers that reported nil
  cancelled,  \* has mr.cancel been closed?
  data,       \* records whose values are in the store
  rpc, key,   \* the reducer: where it is, the key it reduces
  keys,       \* keys it has not come to
  rch,        \* contents of the reducer's result channel
  rchClosed,
  out,        \* contents of the output channel
  outClosed,
  err,        \* mr.err
  ret,        \* what Run returns
  reduced,    \* history: the keys for which Reduce has returned nil
  early       \* history: did Map or Reduce call Cancel before the reducer was started?

producerVars == <<sent, in, inClosed>>
mapperVars == <<mpc, rec>>
reducerVars == <<rpc, key, keys, reduced>>
outVars == <<out, outClosed>>
vars == <<sent, in, inClosed, run, timer, mpc, rec, mch, ended, cancelled, data,
          rpc, key, keys, rch, rchClosed, out, outClosed, err, ret, reduced, early>>

Errors == {"map", "reduce", "cancelled", "timeout"}
-----------------------------------------------------------------------------
Init ==
  /\ sent = 0 /\ in = <<>> /\ inClosed = FALSE
  /\ run = "map"
  /\ timer = IF HasTimeout THEN "armed" ELSE "none"
  /\ mpc = [m \in Mappers |-> "recv"]
  /\ rec = [m \in Mappers |-> 0]
  /\ mch = <<>> /\ ended = 0
  /\ cancelled = FALSE
  /\ data = {}
  /\ rpc = "none" /\ key = 0 /\ keys = {} /\ reduced = <<>>
  /\ rch = <<>> /\ rchClosed = FALSE
  /\ out = <<>> /\ outClosed = FALSE
  /\ err = "nil" /\ ret = "none"
  /\ early = FALSE

(***************************************************************************)
(* The client: the producer of the input, the consumer of the output, and  *)
(* whoever else may cancel.                                                *)
(***************************************************************************)
Produce ==
  /\ sent < Recs
  /\ Len(in) < InCap
  /\ sent' = sent + 1
  /\ in' = Append(in, sent + 1)
  /\ UNCHANGED <<inClosed, run, timer, mapperVars, mch, ended, cancelled, data,
                 reducerVars, rch, rchClosed, outVars, err, ret, early>>

CloseInput ==
  /\ sent = Recs
  /\ ~inClosed
  /\ inClosed' = TRUE
  /\ UNCHANGED <<sent, in, run, timer, mapperVars, mch, ended, cancelled, data,
                 reducerVars, rch, rchClosed, outVars, err, ret, early>>

Consume ==
  /\ out # <<>>
  /\ out' = Tail(out)
  /\ UNCHANGED <<producerVars, run, timer, mapperVars, mch, ended, cancelled, data,
                 reducerVars, rch, rchClosed, outClosed, err, ret, early>>

TimerFires ==
  /\ timer = "armed"
  /\ timer' = "fired"
  /\ UNCHANGED <<producerVars, run, mapperVars, mch, ended, cancelled, data,
                 reducerVars, rch, rchClosed, outVars, err, ret, early>>

\* Cancel closes mr.cancel, once.
Cancel(who) ==
  /\ who \in Cancellers
  /\ ~cancelled
  /\ cancelled' = TRUE
  /\ early' = (rpc = "none" /\ who # "external")
  /\ UNCHANGED <<producerVars, run, timer, mapperVars, mch, ended, data,
                 reducerVars, rch, rchClosed, outVars, err, ret>>
-----------------------------------------------------------------------------
(***************************************************************************)
(* runMapper.                                                              *)
(***************************************************************************)
Receive(m) ==
  /\ mpc[m] = "recv"
  /\ in # <<>>
  /\ rec' = [rec EXCEPT ![m] = Head(in)]
  /\ in' = Tail(in)
  /\ mpc' = [mpc EXCEPT ![m] = "map"]
  /\ UNCHANGED <<sent, inClosed, run, timer, mch, ended, cancelled, data,
                 reducerVars, rch, rchClosed, outVars, err, ret, early>>

\* Mutant: the mapper stops at an empty input that is still open.
InputEndsEmpty(m) ==
  /\ mpc[m] = "recv"
  /\ in = <<>>
  /\ mch' = Append(mch, "nil")
  /\ mpc' = [mpc EXCEPT ![m] = "exit"]
  /\ UNCHANGED <<producerVars, run, timer, rec, ended, cancelled, data,
                 reducerVars, rch, rchClosed, outVars, err, ret, early>>

\* The input is closed and empty: nil is reported.
InputEnds(m) ==
  /\ mpc[m] = "recv"
  /\ in = <<>>
  /\ inClosed
  /\ mch' = Append(mch, "nil")
  /\ mpc' = [mpc EXCEPT ![m] = "exit"]
  /\ UNCHANGED <<producerVars, run, timer, rec, ended, cancelled, data,
                 reducerVars, rch, rchClosed, outVars, err, ret, early>>

\* Map returns, having called MapOut.
MapOk(m) ==
  /\ mpc[m] = "map"
  /\ data' = data \cup {rec[m]}
  /\ mpc' = [mpc EXCEPT ![m] = "recv"]
  /\ UNCHANGED <<producerVars, run, timer, rec, mch, ended, cancelled,
                 reducerVars, rch, rchClosed, outVars, err, ret, early>>

MapFails(m) ==
  /\ mpc[m] = "map"
  /\ rec[m] \in MapErrs
  /\ mch' = Append(mch, "map")
  /\ mpc' = [mpc EXCEPT ![m] = "exit"]
  /\ UNCHANGED <<producerVars, run, timer, rec, ended, cancelled, data,
                 reducerVars, rch, rchClosed, outVars, err, ret, early>>

MapperCancels(m) == mpc[m] = "map" /\ Cancel("mapper")
-----------------------------------------------------------------------------
(***************************************************************************)
(* Run.                                                                    *)
(***************************************************************************)
\* Run returns e and leaves e in mr.err; the deferred close is still to come.
Fail(e) ==
  /\ err' = e
  /\ ret' = e
  /\ run' = "close"

\* runMappers receives the result of a mapper.
MapperResult ==
  /\ run = "map"
  /\ mch # <<>>
  /\ mch' = Tail(mch)
  /\ \/ /\ Head(mch) = "map"
        /\ Fail("map")
        /\ UNCHANGED ended
     \/ /\ Head(mch) = "nil"
        /\ ended' = ended + 1
        /\ run' = IF ended + 1 = Cardinality(Mappers) THEN "check" ELSE "map"
        /\ UNCHANGED <<err, ret>>
  /\ UNCHANGED <<producerVars, timer, mapperVars, cancelled, data,
                 reducerVars, rch, rchClosed, outVars, early>>

MappersCancelled ==
  /\ run = "map"
  /\ cancelled
  /\ Fail("cancelled")
  /\ UNCHANGED <<producerVars, timer, mapperVars, mch, ended, cancelled, data,
                 reducerVars, rch, rchClosed, outVars, early>>

\* Mutant: the timeout is noticed and the wait goes on.
MappersTimeOutIgnored ==
  /\ run = "map"
  /\ timer = "fired"
  /\ timer' = "taken"
  /\ UNCHANGED <<producerVars, run, mapperVars, mch, ended, cancelled, data,
                 reducerVars, rch, rchClosed, outVars, err, ret, early>>

MappersTimeOut ==
  /\ run = "map"
  /\ timer = "fired"
  /\ timer' = "taken"
  /\ Fail("timeout")
  /\ UNCHANGED <<producerVars, mapperVars, mch, ended, cancelled, data,
                 reducerVars, rch, rchClosed, outVars, early>>

\* The look at IsCancelled between the mappers and the reducer: Run returns
\* ErrMRCancelled, and mr.err stays as it is.
CheckCancelled ==
  /\ run = "check"
  /\ \/ /\ cancelled
        /\ ret' = "cancelled"
        /\ run' = "close"
     \/ /\ ~cancelled
        /\ run' = "go"
        /\ UNCHANGED ret
  /\ UNCHANGED <<producerVars, timer, mapperVars, mch, ended, cancelled, data,
                 reducerVars, rch, rchClosed, outVars, err, early>>

\* The goroutine of runReducers starts: it takes the keys in order.
StartReducer ==
  /\ run = "go"
  /\ run' = "reduce"
  /\ rpc' = "loop"
  /\ keys' = {Key[r] : r \in data}
  /\ UNCHANGED <<producerVars, timer, mapperVars, mch, ended, cancelled, data, key,
                 reduced, rch, rchClosed, outVars, err, ret, early>>

\* What Run does with the result e of runReducers.
AfterReduce(e) ==
  /\ err' = e
  /\ ret' = IF cancelled THEN "cancelled" ELSE e
  /\ run' = "close"

\* The result is the first error sent, or nil once the channel is closed.
ReducerResult ==
  /\ run = "reduce"
  /\ \/ rch # <<>> /\ rch' = Tail(rch) /\ AfterReduce(Head(rch))
     \/ rch = <<>> /\ rchClosed /\ UNCHANGED rch /\ AfterReduce("nil")
  /\ UNCHANGED <<producerVars, timer, mapperVars, mch, ended, cancelled, data,
                 reducerVars, rchClosed, outVars, early>>

ReducerTimesOut ==
  /\ run = "reduce"
  /\ timer = "fired"
  /\ timer' = "taken"
  /\ AfterReduce("timeout")
  /\ UNCHANGED <<producerVars, mapperVars, mch, ended, cancelled, data,
                 reducerVars, rch, rchClosed, outVars, early>>

\* The deferred close(mr.output).
CloseOutput ==
  /\ run = "close"
  /\ run' = "done"
  /\ outClosed' = TRUE
  /\ UNCHANGED <<producerVars, timer, mapperVars, mch, ended, cancelled, data,
                 reducerVars, rch, rchClosed, out, err, ret, early>>
-----------------------------------------------------------------------------
(***************************************************************************)
(* The reducer goroutine.                                                  *)
(***************************************************************************)
NextKey ==
  /\ rpc = "loop"
  /\ \E k \in keys :
       /\ \A j \in keys : k <= j
       /\ key' = k
       /\ keys' = keys \ {k}
  /\ rpc' = "reduce"
  /\ UNCHANGED <<producerVars, run, timer, mapperVars, mch, ended, cancelled, data,
                 reduced, rch, rchClosed, outVars, err, ret, early>>

KeysEnd ==
  /\ rpc = "loop"
  /\ keys = {}
  /\ rchClosed' = TRUE
  /\ rpc' = "exit"
  /\ UNCHANGED <<producerVars, run, timer, mapperVars, mch, ended, cancelled, data,
                 key, keys, reduced, rch, outVars, err, ret, early>>

\* Reduce calls ReduceOut, which panics on a closed channel, and returns nil.
\* A panic ends the process; what the other goroutines could still do is left in.
ReduceOut ==
  /\ rpc = "reduce"
  /\ \/ outClosed /\ rpc' = "panic" /\ UNCHANGED <<out, reduced>>
     \/ /\ ~outClosed /\ Len(out) < OutCap
        /\ out' = Append(out, key)
        /\ reduced' = Append(reduced, key)
        /\ rpc' = "loop"
  /\ UNCHANGED <<producerVars, run, timer, mapperVars, mch, ended, cancelled, data,
                 key, keys, rch, rchClosed, outClosed, err, ret, early>>

ReduceFails ==
  /\ rpc = "reduce"
  /\ key \in ReduceErrs
  /\ rpc' = "err"
  /\ UNCHANGED <<producerVars, run, timer, mapperVars, mch, ended, cancelled, data,
                 key, keys, reduced, rch, rchClosed, outVars, err, ret, early>>

\* ch <- err, with room for one; the loop over the keys goes on.
SendReduceError ==
  /\ rpc = "err"
  /\ rch = <<>>
  /\ rch' = <<"reduce">>
  /\ rpc' = "loop"
  /\ UNCHANGED <<producerVars, run, timer, mapperVars, mch, ended, cancelled, data,
                 key, keys, reduced, rchClosed, outVars, err, ret, early>>

ReducerCancels == rpc = "reduce" /\ Cancel("reducer")
-----------------------------------------------------------------------------
MapperStep(m) == Receive(m) \/ InputEnds(m) \/ MapOk(m) \/ MapFails(m)

RunStep ==
  \/ MapperResult \/ MappersCancelled \/ MappersTimeOut
  \/ CheckCancelled \/ StartReducer
  \/ ReducerResult \/ ReducerTimesOut \/ CloseOutput

ReducerStep == NextKey \/ KeysEnd \/ ReduceOut \/ ReduceFails \/ SendReduceError

\* Nothing is left to do, or the reducer waits for ever to report an error, or the
\* process is gone.
Halted ==
  /\ \/ rpc = "panic"
     \/ /\ run = "done" /\ out = <<>>
        /\ \A m \in Mappers : mpc[m] = "exit"
        /\ rpc \in {"none", "exit"} \/ (rpc = "err" /\ rch # <<>>)
  /\ UNCHANGED vars

Next ==
  \/ Produce \/ CloseInput \/ Consume \/ TimerFires
  \/ \E m \in Mappers : MapperStep(m) \/ MapperCancels(m)
  \/ RunStep
  \/ ReducerStep \/ ReducerCancels
  \/ Cancel("external")
  \/ Halted

Spec == Init /\ [][Next]_vars
-----------------------------------------------------------------------------
TypeOK ==
  /\ sent \in 0..Recs /\ in \in Seq(Records) /\ Len(in) <= InCap /\ inClosed \in BOOLEAN
  /\ run \in {"map", "check", "go", "reduce", "close", "done"}
  /\ timer \in {"none", "armed", "fired", "taken"}
  /\ mpc \in [Mappers -> {"recv", "map", "exit"}]
  /\ rec \in [Mappers -> 0..Recs]
  /\ mch \in Seq({"nil", "map"}) /\ Len(mch) <= Cardinality(Mappers)
  /\ ended \in 0..Cardinality(Mappers)
  /\ cancelled \in BOOLEAN /\ early \in BOOLEAN
  /\ data \subseteq Records
  /\ rpc \in {"none", "loop", "reduce", "err", "exit", "panic"}
  /\ key \in Keys \cup {0} /\ keys \subseteq Keys /\ reduced \in Seq(Keys)
  /\ rch \in Seq({"reduce"}) /\ Len(rch) <= 1 /\ rchClosed \in BOOLEAN
  /\ out \in Seq(Keys) /\ Len(out) <= OutCap /\ outClosed \in BOOLEAN
  /\ err \in Errors \cup {"nil"}
  /\ ret \in Errors \cup {"nil", "none"}

\* A run that returns nil has mapped every record that was sent before the input was
\* closed, and reduced every key of theirs once, in order (sortedKeys).
SuccessComplete ==
  run = "done" /\ ret = "nil" =>
    /\ inClosed /\ data = 1..sent
    /\ Range(reduced) = {Key[r] : r \in 1..sent}
    /\ \A i, j \in DOMAIN reduced : i < j => reduced[i] < reduced[j]

\* "If Cancel is called before any reducers have been run then no reducers will be
\* run" (the comment on Cancel): so it is when Map and Reduce call it.
CancelStopsReducers == early => rpc = "none"

\* What a client may rely on whoever fails, cancels or times out.
ReducedRight == SuccessComplete /\ CancelStopsReducers
=============================================================================
