-------------------------------- MODULE RunP ---------------------------------
(***************************************************************************)
(* jiri runp of cmd/jiri/runp.go: a command in every project, as the       *)
(* Mapper and the Reducer of SimpleMR.  A mapper starts the command of its *)
(* record, waits for its end or for Cancel, and for those who put a prefix *)
(* before its lines; the reducer prints what was collated, key by key.     *)
(* When Run closes the output channel jiri is over, whoever is at work.    *)
(***************************************************************************)
EXTENDS SimpleMR

VARIABLES
  flags,    \* collate, prefix and exitOnError
  main,     \* runRunp: "run", "over", or "panic" if any goroutine panics
  begun,    \* has Run made the channel that Cancel closes?
  step,     \* where each mapper is in Map
  proc,     \* the command of each record
  file,     \* its standard output as far as it has been written
  outcome,  \* [record -> the err of its mapOutput]
  printed   \* what Reduce printed: <<record, "output" or "FAILED", how much of it>>

runpVars == <<flags, main, begun, step, proc, file, outcome, printed>>
mrVars == vars
rest == <<flags, main, begun>>

RunPInit ==
  /\ Init
  /\ flags \in [collate : BOOLEAN, prefix : BOOLEAN, exitOnError : BOOLEAN]
  /\ main = "run" /\ begun = FALSE
  /\ step = [m \in Mappers |-> "start"]
  /\ proc = [r \in Records |-> "none"]
  /\ file = [r \in Records |-> "none"]
  /\ outcome = [r \in Records |-> "none"]
  /\ printed = <<>>

Alive == main = "run"

\* Run starts in a goroutine of its own.
Begin == Alive /\ ~begun /\ begun' = TRUE /\ UNCHANGED <<mrVars, flags, main, step, proc, file, outcome, printed>>

\* The first interrupt: closing a channel that is not there yet panics.
Interrupt ==
  /\ Alive
  /\ \/ ~begun /\ ~cancelled /\ main' = "panic" /\ UNCHANGED mrVars
     \/ begun /\ Cancel("external") /\ UNCHANGED main
  /\ UNCHANGED <<flags, begun, step, proc, file, outcome, printed>>
-----------------------------------------------------------------------------
(***************************************************************************)
(* Map.                                                                    *)
(***************************************************************************)
\* The temporary file or a pipe cannot be made.
NoFile(m) ==
  /\ step[m] = "start" /\ (flags.collate \/ flags.prefix)
  /\ MapFails(m)
  /\ UNCHANGED runpVars

\* cmd.Start; its error is kept where nobody looks, and cmd.Wait will fail.
Start(m) ==
  /\ mpc[m] = "map" /\ step[m] = "start"
  /\ step' = [step EXCEPT ![m] = "wait"]
  /\ file' = [file EXCEPT ![rec[m]] = "empty"]
  /\ \E how \in {"running", "unstarted"} : proc' = [proc EXCEPT ![rec[m]] = how]
  /\ UNCHANGED <<mrVars, rest, outcome, printed>>

\* A command ends, well or not, having written its output, to the pipe if there are prefixes.
Ends(r) ==
  /\ proc[r] = "running"
  /\ \E how \in {"done", "failed"} : proc' = [proc EXCEPT ![r] = how]
  /\ file' = [file EXCEPT ![r] = IF flags.prefix THEN "piped" ELSE "whole"]
  /\ UNCHANGED <<mrVars, rest, step, outcome, printed>>

\* The end of the command comes out of done.
Waited(m) ==
  /\ mpc[m] = "map" /\ step[m] = "wait"
  /\ LET r == rec[m] IN
     /\ proc[r] \in {"done", "failed", "unstarted"}
     /\ outcome' = [outcome EXCEPT ![r] = IF proc[r] = "done" THEN "nil" ELSE "failed"]
     /\ IF proc[r] # "done" /\ flags.exitOnError /\ ~cancelled THEN Cancel("mapper") ELSE UNCHANGED mrVars
  /\ step' = [step EXCEPT ![m] = "drain"]
  /\ UNCHANGED <<rest, proc, file, printed>>

\* CancelCh is closed: the command is killed, which is no error, unless it has ended by
\* itself and been waited for.  There is no process to kill if it could not be started.
Kill(m) ==
  /\ mpc[m] = "map" /\ step[m] = "wait" /\ cancelled
  /\ LET r == rec[m] IN
     \/ proc[r] = "unstarted" /\ main' = "panic" /\ UNCHANGED <<step, proc, outcome>>
     \/ /\ proc[r] # "unstarted"
        /\ proc' = [proc EXCEPT ![r] = IF @ = "running" THEN "killed" ELSE @]
        /\ \E e \in IF proc[r] = "running" THEN {"nil"} ELSE {"nil", "failed"} :
             outcome' = [outcome EXCEPT ![r] = e]
        /\ step' = [step EXCEPT ![m] = "drain"]
        /\ UNCHANGED main
  /\ UNCHANGED <<mrVars, flags, begun, file, printed>>

\* copyWithPrefix, which runs while the command does and ends after it.
Copy(m) ==
  /\ mpc[m] = "map" /\ file[rec[m]] = "piped"
  /\ file' = [file EXCEPT ![rec[m]] = "whole"]
  /\ UNCHANGED <<mrVars, rest, step, proc, outcome, printed>>

\* Mutant: nobody waits for the goroutines that copy.
MapOutEarly(m) ==
  /\ step[m] = "drain" /\ MapOk(m)
  /\ step' = [step EXCEPT ![m] = "start"]
  /\ UNCHANGED <<rest, proc, file, outcome, printed>>

\* wg.Wait, and MapOut.
MapOut(m) ==
  /\ step[m] = "drain" /\ file[rec[m]] # "piped" /\ MapOk(m)
  /\ step' = [step EXCEPT ![m] = "start"]
  /\ UNCHANGED <<rest, proc, file, outcome, printed>>
-----------------------------------------------------------------------------
(***************************************************************************)
(* Reduce, which has no output for the channel, and the end.               *)
(***************************************************************************)
\* The record of the project whose key it is.
ProjectOf(k) == CHOOSE r \in Records : Key[r] = k

Reduce ==
  /\ rpc = "reduce"
  /\ \/ /\ rpc' = "loop"
        /\ reduced' = Append(reduced, key)
        /\ LET r == ProjectOf(key) IN
           printed' = IF outcome[r] = "failed" THEN Append(printed, <<r, "FAILED", "whole">>)
                      ELSE IF flags.collate THEN Append(printed, <<r, "output", file[r]>>) ELSE printed
        /\ UNCHANGED <<producerVars, run, timer, mapperVars, mch, ended, cancelled, data, key, keys, rch, rchClosed,
                       outVars, err, ret, early>>
     \/ outcome[ProjectOf(key)] # "failed" /\ flags.collate /\ ReduceFails /\ UNCHANGED printed
  /\ UNCHANGED <<rest, step, proc, file, outcome>>

\* <-out, and the process ends.
Over ==
  /\ Alive /\ outClosed /\ main' = "over"
  /\ UNCHANGED <<mrVars, flags, begun, step, proc, file, outcome, printed>>

MRStep ==
  /\ \/ Produce \/ CloseInput
     \/ begun /\ \E m \in Mappers : Receive(m) \/ InputEnds(m)
     \/ begun /\ RunStep
     \/ NextKey \/ KeysEnd \/ SendReduceError
  /\ UNCHANGED runpVars

\* What goes on by itself: all but the interrupt and what commands do.
RunPStep ==
  /\ Alive
  /\ \/ MRStep \/ Begin \/ Reduce \/ Over
     \/ \E m \in Mappers : NoFile(m) \/ Start(m) \/ Waited(m) \/ Kill(m) \/ Copy(m) \/ MapOut(m)

RunPOver == ~Alive /\ UNCHANGED <<mrVars, runpVars>>

RunPNext == RunPStep \/ Interrupt \/ (\E r \in Records : Ends(r)) \/ RunPOver

RunPSpec == RunPInit /\ [][RunPNext]_<<mrVars, runpVars>>

\* Every project has its own key; runp sends them in any order (runp.go:350).
ProjectKeys == \A r, s \in Records : Key[r] = Key[s] => r = s
-----------------------------------------------------------------------------
\* What is printed is whole and in the order of the keys, "as if had been generated
\* sequentially", and nothing of a command that was killed; and unless there was an error or a Cancel,
\* it is printed for all.
OutputTold ==
  /\ \A i \in DOMAIN printed :
       /\ printed[i][3] = "whole" /\ proc[printed[i][1]] # "killed"
       /\ i > 1 => Key[printed[i - 1][1]] < Key[printed[i][1]]
  /\ main = "over" /\ err = "nil" /\ ~cancelled =>
       {r \in DOMAIN outcome : flags.collate \/ outcome[r] = "failed"} = {printed[i][1] : i \in DOMAIN printed}

\* "Error returns any error that was returned by the Run method" (mr.go:98).
ErrorReturned == main = "over" => err = ret
==============================================================================
