------------------------------ MODULE MCSimpleMR ------------------------------
(***************************************************************************)
(* Small instances of SimpleMR: one run of TLC goes through several uses   *)
(* of the package, which differ in who may fail, cancel or time out.       *)
(***************************************************************************)
EXTENDS RunP

CONSTANT Uses    \* the uses the run goes through

VARIABLE use

\* Three records, two of them with the same key, out of key order.
MCKey == <<2, 1, 2>>

\* "inside": Cancel is called from Map and Reduce only, as its comment advises.
\* "outside": another goroutine calls it, as the signal handler of runp does.
\* "timeout": there is a timeout, and the producer may stall for ever.
U(u) == INSTANCE SimpleMR WITH
  MapErrs <- {2},
  ReduceErrs <- IF u = "timeout" THEN {1, 2} ELSE {},
  Cancellers <- CASE u = "inside" -> {"mapper", "reducer"}
                  [] u = "outside" -> {"external"}
                  [] u = "timeout" -> {},
  HasTimeout <- (u = "timeout")

\* "runp": jiri runp in two projects, interrupted or not.
R == INSTANCE RunP WITH
  Recs <- 2, Key <- <<2, 1>>,
  InCap <- 2, OutCap <- 2,
  MapErrs <- {2}, ReduceErrs <- {1},
  Cancellers <- {"mapper", "external"},
  HasTimeout <- FALSE

NoRunP ==
  /\ flags = "none" /\ main = "none" /\ begun = "none" /\ step = "none"
  /\ proc = "none" /\ file = "none" /\ outcome = "none" /\ printed = <<>>

UseInit ==
  \/ (\E u \in Uses \ {"runp"} : use = u /\ U(u)!Init) /\ NoRunP
  \/ use = "runp" /\ use \in Uses /\ R!RunPInit

UseNext ==
  /\ UNCHANGED use
  /\ \/ (\E u \in Uses \ {"runp"} : use = u /\ U(u)!Next) /\ UNCHANGED runpVars
     \/ use = "runp" /\ R!RunPNext

\* Goroutines that can go on do; Map and Reduce return; the timer fires; the commands of
\* runp end.  The producer sends all its records and closes the channel, unless a timeout
\* is to end the run.  Nobody is obliged to call Cancel.
UseSpec ==
  /\ UseInit /\ [][UseNext]_<<vars, runpVars, use>>
  /\ \A u \in Uses \ {"runp"} : WF_vars(use = u /\ U(u)!RunStep)
  /\ \A u \in Uses \ {"runp"}, m \in Mappers : WF_vars(use = u /\ U(u)!MapperStep(m))
  /\ \A u \in Uses \ {"runp"} : WF_vars(use = u /\ U(u)!ReducerStep)
  /\ WF_vars(use # "runp" /\ Consume) /\ WF_vars(TimerFires)
  /\ WF_vars(use \notin {"timeout", "runp"} /\ (Produce \/ CloseInput))
  /\ WF_<<vars, runpVars>>(use = "runp" /\ R!RunPStep)
  /\ \A r \in 1..2 : WF_runpVars(use = "runp" /\ R!Ends(r))

\* Run returns and closes its output, in runp too unless it panics; and all the mapper
\* goroutines end when the producer closes the input, also those that Run has left
\* behind; those of runp end with the process.
AllEnd ==
  /\ <>(run = "done" \/ (use = "runp" /\ main = "panic"))
  /\ <>(use = "timeout" \/ (use = "runp" /\ main # "run") \/ \A m \in Mappers : mpc[m] = "exit")

\* "Error returns any error that was returned by the Run method" (mr.go:98).
ErrorKept == use = "runp" => R!ErrorReturned
===============================================================================
