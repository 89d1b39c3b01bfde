------------------------------- MODULE RunHooks -------------------------------
(***************************************************************************)
(* RunHooks of project/manifest.go: a goroutine per hook runs its command   *)
(* through retry.Function of retry/retry.go, each attempt under a timeout  *)
(* of its own, and sends one result on an unbuffered channel; RunHooks     *)
(* receives as many results as there are hooks.                            *)
(*                                                                         *)
(* A wait between attempts is counted in seconds.  retry takes the         *)
(* interval, a number of nanoseconds, for the number of seconds.           *)
(***************************************************************************)
EXTENDS Naturals, FiniteSets, SequencesExt

CONSTANTS
  Hooks,      \* the hooks, a set
  Attempts,   \* jirix.Attempts
  Interval,   \* the interval between attempts, in seconds
  Unit        \* nanoseconds in a second, or any large number

ASSUME RunHooksAssumption ==
  /\ IsFiniteSet(Hooks) /\ Attempts \in Nat \ {0}
  /\ Interval \in Nat \ {0} /\ Unit \in Nat \ {0}

MaxInterval == 64
MinOf(x, y) == IF x < y THEN x ELSE y

\* Outcomes of one run of a hook's command.
Outcomes == {"ok", "failed", "timeout"}

VARIABLES
  hpc,      \* each goroutine: "temp", "run", "wait", "return", "send", "ended"
  try,      \* its attempt
  last,     \* what its command came to, when it ran last
  hruns,    \* history: what its command came to, run after run
  waits,    \* history: the waits between the runs
  result,   \* what it sends: "ok", "deadline" (context.DeadlineExceeded) or "error"
  received, \* the results received: hooks
  err,      \* is err set,
  timeout   \* and timeout, in RunHooks?

hookVars == <<hpc, try, last, hruns, waits, result, received, err, timeout>>

Set(f, h, v) == [f EXCEPT ![h] = v]

\* Mutant: the goroutine may end without a result.
TempSilently(h) ==
  /\ hpc[h] = "temp"
  /\ hpc' \in {Set(hpc, h, "run"), Set(hpc, h, "ended")}
  /\ UNCHANGED <<try, last, hruns, waits, result, received, err, timeout>>

\* Mutant: the error is that of the last result.
ReceiveLatest(h) ==
  /\ hpc[h] = "send"
  /\ hpc' = Set(hpc, h, "ended")
  /\ received' = received \cup {h}
  /\ err' = (result[h] # "ok")
  /\ timeout' = (timeout \/ result[h] = "deadline")
  /\ UNCHANGED <<try, last, hruns, waits, result>>
-----------------------------------------------------------------------------
\* The temporary files for the output of the command.
Temp(h) ==
  /\ hpc[h] = "temp"
  /\ \/ hpc' = Set(hpc, h, "run") /\ UNCHANGED result
     \/ hpc' = Set(hpc, h, "send") /\ result' = Set(result, h, "error")
  /\ UNCHANGED <<try, last, hruns, waits, received, err, timeout>>

\* One attempt.
Run(h) ==
  /\ hpc[h] = "run"
  /\ \E o \in Outcomes :
       /\ last' = Set(last, h, o)
       /\ hruns' = [hruns EXCEPT ![h] = Append(@, o)]
       /\ hpc' = Set(hpc, h, IF o # "ok" /\ try[h] < Attempts THEN "wait" ELSE "return")
  /\ UNCHANGED <<try, waits, result, received, err, timeout>>

\* nextBackoff, the jitter of up to ten seconds left out.
Backoff(i) == MinOf(Interval * Unit * 2 ^ (i - 1), MaxInterval)

Wait(h) ==
  /\ hpc[h] = "wait"
  /\ hpc' = Set(hpc, h, "run")
  /\ waits' = [waits EXCEPT ![h] = Append(@, Backoff(try[h]))]
  /\ try' = Set(try, h, try[h] + 1)
  /\ UNCHANGED <<last, hruns, result, received, err, timeout>>

\* The end of retry.Function, which puts the last error into one of its own unless
\* there was to be one attempt only.
ReturnResult(h) ==
  /\ hpc[h] = "return"
  /\ hpc' = Set(hpc, h, "send")
  /\ result' = Set(result, h,
       IF last[h] = "ok" THEN "ok"
       ELSE IF last[h] = "timeout" /\ Attempts = 1 THEN "deadline" ELSE "error")
  /\ UNCHANGED <<try, last, hruns, waits, received, err, timeout>>

\* RunHooks receives the result of h.
ReceiveResult(h) ==
  /\ hpc[h] = "send"
  /\ hpc' = Set(hpc, h, "ended")
  /\ received' = received \cup {h}
  /\ err' = (err \/ result[h] # "ok")
  /\ timeout' = (timeout \/ result[h] = "deadline")
  /\ UNCHANGED <<try, last, hruns, waits, result>>
-----------------------------------------------------------------------------
HooksInit ==
  /\ hpc = [h \in Hooks |-> "temp"] /\ try = [h \in Hooks |-> 1]
  /\ last = [h \in Hooks |-> "none"] /\ result = [h \in Hooks |-> "none"]
  /\ hruns = [h \in Hooks |-> <<>>] /\ waits = [h \in Hooks |-> <<>>]
  /\ received = {} /\ err = FALSE /\ timeout = FALSE

HookStep(h) == Temp(h) \/ Run(h) \/ Wait(h) \/ ReturnResult(h) \/ ReceiveResult(h)

HooksNext == \E h \in Hooks : HookStep(h)

\* Every goroutine is scheduled, every command ends by its timeout at the latest.
HooksSpec == HooksInit /\ [][HooksNext]_hookVars /\ \A h \in Hooks : WF_hookVars(HookStep(h))
-----------------------------------------------------------------------------
\* The types of the variables; no more attempts than asked for.
HooksTypeOK ==
  /\ hpc \in [Hooks -> {"temp", "run", "wait", "return", "send", "ended"}]
  /\ try \in [Hooks -> 1 .. Attempts]
  /\ last \in [Hooks -> Outcomes \cup {"none"}]
  /\ result \in [Hooks -> {"none", "ok", "deadline", "error"}]
  /\ hruns \in [Hooks -> Seq(Outcomes)] /\ waits \in [Hooks -> Seq({Backoff(i) : i \in 1 .. Attempts})]
  /\ \A h \in Hooks : Len(hruns[h]) <= Attempts /\ Len(waits[h]) < Attempts
  /\ received \subseteq Hooks /\ err \in BOOLEAN /\ timeout \in BOOLEAN

AllResults == received = Hooks
Succeeded(h) == hruns[h] # <<>> /\ Last(hruns[h]) = "ok"

\* When RunHooks returns, it returns an error if and only if some hook did not succeed
\* in the end, in whatever order the results came, and a hook that failed has had every
\* attempt unless its command could not be started at all.
Reported ==
  AllResults =>
    /\ err <=> \E h \in Hooks : ~Succeeded(h)
    /\ \A h \in Hooks : Succeeded(h) \/ Len(hruns[h]) \in {0, Attempts}

\* RunHooks returns: it receives one result of every hook, also of those whose
\* goroutine fails before it runs the command.
Ends == <>AllResults

\* "Function retries the given function for the given number of attempts at the given
\* interval." (retry/retry.go): the first wait is the interval, give or take the jitter
\* of ten seconds.
RetriesAtInterval ==
  \A h \in Hooks : waits[h] # <<>> => waits[h][1] \in Interval .. Interval + 10
=============================================================================
