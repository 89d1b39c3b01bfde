------------------------------- MODULE MCPools -------------------------------
(***************************************************************************)
(* The other places where jiri has a goroutine for each thing to do, in    *)
(* behaviours of their own: the caches (Cache), the scan for projects      *)
(* (ScanProjects), the hooks (RunHooks), the queries to cipd (Cipd) and    *)
(* the analytics of a command (AnalyticsSession), over small sets of       *)
(* projects, directory trees, hooks, packages and objects to send.         *)
(***************************************************************************)
EXTENDS Pools

VARIABLE part   \* "full" or "shallow" caches, "scan", "hooks", "cipd" or "session"

allVars == <<vars, scanVars, hookVars, cipdVars, sessionVars, part>>
-----------------------------------------------------------------------------
\* Two projects of one remote, pinned and not, and one of another remote.
FullProjects == {"pinned", "head", "other"}

\* Two branches of one remote.
ShallowProjects == {"main", "side"}

Everyone == FullProjects \cup ShallowProjects
DirOf == [p \in Everyone |-> CASE p = "other" -> "d2" [] p \in ShallowProjects -> "d3" [] OTHER -> "d1"]

K(k) == INSTANCE Cache WITH Projects <- IF k = "full" THEN FullProjects ELSE ShallowProjects

\* Bound: the branches someone pushes to.
Pushed == {"head", "main", "side"}
Bounded == \A p \in DOMAIN tip : tip'[p] # tip[p] => p \in Pushed

CacheSorts == {"full", "shallow"}
-----------------------------------------------------------------------------
\* Three trees.  n: a project with one nested in it and one nested in that, a stale one with
\* another in it, and a directory that cannot be read.  t: two checkouts of one project, with
\* a project in each, one of which cannot be listed, as a directory cannot.  v: more
\* subdirectories than the channel has places.
Roots == {"n", "t", "v"}
TreeOf == [r \in Roots |->
  CASE r = "n" -> {"n", "n/a", "n/a/b", "n/a/b/c", "n/s", "n/s/t", "n/x"}
    [] r = "t" -> {"t", "t/a", "t/a/n", "t/b", "t/b/m", "t/y"}
    [] r = "v" -> {"v", "v/a", "v/b", "v/c", "v/d", "v/a/e", "v/a/f"}]
AllPlaces == UNION {TreeOf[r] : r \in Roots}
KidsOf == [d \in AllPlaces |->
  CASE d = "n" -> <<"n/a", "n/s", "n/x">> [] d = "n/a" -> <<"n/a/b">> [] d = "n/a/b" -> <<"n/a/b/c">>
    [] d = "n/s" -> <<"n/s/t">>
    [] d = "t" -> <<"t/a", "t/b", "t/y">> [] d = "t/a" -> <<"t/a/n">> [] d = "t/b" -> <<"t/b/m">>
    [] d = "v" -> <<"v/a", "v/b", "v/c", "v/d">> [] d = "v/a" -> <<"v/a/e", "v/a/f">> [] OTHER -> <<>>]
KindOf == [d \in AllPlaces |->
  CASE d \in {"n/s", "v/c", "v/a/e"} -> "stale" [] d \in {"n/x", "v/b"} -> "broken"
    [] d \in {"t/y", "v/a/f"} -> "closed" [] d \in {"v/d", "t/b/m"} -> "sealed" [] d = "n" -> "none" [] OTHER -> "project"]
Keys == [d \in AllPlaces |-> IF d = "t/b" THEN "t/a" ELSE d]

\* Two workers for the first two trees; one worker (-j 1), with channels of one place,
\* for the third.
Crews == [r \in Roots |-> IF r = "v" THEN {"w1"} ELSE {"w1", "w2"}]

ASSUME TreesAreTrees == ScanAssumption
-----------------------------------------------------------------------------
\* A process that fetches two packages and one that resolves them.
Users == {"fetch", "resolve"}
Asked == {"k1", "k2"}
-----------------------------------------------------------------------------
NoCache ==
  /\ tip = "none" /\ dir = "none" /\ has = <<>> /\ pc = <<>> /\ made = "none" /\ lock = "none"
  /\ slots = "none" /\ errs = "none" /\ main = "none" /\ runs = "none" /\ kills = "none"
  /\ faults = "none" /\ began = "none" /\ suspect = "none"

NoScan == ScanInit /\ top = "t" /\ crew = Crews["t"]

NoHooks ==
  /\ hpc = "none" /\ try = "none" /\ last = "none" /\ hruns = "none" /\ waits = "none"
  /\ result = "none" /\ received = {} /\ err = "none" /\ timeout = "none"

NoCipd ==
  /\ binary = "none" /\ yes = {} /\ cpc = [p \in Procs |-> "none"] /\ next = "none" /\ once = "none" /\ missed = "none"
  /\ temp = "none" /\ tries = "none" /\ ask = "none" /\ answer = "none" /\ spoilt = {}
  /\ cfaults = "none" /\ ckills = "none"

NoSession ==
  /\ objects = {} /\ nextId = 0 /\ awaited = {} /\ mutex = <<>> /\ at = "none" /\ todo = {}
  /\ sender = "none" /\ complete = {} /\ posted = "none"

PoolsInit ==
  \/ \E k \in CacheSorts : part = k /\ K(k)!Init /\ NoScan /\ NoHooks /\ NoCipd /\ NoSession
  \/ part = "scan" /\ ScanInit /\ crew = Crews[top] /\ NoCache /\ NoHooks /\ NoCipd /\ NoSession
  \/ part = "hooks" /\ HooksInit /\ NoCache /\ NoScan /\ NoCipd /\ NoSession
  \/ part = "cipd" /\ CipdInit /\ NoCache /\ NoScan /\ NoHooks /\ NoSession
  \/ part = "session" /\ SessionInit /\ NoCache /\ NoScan /\ NoHooks /\ NoCipd

HooksOver == received = {"h1", "h2"} /\ UNCHANGED hookVars

PoolsNext ==
  /\ UNCHANGED part
  /\ \/ (\E k \in CacheSorts : part = k /\ K(k)!Next /\ Bounded) /\ UNCHANGED <<scanVars, hookVars, cipdVars, sessionVars>>
     \/ part = "scan" /\ ScanNext /\ UNCHANGED <<vars, hookVars, cipdVars, sessionVars>>
     \/ part = "hooks" /\ (HooksNext \/ HooksOver) /\ UNCHANGED <<vars, scanVars, cipdVars, sessionVars>>
     \/ part = "cipd" /\ CipdNext /\ UNCHANGED <<vars, scanVars, hookVars, sessionVars>>
     \/ part = "session" /\ SessionNext /\ UNCHANGED <<vars, scanVars, hookVars, cipdVars>>

\* The goroutines are scheduled, commands end, those of hooks by their timeout.
CacheFair ==
  /\ \A k \in CacheSorts : WF_vars(part = k /\ K(k)!Return)
  /\ \A k \in CacheSorts : WF_vars(part = k /\ \E p \in Everyone : p \in DOMAIN pc /\ K(k)!Go(p))
  /\ \A k \in CacheSorts, p \in Everyone : WF_vars(part = k /\ p \in DOMAIN pc /\ K(k)!Work(p))

ScanFair ==
  /\ \A w \in Workers : WF_scanVars(part = "scan" /\ Worker(w))
  /\ \A d \in Places : WF_scanVars(part = "scan" /\ Sender(d))
  /\ WF_scanVars(part = "scan" /\ TakeError) /\ WF_scanVars(part = "scan" /\ TakeWarning)
  /\ WF_scanVars(part = "scan" /\ Close) /\ WF_scanVars(part = "scan" /\ Collect)

HooksFair == \A h \in {"h1", "h2"} : WF_hookVars(part = "hooks" /\ HookStep(h))

\* cipd ensure need not end by itself (EnsureEnds).
CipdFair ==
  \A u \in Users :
    /\ WF_cipdVars(part = "cipd" /\ ProcessMain(u))
    /\ \A k \in Asked : WF_cipdVars(part = "cipd" /\ Goroutine(u, k))

\* The command ends, and the server answers.
SessionFair ==
  /\ WF_sessionVars(part = "session" /\ CommandDone) /\ WF_sessionVars(part = "session" /\ SessionMain)
  /\ \A g \in (1..3) \X {"Done", "All"} : WF_sessionVars(part = "session" /\ SenderStep(g))

PoolsSpec == PoolsInit /\ [][PoolsNext]_allVars /\ CacheFair /\ ScanFair /\ HooksFair
  /\ CipdFair /\ SessionFair
-----------------------------------------------------------------------------
\* All return: updateCache and the users of cipd unless they are killed, the scan,
\* RunHooks, and SendAllAndWaitToFinish.
AllReturn ==
  /\ Returns
  /\ part = "scan" => Terminates
  /\ part = "hooks" => Ends
  /\ \A u \in Users : <>(part = "cipd" => Ended(u))
  /\ <>(part = "session" => at = "end")
==============================================================================
