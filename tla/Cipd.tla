-------------------------------- MODULE Cipd ---------------------------------
(***************************************************************************)
(* The cipd client of a root (cipd/cipd.go) and the jiri processes that    *)
(* share it: each bootstraps it before each use, and uses it to ask, one   *)
(* goroutine for each package, which packages may be read                  *)
(* (CheckPackageACL) or which have a floating ref (CheckFloatingRefs), and *)
(* then to fetch packages or to resolve them.  Processes may be killed.    *)
(***************************************************************************)
EXTENDS Naturals, FiniteSets

CONSTANTS
  Procs,       \* processes of jiri, as many commands
  Fetching,    \* those that fetch packages; the others resolve
  Packages,    \* the packages each asks about
  Slots,       \* the weight of the semaphore of CheckFloatingRefs
  Begins,      \* how often a process that fetches begins: with a fast scan, then with a full one
  MaxCipdFaults, \* bound: failing commands, downloads and writes
  MaxCipdKills   \* bound

ASSUME CipdAssumption ==
  /\ IsFiniteSet(Packages) /\ Fetching \subseteq Procs
  /\ Slots \in Nat /\ Begins \in Nat /\ MaxCipdFaults \in Nat /\ MaxCipdKills \in Nat

VARIABLES
  binary,      \* what is at the path of cipd: "none", "broken", "stale", "current" or "torn"
  yes,         \* the packages for which the answer of the backend is yes
  cpc,         \* [process -> where it is]
  next,        \* [process -> what it does once cipd is there]
  once,        \* [process -> has selfUpdateOnce been used?]
  missed,      \* history: [process -> has a bootstrap of it failed?]
  temp,        \* [process -> its temporary file: "none", "torn", "current" or "foreign"]
  tries,
  ask,         \* [process -> [package -> its goroutine: "off", "wait", "ask", "yes", "no", "failed" or "gone"]]
  answer,      \* [process -> [package -> what has been received, "none" before]]
  spoilt,      \* history: the <<process, package>> whose query failed
  cfaults, ckills

cipdVars == <<binary, yes, cpc, next, once, missed, temp, tries, ask, answer, spoilt, cfaults, ckills>>
asking == <<ask, answer, spoilt>>
boot == <<once, missed, temp>>

NoGoroutine == [k \in Packages |-> "off"]
NoAnswer == [k \in Packages |-> "none"]

CipdInit ==
  /\ binary \in {"none", "broken", "stale", "current"}
  /\ yes \in SUBSET Packages
  /\ cpc = [p \in Procs |-> "stat"]
  /\ next = [p \in Procs |-> "ask"]
  /\ once = [p \in Procs |-> FALSE] /\ missed = [p \in Procs |-> FALSE]
  /\ temp = [p \in Procs |-> "none"] /\ tries = [p \in Procs |-> 1]
  /\ ask = [p \in Procs |-> NoGoroutine] /\ answer = [p \in Procs |-> NoAnswer]
  /\ spoilt = {} /\ cfaults = 0 /\ ckills = 0

To(p, place) == cpc' = [cpc EXCEPT ![p] = place]
CipdFault == cfaults < MaxCipdFaults /\ cfaults' = cfaults + 1
-------------------------------------------------------------------------------
(***************************************************************************)
(* Bootstrap.                                                              *)
(***************************************************************************)
\* A client that is there is updated by itself, once in a process; where there is none
\* one is downloaded.
Bootstrap(p) ==
  /\ cpc[p] = "stat"
  /\ CASE binary = "none" -> To(p, "download") /\ UNCHANGED once
       [] binary # "none" /\ once[p] -> To(p, next[p]) /\ UNCHANGED once
       [] OTHER -> To(p, "selfUpdate") /\ once' = [once EXCEPT ![p] = TRUE]
  /\ UNCHANGED <<binary, yes, next, missed, temp, tries, asking, cfaults, ckills>>

\* cipd selfupdate replaces a client that works, or fails.
SelfUpdate(p) ==
  /\ cpc[p] = "selfUpdate"
  /\ \/ /\ binary \in {"stale", "current"}
        /\ binary' = "current" /\ To(p, next[p])
     \/ To(p, "download") /\ UNCHANGED binary
  /\ UNCHANGED <<yes, next, boot, tries, asking, cfaults, ckills>>

\* An error of Bootstrap ends the command, or this attempt of it.
FailProcess(p) == To(p, "failed") /\ temp' = [temp EXCEPT ![p] = "none"]
BootstrapFails(p) == FailProcess(p) /\ missed' = [missed EXCEPT ![p] = TRUE] /\ CipdFault

\* fetchBinary: the download, which may fail or bring something else; only what has the
\* known digest is written.
Verified(data) == data = "current"

Download(p) ==
  /\ cpc[p] = "download"
  /\ \E data \in {"current", "foreign"} :
       IF Verified(data)
         THEN \/ /\ To(p, "rename") /\ temp' = [temp EXCEPT ![p] = data]
                 /\ UNCHANGED <<missed, cfaults>>
              \/ /\ To(p, "writing") /\ temp' = [temp EXCEPT ![p] = "torn"]
                 /\ UNCHANGED missed /\ CipdFault
         ELSE BootstrapFails(p)
  /\ UNCHANGED <<binary, yes, next, once, tries, asking, ckills>>

\* writeFile: a write that fails leaves nothing but the file that was there.
WriteFails(p) ==
  /\ cpc[p] = "writing"
  /\ FailProcess(p) /\ missed' = [missed EXCEPT ![p] = TRUE]
  /\ UNCHANGED <<binary, yes, next, once, tries, asking, cfaults, ckills>>

Rename(p) ==
  /\ cpc[p] = "rename"
  /\ \/ /\ binary' = temp[p] /\ temp' = [temp EXCEPT ![p] = "none"]
        /\ To(p, next[p]) /\ UNCHANGED <<missed, cfaults>>
     \/ BootstrapFails(p) /\ UNCHANGED binary
  /\ UNCHANGED <<yes, next, once, tries, asking, ckills>>
-------------------------------------------------------------------------------
(***************************************************************************)
(* CheckPackageACL and CheckFloatingRefs.                                  *)
(***************************************************************************)
\* One goroutine for each package; those of CheckFloatingRefs begin at the semaphore.
CheckPackages(p) ==
  /\ cpc[p] = "ask"
  /\ To(p, "receive")
  /\ ask' = [ask EXCEPT ![p] = [k \in Packages |-> IF p \in Fetching THEN "ask" ELSE "wait"]]
  /\ answer' = [answer EXCEPT ![p] = NoAnswer]
  /\ spoilt' = {x \in spoilt : x[1] # p}
  /\ UNCHANGED <<binary, yes, next, boot, tries, cfaults, ckills>>

\* A goroutine holds its place until its answer has been received.
Held(p) == {k \in Packages : ask[p][k] \in {"ask", "yes", "no", "failed"}}

Acquire(p, k) ==
  /\ ask[p][k] = "wait" /\ Cardinality(Held(p)) < Slots
  /\ ask' = [ask EXCEPT ![p][k] = "ask"]
  /\ UNCHANGED <<binary, yes, cpc, next, boot, tries, answer, spoilt, cfaults, ckills>>

\* A query that fails is a no for the rights, silently, and an error for the refs.
OnError(p) == IF p \in Fetching THEN "no" ELSE "failed"

Query(p, k) ==
  /\ ask[p][k] = "ask"
  /\ \/ ask' = [ask EXCEPT ![p][k] = IF k \in yes THEN "yes" ELSE "no"] /\ UNCHANGED <<spoilt, cfaults>>
     \/ /\ ask' = [ask EXCEPT ![p][k] = OnError(p)]
        /\ spoilt' = spoilt \cup {<<p, k>>} /\ CipdFault
  /\ UNCHANGED <<binary, yes, cpc, next, boot, tries, answer, ckills>>

\* The channel is not buffered: what is sent is received at once.
Receive(p, k) ==
  /\ cpc[p] = "receive" /\ ask[p][k] \in {"yes", "no", "failed"}
  /\ ask' = [ask EXCEPT ![p][k] = "gone"]
  /\ answer' = [answer EXCEPT ![p][k] = ask[p][k]]
  /\ UNCHANGED <<binary, yes, cpc, next, boot, tries, spoilt, cfaults, ckills>>

\* Mutant: one answer is enough.
FirstReceived(p) == \E k \in Packages : answer[p][k] # "none"

\* After as many answers as packages.  A floating ref, or an error of any package, ends a resolve.
AllReceived(p) == Cardinality({k \in Packages : answer[p][k] # "none"}) = Cardinality(Packages)

Answered(p) ==
  /\ cpc[p] = "receive" /\ AllReceived(p)
  /\ IF p \in Fetching \/ \A k \in Packages : answer[p][k] = "no"
       THEN To(p, "stat") /\ next' = [next EXCEPT ![p] = IF p \in Fetching THEN "ensure" ELSE "resolve"]
       ELSE To(p, "failed") /\ UNCHANGED next
  /\ UNCHANGED <<binary, yes, boot, tries, asking, cfaults, ckills>>
-------------------------------------------------------------------------------
(***************************************************************************)
(* Ensure, Resolve and CheckLoggedIn.                                      *)
(***************************************************************************)
\* cipd ensure may fail or hang; after the timeout it is killed, and that is the error.
EnsureEnds(p) ==
  /\ cpc[p] = "ensure"
  /\ IF \A k \in Packages : answer[p][k] = "yes" THEN To(p, "done") /\ UNCHANGED next
     ELSE To(p, "stat") /\ next' = [next EXCEPT ![p] = "login"]
  /\ UNCHANGED <<binary, yes, boot, tries, asking, cfaults, ckills>>
EnsureTimesOut(p) ==
  /\ cpc[p] = "ensure"
  /\ To(p, "failed")
  /\ UNCHANGED <<binary, yes, next, boot, tries, asking, cfaults, ckills>>

\* The others: with an exit code for "no token" CheckLoggedIn is no error.
CipdEnds(p) ==
  /\ cpc[p] \in {"resolve", "login"}
  /\ \/ To(p, "done") /\ UNCHANGED cfaults
     \/ To(p, "failed") /\ CipdFault
  /\ UNCHANGED <<binary, yes, next, boot, tries, asking, ckills>>

\* An update that failed begins again, in the same process; a resolve does not.
Retry(p) ==
  /\ cpc[p] = "failed" /\ p \in Fetching /\ tries[p] < Begins
  /\ tries' = [tries EXCEPT ![p] = @ + 1]
  /\ To(p, "stat") /\ next' = [next EXCEPT ![p] = "ask"]
  /\ UNCHANGED <<binary, yes, boot, asking, cfaults, ckills>>

Ended(p) == cpc[p] \in {"done", "killed"} \/ (cpc[p] = "failed" /\ ~ (p \in Fetching /\ tries[p] < Begins))

\* A kill leaves the temporary file.
KillProcess(p) ==
  /\ ~ Ended(p) /\ ckills < MaxCipdKills
  /\ ckills' = ckills + 1
  /\ To(p, "killed")
  /\ ask' = [ask EXCEPT ![p] = NoGoroutine]
  /\ UNCHANGED <<binary, yes, next, boot, tries, answer, spoilt, cfaults>>

ProcessMain(p) ==
  \/ Bootstrap(p) \/ SelfUpdate(p) \/ Download(p) \/ WriteFails(p) \/ Rename(p)
  \/ CheckPackages(p) \/ Answered(p) \/ EnsureTimesOut(p) \/ CipdEnds(p) \/ Retry(p)
  \/ \E k \in Packages : Receive(p, k)
Goroutine(p, k) == Acquire(p, k) \/ Query(p, k)
CipdNext == \E p \in Procs : ProcessMain(p) \/ EnsureEnds(p) \/ KillProcess(p) \/ \E k \in Packages : Goroutine(p, k)
CipdSpec == CipdInit /\ [][CipdNext]_cipdVars
-------------------------------------------------------------------------------
\* Whoever is killed, and however processes that share the client overtake each other:
\* what is at its path is never torn or foreign; a process works with the current
\* client unless a bootstrap of its own has failed before; and what it
\* has been told of a package is right, or comes from a query that failed: then a
\* package is taken for one that may not be read, and a resolve fails.
CipdRight ==
  /\ binary \notin {"torn", "foreign"}
  /\ \A p \in Procs :
       /\ cpc[p] \in {"ask", "receive", "ensure", "resolve", "login"} => binary = "current" \/ missed[p]
       /\ cpc[p] \in {"ensure", "login"} =>
            \A k \in Packages : answer[p][k] = IF k \in yes /\ <<p, k>> \notin spoilt THEN "yes" ELSE "no"
       /\ cpc[p] = "resolve" => yes = {} /\ \A k \in Packages : <<p, k>> \notin spoilt
===============================================================================
