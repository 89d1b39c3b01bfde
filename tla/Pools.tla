-------------------------------- MODULE Pools --------------------------------
(***************************************************************************)
(* What jiri hands to goroutines of their own beside the projects: the     *)
(* caches (Cache), the scan for projects (ScanProjects), the hooks         *)
(* (RunHooks), the queries to cipd (Cipd) and the analytics of a command   *)
(* (AnalyticsSession).                                                     *)
(***************************************************************************)
EXTENDS Cache, ScanProjects, RunHooks, Cipd, AnalyticsSession

\* RunHooks returns an error exactly if a hook did not succeed in the end (Reported), and
\* a command exits after everything it measured was sent, once (SentOnce).
HandedIn == Reported /\ SentOnce
==============================================================================
