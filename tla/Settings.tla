------------------------------- MODULE Settings -------------------------------
(***************************************************************************)
(* "jiri init" (cmd/jiri/init.go), which keeps the settings of a root in   *)
(* .jiri_root/config, and the start of every other command (NewX of x.go), *)
(* which reads them.  The file is written in place: a kill leaves a part   *)
(* of it.  Someone may remove the cache directory, and the file.           *)
(***************************************************************************)
EXTENDS Integers, FiniteSets

CONSTANTS
  InitFlags,  \* [cache, partial, offload, lockfile, threads, analytics]; "" for a flag not given
  MaxInits,   \* bound: runs of init
  Torn, NoFile

\* What flags and files may say.
Word == STRING \cup {"", "yes", "no", "new"}
Given ==
  [cache : Word, partial : BOOLEAN, offload : BOOLEAN, lockfile : Word, threads : Int, analytics : Word]
Recorded ==
  [cache : Word, partial : BOOLEAN, offload : BOOLEAN, lockfile : Word, threads : Int,
   analytics : Word, user : Word]

ASSUME SettingsAssumption ==
  InitFlags \subseteq Given /\ MaxInits \in Nat /\ NoFile # Torn /\ {NoFile, Torn} \cap Recorded = {}

VARIABLES
  config,     \* the file: NoFile, Torn, or the settings
  caches,     \* directories that are there
  flags, spc, \* the run of init: its flags, where it is
  kept,       \* history: the settings it found
  inits

settingVars == <<config, caches, flags, spc, kept, inits>>

NoConfig == [cache |-> "", partial |-> FALSE, offload |-> FALSE, lockfile |-> "",
             threads |-> 0, analytics |-> "", user |-> ""]

SettingsInit ==
  /\ config = NoFile /\ kept = NoConfig /\ caches = {}
  /\ flags \in InitFlags
  /\ spc = "idle" /\ inits = 0
-----------------------------------------------------------------------------
\* strconv.ParseBool.
Trues == {"1", "t", "T", "TRUE", "true", "True"}
Falses == {"0", "f", "F", "FALSE", "false", "False"}
IsBool(v) == v \in Trues \cup Falses

\* A run of init: the cache is made before the file is read.
StartInit(f) ==
  /\ spc = "idle" /\ inits < MaxInits
  /\ inits' = inits + 1 /\ flags' = f
  /\ caches' = IF f.cache = "" THEN caches ELSE caches \cup {f.cache}
  /\ kept' = IF config = NoFile THEN NoConfig ELSE config
  /\ spc' = IF config = Torn THEN "idle" ELSE "set"
  /\ UNCHANGED config

\* The settings after the flags f.
Set(c, f) ==
  [cache |-> IF f.cache # "" THEN f.cache ELSE c.cache,
   partial |-> f.partial \/ c.partial,
   offload |-> f.offload \/ c.offload,
   lockfile |-> IF f.lockfile # "" THEN f.lockfile ELSE c.lockfile,
   threads |-> f.threads,
   analytics |-> CASE f.analytics \in Trues -> "yes" [] f.analytics \in Falses -> "no" [] OTHER -> c.analytics,
   user |-> CASE f.analytics \in Trues -> "new" [] f.analytics \in Falses -> "" [] OTHER -> c.user]

\* Mutant: the flag of the lockfile is not checked.
AcceptedAny(c, f) == c.cache = "" \/ (c.cache \in caches /\ c.cache # "relative")

\* The flags that are checked before anything is written; a relative cache is refused by
\* Config.Write (cleanPath).
Accepted(c, f) ==
  /\ f.lockfile # "" => IsBool(f.lockfile)
  /\ f.analytics # "" => IsBool(f.analytics)
  /\ c.cache = "" \/ (c.cache \in caches /\ c.cache # "relative")

\* Config.Write: the file is cut to nothing, then written.
Cut ==
  /\ spc = "set" /\ Accepted(Set(kept, flags), flags)
  /\ config' = Torn /\ spc' = "write"
  /\ UNCHANGED <<caches, flags, kept, inits>>

Refuse ==
  /\ spc = "set" /\ ~Accepted(Set(kept, flags), flags)
  /\ spc' = "idle" /\ UNCHANGED <<config, caches, flags, kept, inits>>

WriteConfig ==
  /\ spc = "write"
  /\ config' = Set(kept, flags) /\ spc' = "done"
  /\ UNCHANGED <<caches, flags, kept, inits>>

Leave == spc = "done" /\ spc' = "idle" /\ UNCHANGED <<config, caches, flags, kept, inits>>
KillInit == spc \in {"set", "write"} /\ spc' = "idle" /\ UNCHANGED <<config, caches, flags, kept, inits>>

RemoveCache(d) == caches' = caches \ {d} /\ UNCHANGED <<config, flags, spc, kept, inits>>
RemoveConfig ==
  /\ spc = "idle" /\ config' = NoFile /\ UNCHANGED <<caches, flags, spc, kept, inits>>

SettingsNext ==
  \/ \E f \in InitFlags : StartInit(f)
  \/ Cut \/ Refuse \/ WriteConfig \/ Leave \/ KillInit
  \/ \E d \in caches : RemoveCache(d)
  \/ RemoveConfig
SettingsSpec == SettingsInit /\ [][SettingsNext]_settingVars
-----------------------------------------------------------------------------
\* NewX: the settings a command of the root starts with; none if it does not start.
NewX ==
  LET c == IF config = NoFile THEN NoConfig ELSE config
  IN IF config = Torn \/ (c.lockfile # "" /\ ~IsBool(c.lockfile)) \/ (c.cache # "" /\ c.cache \notin caches)
     THEN {}
     ELSE {[c EXCEPT !.lockfile = IF c.lockfile \in Falses THEN "false" ELSE "true"]}

\* What init accepts every command starts with: between two runs of init no command fails to
\* start unless a run was killed in the middle of the file or the cache has been removed.
StartsAfterInit ==
  spc \in {"idle", "done"} /\ config \notin {NoFile, Torn} /\ (config.cache # "" => config.cache \in caches)
    => NewX # {}

\* init keeps every setting it is given no flag for, but the number of threads, and what it is
\* given is what a command starts with.
InitKeeps ==
  spc = "done" /\ NewX # {} =>
    LET x == CHOOSE c \in NewX : TRUE
    IN /\ x.cache = IF flags.cache = "" THEN kept.cache ELSE flags.cache
       /\ x.partial = (flags.partial \/ kept.partial)
       /\ flags.lockfile = "" => (x.lockfile = "false" <=> kept.lockfile \in Falses)
       /\ flags.analytics = "" => x.analytics = kept.analytics
       /\ (x.user = "") = (x.analytics # "yes")

\* What init accepts commands start with, and it keeps what it is given no flag for
\* (StartsAfterInit, InitKeeps).
SettingsKept == StartsAfterInit /\ InitKeeps
==============================================================================
