CONSTANTS
  Teams = {{"p"}, {"p", "q"}}
  Attempts = 2
  MaxFaults = 2
  MaxKills = 1
  MaxRuns = 4
  MaxTime = 3
  MaxCmds = 3
  MaxInits = 3
  NoFile = NoFile
  Torn = Torn
  NoRev = NoRev
  Tip = "r6"
  Missing = Missing
  Half = Half
  Broken = Broken
  Commands <- MCCmds
  Texts <- MCTexts
  LockChains <- MCChains
  Requests <- MCRequests
  InitFlags <- MCInitFlags
CHECK_DEADLOCK FALSE
SPECIFICATION FilesSpec
INVARIANTS EditsAsTold
