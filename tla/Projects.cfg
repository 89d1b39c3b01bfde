CONSTANTS
  A = A
  B = B
  Order <- Two
  Top = 2
  Bases = {0, 1}
  Commands <- AllCommands
  Targets = {1}
  Places = {A, "JIRI_HEAD"}
  MaxFaults = 1
  Keys <- MCKeys
  Paths <- MCPaths
  MirrorPath <- MCMirror
  Snapshots <- MCSnapshots
  Normal <- MCNormal
  Histories <- MCHistories
  MaxCls = 2
  Jobs = {1, 2}
SPECIFICATION ProjectsSpec
INVARIANTS BranchesKept HeadRestored UpToDate WrapRight ChunksRight TreeRight DiffRight
