CONSTANTS
  Worlds <- MCWorlds
  Modes <- MCModes
  Present = {"m"}
  MaxPushes = 1
  MaxFaults = 1
  Manifests <- PackageSets
  Host = "linux"
  MaxMoves = 1
  MaxEdits = 1
SPECIFICATION ManifestsSpec
INVARIANTS OneRevision CycleReported Complete LocksMatch PinnedInstalled
