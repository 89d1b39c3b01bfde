CONSTANTS
  P = P
  Q = Q
  R = R
  I = I
  Projects = {P, Q, R, I}
  Start <- NestedStart
  Manifests <- NestedManifests
  Moved = {}
  Ignore = {I}
  NoUpdate = {}
  Behind = {P}
  Covers = {}
  Edited = {Q}
  GC = {TRUE, FALSE}
  Copies = 3
  MaxRuns = 2
  MaxCrashes = 1
  MaxFaults = 1
  Workspaces = {"nested", "siblings", "dropped", "crowded", "ignored"}
SPECIFICATION WsSpec
INVARIANTS WorkSurvives WorkspaceTrue SwapEmpty
PROPERTIES IgnoredStay RunsEnd
