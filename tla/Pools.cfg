CONSTANTS
  Projects <- Everyone
  Dir <- DirOf
  Pinned = {"pinned"}
  Shallow = {"d3"}
  Default = {"head", "other", "main"}
  Jobs = 2
  MaxTip = 2
  MaxFaults = 1
  MaxKills = 1
  MaxRuns = 2
  Places <- AllPlaces
  Tops <- Roots
  Tree <- TreeOf
  Kids <- KidsOf
  Kind <- KindOf
  KeyOf <- Keys
  Workers = {"w1", "w2"}
  Hooks = {"h1", "h2"}
  Attempts = 3
  Interval = 5
  Unit = 1000
  Procs <- Users
  Fetching = {"fetch"}
  Packages <- Asked
  Slots = 1
  Begins = 2
  MaxCipdFaults = 1
  MaxCipdKills = 1
  MaxObjects = 3
CHECK_DEADLOCK FALSE
SPECIFICATION PoolsSpec
INVARIANTS ScanRight CacheReady HandedIn CipdRight
PROPERTIES Kept AllReturn
