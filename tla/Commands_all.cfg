CONSTANTS
  Listed <- ListedNames
  Branches = {"m", "d", "master"}
  Changes <- AllChanges
  MaxFaults = 1
  RemoteBranch = "m"
  JiriHead <- Heads
  MaxExtra = 2
  Submitted = {"y"}
  NoChangeId = {}
  BranchRepos <- FoundByBranch
  BranchCommands <- BranchGiven
  Checkouts = {"p", "q"}
  BranchOf <- ForBranch
  Topics <- InGerrit
  PatchRepos <- FoundByPatch
  PatchCommands <- PatchGiven
  Pinned <- PinnedTo
  Projects = {"p", "q"}
  Manifest <- InManifest
  UploadRepos <- FoundByUpload
  UploadCommands <- UploadGiven
  Which = {"branch", "patch", "upload"}
SPECIFICATION Spec
INVARIANTS
  BranchKept
  PatchKept
  UploadSafe
  DoneIfNil
