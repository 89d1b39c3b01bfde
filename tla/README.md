# jiri: a TLA+ development

jiri keeps many git checkouts ("projects") under one root in the state that a set of
manifests describes. This directory models the parts of jiri in which something can go
wrong that a test would hardly reach, model-checks them with TLC on small instances, and
proves the most important results with TLAPS for every instance. `PROJECT.json` lists the
components, the runs, the mutants that show each property can fail, the lines of code each
definition stands for, the hazards, the findings and the theorems.

    tlc -workers 2 -config Update_workspaces.cfg MCUpdate     # one run
    tlapm CreateOpsProofs.tla                             # the proofs of one module

## 1. The system

`jiri update` is the centre; the other commands read or change what it keeps in order.

| Part | State it keeps | Operations | Talks to |
|---|---|---|---|
| `project/loader.go`, `manifest.go` | the projects, hooks, packages, overrides and locks read so far; the stack of imports | load, import, clone a manifest's repository, apply overrides and locks | git, the cache |
| `project/project.go` `findLocalProjects` | channels, the map of projects | workers walk the tree below the root | the file system |
| `project.go` `updateCache` | a mutex per cache directory, the tokens of `fetchLimit` | create, clear, fetch a cache | git; a run of updates |
| `project.go` `updateProjects`, `operations.go` | local and remote projects, operations by kind | delete, change remote, move, update, create, null | all of the above |
| `operations.go` `runCreateOperations` | a tree of operations, a queue, a WaitGroup | `jirix.Jobs` workers create projects | git clone |
| `project.go` `syncProjectMaster`, `resetLocalProject` | the state of a project read at the start | check out, merge, rebase, reset, delete branches | git |
| `manifest.go` `RunHooks`, `retry/retry.go` | one goroutine per hook, attempts | run, wait, run again | the hooks |
| `project.go` `WriteUpdateHistory...` | two links to files | write, swap links | the file system |
| `project.go` `GenerateJiriLockFile`, `manifest.go` `FetchPackages` | the lockfiles, the package flags | resolve, ensure, snapshot, check out | cipd |
| `cipd/cipd.go` | the client of a root, goroutines for rights and refs, a semaphore | bootstrap, ask, ensure, resolve | the cipd program, other jiri processes |
| `update.go` | the binary of jiri | download, move away, move in, roll back | other jiri processes |
| `simplemr/mr.go`, `cmd/jiri/runp.go` | channels, a cancel channel, an error; processes and their pipes | map, reduce, cancel, time out; run, kill, print | the commands run |
| `cmd/jiri/branch.go`, `patch.go`, `upload.go` | branches, upstreams, HEAD of each project | delete, check out, cherry-pick, rebase, push | git, Gerrit |
| `cmd/jiri/edit.go`, `import.go`, `override.go`, `init.go` | manifests, lockfiles, `.jiri_manifest`, `.jiri_root/config` | read, change, write anew or in place | the file system; the next command |
| `cmd/jiri/diff.go`, `generate-gitmodules.go` | two snapshots, workers; a prefix tree of projects | compare, ask; drop the nested ones, write | Gerrit |
| `analytics_util` | objects to send, objects being sent, two locks | add, send, wait | a web service |
| `textutil` | a buffer of runes, a line, bytes of an incomplete rune | write in chunks, wrap, flush | help texts |

What is hard here: the order in which operations on nested directories run; workers that
feed the queue they serve; channels that are closed when a counter is zero; a run that is
killed between two renames or two links and followed by another that believes what it
finds; decisions taken on a state read earlier; branches that depend on each other and are
rebased one by one; manifests that are fetched one after the other while others push; two
files that must change together; timeouts, Cancel and interrupts against goroutines still
at work. All of it is listed with its line under `hazards`.

What makes each part correct, in one line:

- loader: all files of a checkout are read at one revision, circles are reported and nothing
  else is, what is loaded is all that is imported, with pins, overrides and locks applied;
- update: no unsaved work is lost, success means the workspace is as the manifest says, the
  snapshot describes what is there, projects taken out of jiri's hands stay as they are;
- create: outermost first, each created or reported once, no send blocks or comes too late;
- scan: finds what a sequential walk finds, reports one of two twins, ends;
- sync, branch, patch, upload: no branch loses commits unless told, HEAD comes back, flags
  limit the reach, nothing is pushed before all is rebased, nil means done;
- cache: one goroutine in a directory, and what a project wants is there on success;
- packages: the lockfile has a lock for what can be read, and what is fetched is what it says;
- cipd: a client that is whole and known, right answers or a failure;
- history, self update, edit, import, override, init: whole files at all times, or as before;
- hooks, analytics: every failure is reported, no success is run again, all is sent once;
- map-reduce, runp: success means complete, output is whole and in order, everything ends;
- reports: the text, the submodules and the differences are those of a plain definition.

## 2. Modules

Each module says at its head which functions it stands for. A variable has the name it has
in the code where there is one; a definition that stands for code is under `map`. Variables
marked "history" record what happened for the properties and steer nothing. Definitions that
stand before the one they differ from and are used nowhere (such as `FirstReceived` before
`AllReceived` in Cipd) are the mutants: variants of the code with one plausible mistake.

### Update and its workers

**CreateOrder** is the abstract order of creation: an operation may be created or refused
once all around it are created, and is dropped with the ones around it. **CreateOps** is
`runCreateOperations`: `queue`, `errs`, the WaitGroup and the workers, one action per channel
operation or effect on the disk. Workers are anonymous tasks over nodes of the tree of
paths. CreateOps implements CreateOrder (property `ImplementsOrder`, an INSTANCE with the
sets of created, failed and abandoned operations).

**Update** is a sequence of runs of `jiri update` over a file system of nested checkouts.
Its strings are sequences of numbers with a separator, so that "lies under" and "begins
with" are different things, as they are in `runMoveOperations`. `Load` finds the
local projects (from the latest snapshot, or by a scan), `Test` computes and tests the
operations, then one action per operation and phase (`Move` and `MoveIn` are the two
renames by way of the swap directory), `Status` and `Snapshot`; `Crash` may come between any
two, `UserWorks` between runs. A project's branches, changes and untracked files are one
fact: whether its tree has unsaved work. Creates are atomic here since CreateOps has their
interleaving; `Ready` requires what CreateOrder promises.

**ScanProjects** is `findLocalProjects`: workers, a sender per directory, two drains, the
mutex and the closing of three channels; a directory may be one that cannot be listed, with
a project in it ("sealed") or without, and the rename of an old metadata directory is one step
with the look at it; `taken` is the history of what workers took from
the channel, and `Reach`, what a sequential walk comes to, is a least set. **Cache** is
`updateCache` and `updateOrCreateCache`: a goroutine per project, tokens, a mutex per
directory, the state of each cache on disk, the git commands that remove and write anew its
`remote.origin` one by one, failing commands, kills, and pushes to the
remotes in between. Its properties range over the projects of the run (`DOMAIN pc`), which
MCPools chooses. **RunHooks** is `RunHooks` with `retry.Function`, attempts, waits and
results.

**Loader** is `LoadManifestFile` and `LoadUpdatedManifest`. The recursion of `load` is a
stack of frames, and each call that may fail or that others can come between (the fetch
of a manifest's repository, the read of a file) is a step. A world gives the content of the
files at each revision, with the packages they declare and the projects that their
hooks are for (an invalid hook counts as one for no project); `Push` moves the
remotes. Files beside the root manifest belong to
no repository. A checkout has what was fetched (`known`) and a working tree (`tree`), which
differ when its files are read at the branch of the remote; `late` are the projects that were
read before an import or an override of them, and may miss its revision for that.

**Packages** is the way of package versions from the manifests into lockfiles
(`GenerateJiriLockFile` with the merge of old and new locks), snapshots and what is
installed, while refs move and access changes. **Cipd** is what lies below: the client that
processes of one root share, one goroutine per package that asks, the semaphore, the
unbuffered channel, `cipd ensure` with its timeout.

### Projects and branches

**Revisions**: a revision is an upstream revision and the local commits on top of it, so that
a rebase is a function. **SyncProject** is `syncProjectMaster` and `resetLocalProject` for one
project; `seen` is the state read at the start, which the code goes on using. The loop over
the branches is a set of those still to come, taken in the order in which git lists them; the
branches a branch tracks, directly or by way of others, are a least set (`Tracked`), so that
there is no recursion in the module.

**GitRepo** is a repository as a record and every git function the branch commands use as the
set of its outcomes, with an error among them; the branch of the remote that a branch comes to
by the branches it tracks is a least set. **BranchCmd**, **PatchCmd** and **UploadCmd** are
the commands over it, one git command a step, so that what was read before one is stale
after it. **Commands** composes them, each behaviour being one command (`cmd`) on some
repositories, and states what a success of a command promises (`DoneIfNil`); MCCommands gives
the instance.

### Files that are replaced

**SelfUpdate** is the replacement of the binary by the processes of one of `Teams`;
**UpdateHistory** the file and the two links a run leaves; **EditCmd** the edit of a
manifest in memory, an element a step, and then of the lockfiles above it, with the way back;
**ManifestCmd** import and override by way of a temporary file; **Settings** `init`, whose
file is written in place, and `NewX`, which reads it; a flag is a Boolean in any of the spellings
of `strconv.ParseBool`.

### Commands run in parallel

**SimpleMR** is `MR.Run` with mappers, the reducer goroutine, the timer, a producer and a
consumer of the channels, and Cancel by a mapper, the reducer or another goroutine. The keys
still to be reduced are a set of which the smallest comes next; `reduced` is the history of
those that were. **RunP** extends it: the mappers start processes, wait for their ends or for
Cancel, copy their pipes with or without prefixes, and the reducer prints what was collated
in the order of the keys, whatever the order in which `runp` sent the projects.
**AnalyticsSession** is the end of every command: two locks, a goroutine per object, the wait.

### Pure algorithms and reports

**WrapWriter** and **ChunkDecoder** translate the line wrapper and the decoder of chunks a rune
at a time and compare them with a definition of the result; **SubmoduleTree** has the prefix
tree of projects with its order of insertions and drops; **DiffCmd** the workers that ask
Gerrit for the changes between two revisions.

### Instances

Modules `MC...` give the small instances, modules `...Proofs` the theorems. A run often asks
one question of several instances: the MC module then has a variable, constant in each
behaviour, that names the instance (`ws`, `use`, `part`, `cmd`), takes the component with, say,
`U(u) == INSTANCE SimpleMR WITH ...`, and lets `Init` choose; the variables of the others
are frozen at a fixed value. Such a module puts side by side components that share no
state but a question: MCFiles asks whether a file replaced in steps is there at all times,
MCPools (over **Pools**, which has the scan, the caches, the hooks, cipd and the analytics)
whether what goroutines hand in is complete and on time, MCProjects (over MCSyncProject)
whether a checkout and what is written of projects are what a plain definition says.

## 3. What the runs show

Passing runs, with the bounds that make the interesting cases happen:

| Run | Instances | Shows |
|---|---|---|
| create | 5 operations: the root, two on one path, one in a directory in use, one two levels below; 2 workers | the pool implements CreateOrder, never waits for room, ends, loses no error and nothing it created |
| mr | 3 records, 2 keys, 2 mappers; Cancel from inside, or from another goroutine, or a timeout with a producer that may stall; runp with processes that fail, do not start, are killed, and an interrupt | a success is complete and an inside Cancel stops the reducer; what runp prints is whole, in order and complete; Run and its mappers end |
| update | "nested": 3 projects in one another, moved together or apart, deleted or replaced; "siblings" and "ignored": names that begin alike, swaps, a new remote and `NoUpdate`, or with the project I that is ignored; "dropped": a `.gitignore` hides the nested project, both may go, `-gc`; "crowded": a move to a place just taken; 2 runs, 1 kill, 1 fault | unsaved work survives; as long as no run was killed, success is consistent and the snapshot true; the ignored project stays, the swap directory is emptied, runs end |
| commands | branches w and c with any tips, tracking the remote, each other or nothing; 2 projects, stacked changes, every flag of branch, patch and upload; 1 fault | no change is lost unless told, HEAD is back, nil means done, all is rebased before the first push |
| manifests | the files a and c of repository m and b of repository n in chains, diamonds and circles, rooted, local, pinned, overridden, locked, 1 push, 1 fault; a package in two files; two packages, one a template for two platforms, 1 moving ref, 1 edit, 1 fault | one revision per checkout, circles found and no others, the load complete; locks match the manifests, what is installed is what is pinned |
| files | 2 processes that update jiri, or 1, 2 attempts, 2 faults, 1 kill; 4 runs in 3 seconds that turn the links; 3 imports and overrides; an edit of 5 elements with up to 2 lockfiles; 3 inits | a whole binary remains, a link is left in order on a whole snapshot, `.jiri_manifest` and an edit are whole, what init accepts starts |
| pools | the scan of three trees of 6 or 7 directories, some of which cannot be listed; full and shallow caches of 2 and 3 projects, 2 tokens, 2 runs, 1 fault, 1 kill, pushes in between; 2 hooks, 3 attempts; a fetch and a resolve of 2 packages that share a client, 1 place, 2 attempts, 1 fault, 1 kill; 3 objects to send | scan complete and quiet when closed, mutual exclusion in caches and what is wanted is there, hooks' failures reported, cipd whole and its answers right, all sent once, everything returns |
| projects | a checkout: 2 branches, every upstream, all flags, both cleans, files in the way, rebases that stop midway, one failing abort; reports: every text of 6 runes at widths without limit, 0 and 3; every text of 5 bytes in every cut; up to 4 projects over 8 paths; 2 snapshots, up to 2 changes each, 1 or 2 workers | the reach of the flags, no commit lost or spread, HEAD restored, a success did its work; what is written is that of the reference definitions |

Why the bounds are enough: the code treats projects, branches, hooks, packages and
directories alike, and a hazard here involves two of them and what lies between, so that
three of a kind show an interleaving with a bystander; two runs or three commands show what one
leaves to the next; one kill and one or two faults separate "fails" from "fails while
making good a failure". Circles of imports need two files of one repository and one of
another, to go through a remote, a root and a local file. A line of width three has a word
that fits, one that just fits and one that is too long, with the spaces between. The
proofs of section 4 do away with the bounds for the safety of all components but the two
algorithms on text.

`CHECK_DEADLOCK FALSE` stands in `Pools.cfg`, `Files.cfg` and `Files_edit.cfg`: there
behaviours end when the functions have returned. The other modules have an explicit step for
that, so that a deadlock is found where it is none.

Runs that find a violation, each against a sentence of the repository (quoted under
`findings`):

| Run | What the code does |
|---|---|
| mr_error | a Cancel that the mappers notice first makes Run return ErrMRCancelled while `Error` returns nil, and `jiri runp` succeeds |
| update_covered | `-gc` deletes a project still in the manifest with the one around it, if that one's `.gitignore` names it |
| clean_dirty | a clean of a project that is at JIRI_HEAD already keeps its uncommitted changes |
| edit_pinned | an edit replaces the first place in the file where the old revision stands, in whatever element |

Other behaviour of this kind that came up while modelling. The first group can be seen in
the models: the property of the passing run is stated so as to leave it out, and says where.
The second lies in code that is abstracted.

- SimpleMR: with a timeout the output is closed under a reducer still at work; a Cancel from
  another goroutine between the look at IsCancelled and the start of the reducer does not
  stop it. RunP: with `-exit-on-error` or an interrupt jiri ends as soon as Run closes its
  output, whatever the reducer has left to print; Cancel panics on a command that was not
  started, and before Run has made its channel.
- Update: an ignored project is moved along with the one around it (so `IgnoredStay` is about
  those that lie in no other, and run update has none that does); a move whose source
  begins, as a string, with the one before it is looked for in the wrong place; success is
  reported although a project that was to stay has been carried away and another one has
  taken the place around it; after a kill before the snapshot, a fast run takes one
  project's tree for another's.
- SyncProject: with `-rebase-all` on a detached HEAD that cannot be checked out an update
  panics. A rebase that an untracked file stops is not aborted, as `RebaseAbort` looks at git
  status (git.go:1148) before it asks whether a rebase is under way: the update counts a
  failure, returns nil and leaves the project detached in the middle (`midway`). A clean of all
  branches cannot delete the one HEAD is on. It deletes master with the others, as the help
  of `-clean-all` says (cmd/jiri/project.go:33, "delete all branches"); the comments at
  project.go:1534-1535 and 1580 and the text of the command (cmd/jiri/doc.go:291) would have
  it kept. `CleanRestores` states what the code does. A branch whose upstream was
  deleted before the command is not modelled (git.go:222-237 gives it a name to track without
  a revision, or no branch anything to track if no upstream is left).
- Cache: killed between the removal of the section `remote.origin` (project.go:2125) and the
  setting of its url (2129), jiri leaves a full cache that its next run takes for a corrupted
  one, clears and clones again (2222-2228): a cache in this state is "stripped". `Kept`
  excepts it, and caches on which a git config has failed; `Configured` says that nothing else
  leaves a cache without the section. A removal that stops half-way is taken to leave what
  git does not take for a repository.
- RunHooks: the timeout of the whole operation is given to every attempt; the interval between
  attempts, nanoseconds taken for seconds, is always the maximum. A timeout is
  compared with an error that `retry.Function` has wrapped (manifest.go:1243), so that after
  more than one attempt the error no longer points to `-hook-timeout`; no property is about that.
- Loader: duplicates are compared with the path of their manifest, so that identical entries
  of two files are an error; the tag of a project that is read before the import of its
  repository misses the pin; two rooted checkouts of one repository may be read at
  different revisions.
- Packages: without access to one of two versions of a package `GenerateJiriLockFile`
  empties the lockfile and returns nil (`HiddenVersion`); a partial resolve keeps the path of a
  lock that moved; the check for conflicting versions of a lock cannot find any; a fetch that fails after cipd
  was run may have installed the packages and written some of the flag files.
- Branches: `branch -d` returns nil with failures; `RemoteBranchName` does not end on branches
  that track each other; `upload -rebase <ref>` rebases HEAD and pushes the ref; of sibling
  changes of one topic `patch` applies one; with `-no-branch -branch X` a cherry-pick that
  fails deletes the user's branch X.
- EditCmd: the backups of two lockfiles have one name, so that the way back gives one the
  content of the other (`EditsKept` asks where at most one matches).
- Settings: a kill leaves a part of the settings and no command starts any more;
  `-offload-packfiles=false` turns nothing off; every init resets the number of cipd's threads.
- Cipd: a process whose self update and download failed takes the old client at its second
  attempt without an error; only `ensure` has a timeout.
- WrapWriter: an end of line after a space keeps a place of its own, so that a word that
  would fit begins a new line; `WrapRight` counts such places (`Reserved`) when it asks that
  lines be filled as far as they can. SubmoduleTree: with `-redir-root` a project below
  the mirror of the root is not taken for nested, nor is the mirror itself below a project.
- In code that is abstracted: a kill between the clone of a cache and the next git command
  leaves one that no later run gives `uploadpack.allowFilter`; two processes that write
  `.jiri_manifest` at once use one temporary file; `override -delete` takes any import for the one of
  `-import-manifest`; `parseVersions` drops a last entry that is cut off; `diff` looks at
  one project's GerritHost and asks the other's; a prefix is missed at a line separator that is
  cut by two writes.

Fairness. There is weak fairness only, stated in the specifications whose runs check
liveness. A goroutine that can take a step takes one, since the Go scheduler is preemptive;
commands of git and hooks end (hooks by their timeout, and `cipd ensure` by its own: nothing is
assumed of its end but the timeout); the other commands of cipd and the server that
analytics are posted to are assumed to answer, as the code has no limit for them. A timer
fires; a run of jiri goes on. The consumer of SimpleMR is fair (`runp` reads its output),
the producer is too except where there is a timeout; the processes of runp end. No fairness
is given to kills, faults, interrupts, Cancel from outside, pushes or the user. A goroutine
takes the mutex of Cache at most once in a run, so weak fairness is enough for it, and so it
is for the semaphore of Cipd, which a process takes once for each package, and for
the lock of AnalyticsSession.

## 4. What is proved

Each module `...Proofs` proves, for each of its components, an inductive invariant and what
follows from it. The theorems hold for every value of the constants that the assumptions of
the component's module admit. The invariant says more than the property, since a step that
breaks the property is several steps after the one that made it possible.

**CreateOpsProofs**, for any set of operations, any tree of paths and any number of workers.
Every operation is claimed by at most one holder (the queue, a worker, a reported error), what
is held is ready to be created, and the WaitGroup counts exactly the holders. "No send
blocks" does not follow from the types: the queue has a place for each operation, and only
disjointness of the subtrees that are queued bounds their number (`ChildrenDisjoint`,
`RoomOnQueue`, `RoomOnErrs`). From it follow `TypeCorrect`, `SendsNeverBlock`,
`ClosedQuietly`, `OutermostFirst` and the action property `NothingCreatedIsLost`.
`PoolImplementsOrder` is the refinement: under the mapping of `ImplementsOrder` each step of
the pool is a step of CreateOrder or stutters. Its invariant `OrderInv` adds that nothing is
created untried, and that each operation is created, claimed, or at or below a failure.

**UpdateProofs**, for any workspace, manifests and bounds: `TypeCorrect`, with a lemma for
each action, and four results, each with a hypothesis on the workspace that the code needs.

- `WorkNeverLost`: if no `.gitignore` hides nested projects (`Covers = {}`) no unsaved work is
  lost, through any failures and kills. Its invariant adds that work is only in checkouts
  (`WorkInCheckouts`); the one step that removes anything is the deletion, and
  `DeleteKeepsWork` shows that git's answer then covers all below it. Run update_covered is
  the counterexample without the hypothesis, where only the projects still in the
  manifest are at risk (run update, workspace "dropped").
- `SwapLeftEmpty`: if no project has a place in it, the swap directory is empty after every run,
  as long as nothing has failed outside jiri (`faults = 0`, `crashes = 0`). Between the
  two renames it holds what the first has put there and nothing else, and nothing is left at the
  source (`SwapUsed`), so that the way back after a collision empties it.
- `IgnoredLeftAlone`: if no other project has a place at or around one of an ignored
  project's (`IgnoredApart`), no step touches it. Runs know of no places but those of the
  start and the manifests (`KnownPlaces`), so no operation of another reaches its trees
  (`IgnoredPlaced`). The hypothesis is needed, since a project moves with the one around it.
- `WorkspaceStaysTrue`: as long as no run was killed, a success has every project of the
  manifest that is not ignored in its place, and what a fast run reads from the latest
  snapshot is what a scan would find. Its hypothesis `Orderly`: no `.gitignore` hides
  projects, none has a place in the swap directory, no two start in one place, one that gets
  a new remote has one place, and one that has several is alone there, nothing lying in,
  around or at one of them. Projects may be nested and may go away, appear and be replaced
  at will; those that move have to move past the others. Its invariant `OrderInv` follows a
  run through its phases: an operation still to come finds its project where the run has
  found it, and one that is done has left its project where the manifest wants it
  (`OpsInOrder`), a move under way has it in the swap directory or at its end
  (`MoveInOrder`), the path of the parent that `runMoveOperations` carries along is that of
  a move already done (`ParentDone`), no project has two homes (`OneHome`), and the map of
  local projects is true when it is computed (`IsMap`). Where a project moves around another
  one consistency can fail (section 3), and TLC checks it for the manifests of run update,
  which go beyond the hypothesis: "nested", "siblings" and "ignored" swap places and move
  together. Without `crashes = 0` TLC finds the run after a kill that takes one project's
  tree for another's.

**ManifestsProofs**, about Loader for any files in any revisions (`Worlds`), modes, pushes
and faults. `ReadAtOneRevision`: what was read of a checkout is what the ref fetched for it
gives, then and since (`RefsStay`). `CirclesAreReported`: the stack is a path of imports
without a repetition (`StackOrder`), what has left it imports only what has left it
(`EdgesDown`), and so no set of loaded files imports in a circle (`NoCircle`, stated of
sets: each set of loaded files has one that imports none of it). `SuccessIsComplete`: what
each frame has come to was followed, and its projects are gathered as overrides, tags and
pins so far want them (`Progress`); locks come last.

The same module, about Packages for any packages, manifests, refs and access.
`LocksFitManifests`: a resolve that succeeds leaves a lock for all that can be read, of
nothing that is not in the manifests, and a tag's lock is its instance (`LocksInv`); the
case that the code gets wrong, a version hidden behind a readable one, is left out by name
(`HiddenVersion`). `PinsAreInstalled`: after a fetch, or a checkout of a snapshot, what is
at the path of a package is the instance that the lockfile, or the snapshot, says, though
refs, manifests and access change (`InstalledInv`: what is pinned has one instance of a
name). Its hypothesis `PathsApart`: no two packages of a manifest have one path, since what
is installed is told by path here.

**ProjectsProofs**, about SyncProject for any branches, chains of upstreams, flags, commits and
faults. `UpdateKeepsBranches`: a branch the loop has not come to, or may not move, is where it was,
and one that was moved has its own changes and only those of the branches it tracks
(`Moved`). `HeadIsRestored`: what the deferred function of an update checks out is where HEAD was,
whatever the loop did in between, unless a rebase was stopped and not aborted (`Stage`,
`OnIt`); a clean deletes branches only after the forced checkout and `git clean`, so when the
last is gone HEAD and the files are as it promises (`CleanedUp`).
`UpdateBringsForward`: a branch was brought forward, is still to come, or there was a
failure (`BroughtOn`). A rebase is a function on sequences of
changes; the lemmas on `Range` (`WithoutRange`) say that it neither loses nor doubles any.

The same module, about SubmoduleTree for any projects at any paths. `SubmodulesAreRight`:
the nodes of the tree are the projects that stay in it, each at its path (`NodesRight`), of
these none is under another (`KeptApart`), and one that was dropped is under one of those
that stay, not under one that was dropped after it (`DroppedCovered`): a project that drops
others takes over what they covered. Entries come in the order of keys, so of two at one
path the first stays. Its hypothesis `MirrorAtTop`, that no project can be above the mirror
of the root, is needed: the code looks for a project in the mirror's place only, and a root
project with a slash in its name would have its mirror below a directory that a project may have.

And about DiffCmd, for any snapshots, histories, maximum and workers, with `-cls` and
without. `DiffIsRight`: no two
projects of the first snapshot get one key when it is matched with the second (`NewKeyOnce`),
so none is lost and the numbers add up (`MatchedIs`, `CountBoth`), and what stays deleted has
nothing in common with what stays new (`MatchedRight`). A project to report is in the channel
of keys, with one worker, or reported (`OnePlace`), and a worker's changes lead from the new
revision to where it is, through no old one (`WalkOf`). `DiffAssumption`, that a snapshot has
one project of a key and one at a path, is what a snapshot written by jiri has: the keys are
those of a map, and the projects those of a checkout, one to a directory.

**CommandsProofs**, about the branch commands for any repositories, branches, chains of
upstreams, changes, flags and outcomes of git. Each function of GitRepo has a lemma that says
what it may do to a repository, failing or not (`RebasedTo`, `MovedTo`, `DeletedTo`,
`CreatedTo`, `PickedTo`, `TracksRemote`), and the three commands are built on those.

- `BranchesAreKept`: `BranchInv` says that the listing still describes the branches to come
  though others were deleted since it was read (`Listing`), that a change of a branch that
  was there is on a branch, at HEAD, at the remote or merged by Gerrit (`ChangesSaved`), and
  where HEAD is whenever nothing has failed (`HeadInv`).
- `UploadIsSafe`: nothing is sent before the last rebase, and a project rebased is on top of the
  branch it goes to and stays there (`UploadStage`, `OnTop`), while a rebase, ended, aborted or
  stuck, keeps every branch with its changes (`UploadKeeps`).
- `PatchIsKept`: at any step every change of a branch there was can be reached, and without the
  branch that is being made (`AllSafe`, `SafeBut`), projects still to come are
  untouched (`Untouched`), and those given up are back (`LeftBack`). `Stage` says, for each
  point of a project's patch, what of this holds and where the way back leads (`BeforeBranch`,
  `BeforePick`).
- `CommandsComplete` is about `nil`: patch has all of a chain of changes at HEAD
  (`AllFinished`, `Covers`), since of a chain the last commit has all the others below it
  (`TopCovers`), and upload has sent for every project that was meant all that the ref had
  at the start, to the branch that HEAD's tracks (`Progress`, `Matches`, `Delivered`).

**FilesProofs**, about SelfUpdate for any number of processes, attempts, failures and kills.
`JiriIsKept`: there is a whole binary in jiri's place, or one beside it. The binary a
process replaces may be one another process has moved; the invariant is that from the first
time there is nothing in jiri's place, somebody's new binary is whole and nobody will move
it but to that place (`Left`, `Spare`). That the failures that the code makes good end well
is `Placed` and, for a process without others, `Alone`.

The same module, about UpdateHistory for any number of runs, failures, kills and seconds.
`LinksAreKept`: once a run has ended one link is left at all times (`OneLeft`), since a run
takes one away only where the other is there (`RunSteps`), and `second-latest` is never the
newer. Snapshots and logs have that for different reasons: a hard link keeps what it led to
though the name is written again, so no temporary file may be under a link or the name of a
snapshot (`HardLinks`); a symbolic link follows the name, so later names must be of later
runs (`SymbolicLinks`). And about Settings, for any flags and any sequence of inits, kills
and removals: `SettingsAreKept`, where what is in the file passes the checks of the next
command unless it is torn (`Sound`), as the flags were checked before they were applied
(`Checked`).

The last two are about the text of manifests. `ManifestIsKept`, for any imports and overrides,
however many and wherever each is killed or fails: the manifest is always what the command
that wrote last made of what it found (`Made`, kept in `ManifestInv`), and no default is
written in it and no two overrides have one key (`WellFormed`). So what a delete finds is
what the add before it left, read again with its defaults; the entry added is the last one
and the only one the delete is about (`DeleteUndoesAdd`), all others keep place, order and
defaults (`WithoutLast`, `FilledBack`). Its assumption, that what is added has a remote, is what the
usage of both commands asks for: in the model no remote means that none was given.

`EditsAreKept`, for any manifest, lockfiles and flags. While the elements are looked at one after
the other, every change reported is of one that has been looked at, and the text in memory is
the old one with those changes (`Rolling`). That needs that the revisions are apart (`Apart`),
and then the first place where the old revision stands is in the element itself
(`OnlyPlace`); run edit_pinned is the counterexample without it. The lockfiles are edited
in order (`EditedInOrder`), and if at most one names a project edited, the only backup there
is holds what that one was (`BackedUp`), wherever the command fails.

**SimpleMRProofs**, for any records, keys, capacities, mappers, and whoever fails, cancels or
times out. `ReducesRight`: a record that is in no channel is with one mapper, in the store, or
lost by a mapper whose error Run has still to receive (`Failed`, `Accounted`, `EndedWell`;
`Counted` ties Run's count to the mappers that have ended), and each key has been reduced
once, is next, or comes later (`Reducing`, `Sorted`). `RunPTellsAll` is about RunP on top of it:
an output that is printed is whole and of a command that was not killed (`Handled`, `Killed`,
`Printed`), whether or not the kill came too late and returned an error of its own.
Its hypothesis `ProjectKeys`, that projects have keys of their own, is what
`project.Projects`, a map by key, gives.

**PoolsProofs**, about Cache for any projects that share caches in any way, remotes, tokens,
faults, kills, pushes and runs. `CachesAreReady`: while a goroutine is in a cache no other
is (`Locked`), so what it found there stays true until it leaves (`Stage`), and a project
that is done finds what it came for though others then work in the cache (`ServedWhenDone`,
with `Grown`: a branch only grows). `CachesAreKept`: no step takes objects from a cache but
of one on which a git config failed in this run or which was found without its
`remote.origin`; and it proves `Configured` with it, that a cache is in that state only
while the goroutine that holds its mutex is between the two commands, or after a kill or a
failure there (`Origins`). `TypeCorrect` counts the tokens against the
goroutines.

The same module, about ScanProjects for any tree of directories and any number of workers.
The counter of the WaitGroup is what is on the channel or on its way there, with a worker or
with a sender (`Counted`), so that at zero nothing is left: `ClosedWhenQuiet`. As each
directory has one parent it is on the channel, about to be sent or with a worker once, and
below one that has not been listed, or cannot be, nothing has been handed out (`OneHand`); so two workers
never have one directory, a project is never its own twin, and what became of a directory
that was taken is known for good (`Known`, `Right`, `Handled`, `Within`): `ScanIsComplete`
and `TwinsAreReported`, all of which is `ScanIsRight`. `ScanAssumption`, that the
directories form a tree, is a hypothesis of these theorems; TLC evaluates it for the trees
of run pools (`TreesAreTrees`).

`HandedInRight` is about two components. RunHooks, for any hooks and attempts: a goroutine has
run its hook as often as its attempt says, goes on after a failure only, and hands in what the
last run came to (`HookInOrder`), so the error tells all hooks that failed, and no others
(`ResultsIn`). AnalyticsSession, for any number of objects: an object is in the map, in
the hands of the one goroutine that holds the mutex, or posted (`Holding`, `InHand`), and each
one not yet posted is waited for (`Awaited`), so that all is sent, once, before the command ends
although two goroutines may have been started for one object.

`CipdIsRight` is for any processes, packages, faults and kills. A process that has been through
the update of the client has the current one or has failed to get it, whatever others do
to it meanwhile (`ClientOf`); an answer is what the backend said to that question or a
failure (`QueryOf`); and a decision has all answers behind it (`DecidedOf`). The client is
never torn or foreign, as it is renamed only after its digest was compared.

Only model-checked:

- liveness (`Terminates`, `AllEnd`, `RunsEnd`, `AllReturn`), which has no proof rules for
  fairness here;
- `WrapRight` and `ChunksRight`, the two algorithms on text against their reference
  definitions, which are recursive and need induction over data;
- consistency, and ignored projects, in workspaces outside the hypotheses of the theorems.

## 5. What is not modelled

Three components are not modelled: `cmdline` (parsing of flags and help, a sequential walk
over a static tree), `support` (helpers of one step) and `test_support` (fakes). The notes
of the others in `components` name what they leave out. Mostly this is one of:

- the network and its protocols: git's objects and transfer, partial clones, Gerrit's requests
  and cookies, the download and unpacking of a version of jiri. The models take the
  result, or its failure, as a choice;
- formats: the XML of manifests, the JSON of lockfiles, templates of what is printed. A
  property is about a format only where it decides what the next command reads (edit,
  import, override, settings);
- commands that read the workspace and print: status, grep, project, manifest, package,
  source-manifest, version, the listing of branches;
- optional projects and attributes, which filter what is loaded by a static set;
- two jiri processes in one root other than in SelfUpdate and Cipd: the code has no lock, and
  every file is at risk.

## 6. Plan

What the models allow to be proved next: the consistency of Update where a project moves
together with those in it (`OrderInv` would follow whole subtrees instead of single homes).

Then, as models: optional projects in Update and Loader, CleanupProjects over many projects,
the writers of prefixes, fetchAll with the swapped URL under kills.
