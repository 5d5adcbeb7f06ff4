# Formal models of go-vcs

TLA+ models of [go-vcs](../src), the TLC runs that check them, and theorems
about them with proofs that TLAPS checks. `PROJECT.json` holds the details: the
parts, the runs, the map from definitions to source lines, a mutant of the code
for every checked property, the findings, the hazards and the theorems.

## 1. The system

go-vcs is a Go library that reads Git and Mercurial repositories behind one
interface (`vcs/repository.go`). What keeps state, and where it is hard:

| part | state | operations | hard because |
|---|---|---|---|
| `vcs/gitcmd/repo.go`, `Repository` | a directory, an `editLock sync.RWMutex` | reads (`ResolveRevision`, `Branches`, `Tags`, `GetCommit`, `Commits`, `Diff`, `BlameFile`, `MergeBase`, `Committers`, `ListFiles`, `Search`), edits (`UpdateEverything`, `fetchRemote`), and both (`CrossRepoDiff`, `CrossRepoMergeBase`) | goroutines share a handle; a method runs several git commands; the lock is taken again by nested calls; the other repository's lock is not taken |
| `gitFSCmd` in the same file | a commit, the handle and its lock | `Open`, `Lstat`, `Stat`, `ReadDir` | `Stat` calls `Lstat` and `Open` calls `Stat` with the read lock held |
| remote options in the same file, `vcs/internal/script.go` | temporary key, password and script files, `cmd.Env` | `Clone`, `UpdateEverything`, `makeGitSSHWrapper`, `makeGitPassHelper` | each step may fail; what has been deferred by then decides what is left; `log.Fatalf` |
| `Search` in the same file | a process, a pipe, a goroutine, a channel, results | start, read, kill, wait, return | limit and offset at result boundaries; a process blocked on a full pipe; two kills |
| the branch filter in the same file | the branches that pass | `MergedInto`, `ContainsCommit`, `allows` | two commands and a listing, which must be of one moment |
| `parseRemoteUpdate`, blame's ranges | none | text to records | formats and ranges |
| `vcs/hg/repo.go` | a changelog index, tags and heads read once by `Open` | `Commits`, `Branches`, `Tags`, a manifest file system | paging in a loop with three exits; reads of different moments in one handle; file logs from the disk under an old manifest |
| `vcs/hgcmd/repo.go` | a directory; for `BlameFile` a process and two pipes | one `hg` command for each method | paging by revision expressions; two pipes read one after the other |
| `vcs/git/repo.go`, `vfs.go` | a handle of a Git library over a gitcmd handle | `ResolveRevision` and others with fallbacks, a file system | no locking, by its own comment; four lookups for one answer; a second implementation of the same tree |
| `vcs/ssh/server.go` | listener, `closed` flag, connections, processes | `Start`, accept loop, `Close`, channel handler, `attachCmd` | four goroutines and a process for a session; Close races the loop |
| `vcs/open_clone.go` | two maps | `RegisterOpener`, `RegisterCloner`, `Open`, `Clone` | which package's handle a program gets depends on its imports |
| `vcs/util/tracer` | a wrapper | `Wrap` | ten cases over nine optional interfaces |
| `cmd/go-vcs` | arguments, one handle | fifteen subcommands | unchecked type assertions and arguments; answers used in later calls |
| `vcs.pb.go`, `vcs/util`, `vcs/ssh/hostkey.go` | none | generated code, helpers, parsing | |

The parts meet in few places: `hg` embeds `hgcmd` and `git` embeds `gitcmd`;
`CrossRepoDiff` reads another handle's directory through `GitRootDir`; the command
line tool gets its handle from the registries; every implementation talks to the
world by running `git` or `hg` in a directory. What these commands do is
modelled from how the code uses them.

What makes each part correct is stated below as the properties of its module;
the hazards they are for are in `PROJECT.json`, each at its line.

## 2. Modules

| module | models | lines of thought |
|---|---|---|
| `RWMutex` | Go's `sync.RWMutex` (external) | a waiting writer turns later readers away, even one that holds the lock; `Unlock` lets the readers it turned away in first |
| `GitcmdRepo` | `gitcmd.Repository` and `gitFSCmd` | extends `RWMutex`; a call is a stack of the functions that take the lock |
| `AtomicRepo` | what a handle promises | edits happen at once, all that one call reads is the heads at one moment |
| `RemoteAuth` | `Clone` and `UpdateEverything` with remote options | one step for each file made or removed |
| `GrepSearch` | `Search` | process, pipe, goroutine and caller |
| `SshServer` | `ssh.Server` | the accept loop and `Close`; for a session its handler, three copies and a process |
| `HgLog` | `hg`'s `Commits` | a machine with one step per turn of its loop |
| `HgFiles` | `hgFSNative` and `hgFSCmd` | functions of a manifest and the file logs with their records |
| `HgBlame` | `hgcmd`'s `BlameFile` | the caller, the Python process and two pipes |
| `HgRepo` | an `hg` handle and its directory | composes the three: what `Open` reads, what the methods answer from it, pulls in between |
| `GitFiles` | `filesystem` of `vcs/git` and `gitFSCmd` | functions of a commit's tree |
| `GitRepo` | `git.Repository` over `gitcmd.Repository` | callers' lookups, one command at a time, and an update that moves a ref at a time |
| `Handles` | the registries and the tracer | the order of init functions, wrapping again and again |
| `Program` | `cmd/go-vcs`, and programs like it | composes `GitRepo` and `Handles` |
| `GitcmdRepoMC`, `RemoteAuthMC`, `HgRepoMC`, `ProgramMC` | values and symmetry for TLC | |
| `GitcmdRepo_proof`; `GitcmdAtomic_proof` and `GitcmdCross_proof`, which extend it | theorems about `GitcmdRepo` | what the lock keeps; the refinement; cross-repository calls |
| `RemoteAuth_proof`, `GrepSearch_proof`, `SshServer_proof`, `HgRepo_proof`, `Program_proof` | theorems about these modules | one inductive invariant for each question |

### GitcmdRepo

The data is cut down to what the properties tell apart: `refs[d]`, the branch
heads of a directory, and `objs[d]`, the commits its object store has. A method
is: `Invoke`; the lock (`EnterRead`, `EnterBlocked`, `WokenReader`,
`EnterWrite`, `AcquireWrite`, or `EnterUnlocked` for `Search`, which takes no
lock); its body, one action per git command; the deferred unlock
(`ReturnToCaller`, `FetchReturns`, `ReturnToClient`). `CommandFails` ends any
function at any of its commands. `Branches` is three kinds of commands with
other goroutines' steps between them. `UpdateEverything` moves, creates or
prunes one branch per step and may fail half-way; `fetchRemote` reads one of the
other repository's branches per step, without that repository's lock.
`Stat` pushes `Lstat` on the stack, `Open` pushes `Stat` for a "bad object".
The trees have all their objects, so `lsTree`, which reads a symlink's
destination with `readFileBytes`, does not get as far as its `Stat`.

`seen` collects the heads that the commands of a call have read; `before` and
`kept` are history variables that no action's guard reads.

`ImplementsAtomicRepo` is the refinement: `refs` as the lock's readers can see
them (those from before the edit, as long as an edit is going on) and `seen` are
the variables of `AtomicRepo`.

### RemoteAuth

`files[c]` is what call `c` has on disk, `deferred[c]` the registered removals
in the order they will run, `env[c]` the helper that `cmd.Env` names. Each step
of making the files may fail, and a failing write or chmod may leave its file.
`RemoveKeyFails` is `log.Fatalf`: all calls stop where they are.

### GrepSearch

`GitWrites` is `git grep --context`: it writes the lines around the hits in their
order, and a separator where one does not follow on the one before it (`written`).
The goroutine's actions follow the loop of `Search` line by line of
output; `SendReceive` is the unbuffered channel. `CountOff` and `AddResult` are
the closure `addResult` with what its callers do with its answer.

### HgLog, HgFiles, HgBlame, HgRepo

The history that there will be in the end is chosen at the start, and the disk
has a growing prefix of it: a commit is its revision number. `parents`,
`manifest`, `branch` and `tagged` are that history, `onDisk` is how much of it
there is.

`HgRepo` opens a handle in the four steps of `hg.Open`: the changelog index
(`cl`, how many revisions it has), the tags (`allTags`), the branch heads
(`branchHeads`), `hgcmd`'s handle. `OtherPull` is another process and may come
between any two of them; `UpdateEverything` is the handle's own. The methods are
functions of what has been read (`ResolveRevision`, `Branches`, `GetCommit`) or
of the disk (those inherited from `hgcmd`: `CmdDiff` and others). `overlapped`
is a history variable: whether something was pulled between the reads.

`HgLog`: `Turn` is one turn of `Commits`' loop. `Prev` goes back by one; what
starts a branch is a revision with no parents. Both are the revlog library's,
which is not in the repository. `LogSpec` is one call by itself, for the run
`HgLogReach`.

`HgFiles`: a manifest maps the paths of files to entries, and directories are
derived from the paths. A file log (`logs`, the disk's) has a record for each
content that its file has had in the revisions pulled, with the first revision
that had it (`Logs` in `HgRepo`). `GetEntry` is `getEntry`: the log, the
manifest's entry, and the record. Which records hgo's `LinkRevSpec.Lookup` offers
is the library's: `maybe` is any set of those that the log had by the tree's
revision (`MaybeAncestors`), the empty one included, which is an error.
`LookupRecord` takes of them the one that the manifest names (`FindPresent`), and
when it is not there any (the second lookup, without it). The content that `Open`
gives, and the path that `Stat` takes a link to lead to, are the record's, the mode
is the entry's. What a method may come to is therefore a set. `Lstat` looks for a
directory only when the path has no log. `Located` is what the patterns of
`hgFSCmd.ReadDir` let through.

`HgBlame`: `Scripts` are what the process may write; `BlameFile` decodes stdout,
reads stderr to its end, and waits, in this order.

### GitFiles, GitRepo

A commit is a number, the history is linear, and the trees are immutable.
`heads` and `tags` are the refs, `objs` the commits in the object store.
`GitRepo`'s callers share one handle or have one each (`sameHandle`). A call of
`ResolveRevision` is up to four steps: `LookupCommit`, `LookupBranch` (both of the
library, without a lock), `LookupTag`, `Fallback` (both of gitcmd, under its
lock), and any number of an update's `UpdateRef` may come between them. `Branches`
is a filter and a listing under one lock (`InsideLock`). The locking itself is `GitcmdRepo`'s
matter; here what needs the lock waits for the edit, and the edit for it.
`named`, `failed` and `quiet` are history variables.

The library lists packs when it opens a directory, so that it may miss a commit
that was fetched since (`Finds`).

`GitFiles` has for each method of the file system both implementations, as
functions of a tree. `IsTree` says what a tree is.

### Handles, Program

`InitPackage` is a package's init function, run after those of its imports;
`Register` overwrites. A handle is the package it is of and the optional
interfaces that a type assertion finds. `Wrap` is `tracer.Wrap`: its cases are
the prefixes of one list.

A program of `Program` is the tool, a library user that calls the methods of a
git handle, or one that opens and traces. `Subcommands` gives for each of the
tool's subcommands the number of its arguments and its calls in their order;
the tool makes each call on `GitRepo`'s callers (`ToolAsks`, `ToolIsAnswered`), so
that updates come between its calls too. A fatal error, a panic and a good end
are different outcomes. Of an hg repository any of the tool's calls may succeed
or fail (`ToolAsksHg`), the lookup of `HEAD` too, as a bookmark, a tag or a branch
may have that name.

### SshServer

Requests are taken to be well formed: `handleChannel` skips the four bytes of a
payload's length without looking whether they are there (server.go:158), which
would panic on a shorter one. `s[c]` is a record of one connection's session.
The handler's steps are sets of the sessions that they can lead to: one for each
way out of a call.

## 3. What is checked

| run | instance | properties |
|---|---|---|
| `RepoLocks` | 3 goroutines, 1 handle, 2 branches, 1 commit, 16 methods | `EditExcludesOthers`, `ReadsOneSnapshot`, `ListedBranchesStay`, `OnlyNestedReadsDeadlock`, `ImplementsAtomicRepo` |
| `RepoCross` | 2 goroutines, 2 handles of 2 directories, `CrossRepoDiff` and `UpdateEverything` | `TypeOK`, `CrossRepoFindsHead`, `CallsReturn`, no deadlock |
| `RepoNested` | 2 goroutines, `Stat` and `UpdateEverything` | `CallsReturn` is violated |
| `AuthFiles` | 2 calls, all options | `TypeOK`, `KeyRemovedOnReturn`, `GitCallLeavesNothing`, `GitFindsHelper`, `FatalLeavesOnlyKey` |
| `AuthLeak` | 1 call, one kind of options | `NothingLeft` is violated |
| `SearchPages` | 2 files of 3 lines, offsets and limits 0 to 2, a pipe of 1 line | `TypeOK`, `PageOfMatches`, `NothingRunsOn`, `FailureReported`, `SearchReturns` |
| `HgRepo` | histories of 4 commits: every shape, every naming, every sequence of 4 trees; limits 0 to 2, skips 0, 1, 2, 4; pipes of 1 write | `TypeOK`, `PageOfAncestors`, `ResolvedIsReadable`, `EveryBranchListed`, `ListedIsStated`, `ImplementationsAgree`, `HunksFromGoodExit`, `FilesStay`, `BlameReturns` |
| `HgLogReach` | histories of 3 commits, every head and page | `LogIsReachable` is violated |
| `SshSessions` | 1 connection, 3 chunks of output through a pipe of 1 | `TypeOK`, `StatusComesLast`, `ProcessReaped`, `CloseNotLogged`, `LoopEnds`, `SessionEnds`, `CopiesEnd` |
| `Program` | 2 callers, 2 names of branches and tags, 2 commits, every subcommand with 0 to 3 arguments, every set of imports, wrapped up to twice | `TypeOK`, `ResolvesAtSomeMoment`, `BranchesFiltered`, `TreesAgree`, `TracedHandleWorks`, `ToolEnds` |
| `ResolveEmpty` | the instance of `Program` | `ResolvedOrError` is violated |
| `BranchFilters` | the instance of `Program` | `FiltersRestrict` is violated |

Bounds. Three goroutines on a handle are a reader, a writer and one more that
the waiting writer turns away; two branches let an edit be half done; one
commit is enough because a branch points to it or does not exist, which already
tells the states apart. Two directories and two goroutines are what it takes for
each to fetch from the other. Two files of three lines have all the boundaries:
two stretches in a file, a change of file, a page that ends on either. A pipe of
one line or chunk blocks its writer as early as possible. Four commits have
branches, merges and several roots; each set of `HgRepoMC`'s scenarios varies one
thing (the shape, the names, the files), because what the others do does not
depend on it, and with one or two revisions at first there is something to pull
between each two of `Open`'s reads. Its trees have a file and a directory of the
same name, directories of directories, and links to files and to directories;
`ProgramMC`'s have links to links, to nothing and to the root, and a submodule.
Two commits tell a moved ref from one that stays, two names a branch from a tag
of the same name and from another, and one caller with one updater has all the
interleavings of a call's steps with an edit's. A handle is wrapped at most
`MaxWrapped` times, twice: what is wrapped twice is a wrapper of a wrapper. A call that has returned may be made again
in `GitcmdRepo`, and the tool makes its calls one after the other; in the other
modules a call is made once. The sessions of an
SSH server share no state but the accept loop, so one connection is checked.

Fairness. In `GitcmdRepo` every goroutine that can run is run (weak fairness of
`Step`), each git command ends, and a goroutine that asks for the write lock
again and again gets it (strong fairness of `EnterWrite`): the starvation mode
of `sync.Mutex`, from Go 1.9, which `.travis.yml` asks for. In `GrepSearch` git
grep goes on while it can write, and both goroutines are scheduled. In
`SshServer` goroutines are scheduled and the process goes on while it can
write; a client that is there reads and answers, but need not end its side. In
`HgRepo` a call that has begun goes on, and so does the process it has started;
nobody need call, pull or open. `Program` has no liveness.

What the properties of the Mercurial part and of `Program` are about:

- `PageOfAncestors`: where the ancestors of the head are one run of revisions (a
  linear history, or one whose branches have all been merged into the head), the
  native log is the page of them that is asked for, and the total their number. On
  any history it keeps to the limit and to its order, and a caller that wants no
  total does not pay for it. What it is on other histories is the finding of
  `HgLogReach`.
- `ResolvedIsReadable`, `EveryBranchListed`: `hg.Open` reads the index first, then
  the names. Later pulls therefore never make a name unreadable, and no commit of
  the index lacks its branch; a pull during `Open` can make the handle's heads
  name a commit that its index does not have. (`null` resolves to the id of no
  commit, and is left out.)
- `FilesStay`, `ListedIsStated`: what `Open` and `Lstat` of an opened tree may come to
  stays as it is under pulls, though the logs grow, because hgo looks only among
  the records that a log had by the tree's revision; but for a directory that is
  lost once any revision on the disk has a file by its name.
- `ImplementationsAgree`: when hgo offers the record that the manifest names, the
  native `Open` gives what `hg cat` prints. When it does not, the native handle may
  give another content that the file had before, by the fallback of hg/repo.go:345.
  `hgcmd` says of links and executables that they are plain files, so that `Stat` is
  compared for plain files only, and for directories that have a file within two
  levels.
- `BlameReturns`: `BlameFile` returns if what the process complains of before its
  value is done fits in a pipe. It may wait for ever if it does not.
- `ResolvesAtSomeMoment`: with updates between its four lookups, what
  `ResolveRevision` returns, if it is a commit, was meant at some moment of the call,
  and a name that moves from branch to tag is not missed. The empty ID without an
  error is the finding of `ResolveEmpty`. The native order is commit, branch, tag;
  gitcmd's, which is rev-parse's, a tag before a branch.
- `BranchesFiltered`: names and heads are of one moment for callers of one handle,
  though the filter and the list are commands of their own, and no branch that
  meets the filters is missing. That others are listed too is the finding of
  `BranchFilters`.
- `TreesAgree`: the exceptions are that gitcmd opens a directory like a file and
  lists a submodule as if it were in itself.
- `TracedHandleWorks`: a traced handle offers nothing that the one underneath does
  not have, so that no call goes to nil; git's keeps everything, hg's keeps
  `Blamer` and `Differ`. It does not promise that hg's keeps `RemoteUpdater` (see 5).
- `ToolEnds`: `blame` with fewer than two arguments panics, and so does `grep` of an
  hg repository; nothing else does.

Deadlock is checked in `RepoCross`; the other systems stop when their calls are
done, and that of `RepoLocks` can deadlock, which `OnlyNestedReadsDeadlock` is
about.

### Findings

- `RepoNested`: `Stat` takes the read lock and calls `Lstat`, which takes it
  again (repo.go:1137, 1087, and 1148 for a symlink); an edit that asks for the
  lock in between waits for `Stat`, and `Lstat` waits for the edit.
  `OnlyNestedReadsDeadlock` shows that this is the only way to deadlock.
- `AuthLeak`: when a helper's step fails after its directory was made, the
  directory stays, perhaps with the password file (repo.go:104, 119 and 658,
  673, against script.go:15). The key file is always removed.
- `HgLogReach`: the native hg log goes back by revision numbers to the first
  revision without parents. With two branches it has commits that are no ancestors
  of its head, and with two roots it lacks some that are (hg/repo.go:162, against
  repository.go:128).
- `ResolveEmpty`: `gitcmd.ResolveTag` returns the empty ID without an error when
  rev-parse fails for a reason of its own, or refuses an argument with a dash, and
  the native `ResolveRevision` passes it on (gitcmd/repo.go:193, against
  repository.go:14 and git/repo.go:71).
- `BranchFilters`: two filters together give their union, and filters that no branch
  meets give every branch (gitcmd/repo.go:208, against vcs.proto:53 and 66).

## 4. What is proved

For every value of the constants (any number of goroutines, handles, branches,
commits; any number of calls):

- `GitcmdRepo_proof`: `TypeCorrect`, `ExclusiveEdits`, `DeadlockOnlyFromNesting`,
  and, where no two handles have one directory (`OneHandlePerDir`),
  `OneSnapshotPerCall` and `ListedBranchesReadable`.
- `GitcmdAtomic_proof`: `HandleIsAtomic`, the refinement `ImplementsAtomicRepo`, also
  under `OneHandlePerDir`.
- `GitcmdCross_proof`: `CrossFindsHead`, for all handles, those that share a
  directory among them.
- `RemoteAuth_proof`: `AuthTypes`, `KeyNeverLeft`, `GitCallCleansUp`,
  `FatalRemovesTheRest`, `HelperThere`.
- `GrepSearch_proof`: `SearchTypes`, `NothingLeftRunning`, `FailureNotHidden`,
  `PagesAreRight`, for any tree, options and pipe.
- `SshServer_proof`: `SshTypeOK`, `SshStatusComesLast`, `SshProcessReaped`,
  `SshCloseNotLogged`, for any number of connections, output and pipe.
- `HgRepo_proof`: `HgTypes`, `BranchesCoverIndex`, `ResolvedIsRead`, `HunksAreWhole`,
  `TreesSurvivePulls`, `LogIsPage`, `ListingsAgreeWithStats`,
  `ImplementationsTellTheSame`, for any history, naming, number of pulls, and size of
  pipes and values.
- `Program_proof`: `ProgramTypes`, `ResolutionCorrect`, `BranchesUnderLock`,
  `FileSystemsAgree`, `TracedHandles`, `ToolEndsWell`, for any number of callers, names
  and commits, any well-formed trees, and any set of programs.

The argument for `GitcmdRepo`: `EditExcludesOthers` is not inductive, as it says
nothing of who holds what. The invariant adds it: `Shape` (what stacks and
labels go together), `LockInv` (how many read locks a goroutine holds is the
number of its frames that have entered for reading; the writer is the goroutine
whose top frame is an edit that waits or runs; with an active writer there are
no readers; only goroutines that wait are blocked, and only behind a writer),
and `SeenInv`, used only under `OneHandlePerDir` (a call that is inside and has
read something has read the present heads, as nobody can edit that directory
while it holds its read lock). `DeadlockOnlyFromNesting` needs no step: if all
goroutines wait, the lock's state leaves only a holder that waits.

The refinement: `VisibleRefs` takes a directory's heads from before the edit while
its handle's writer is inside, so that getting the lock and moving a branch show
nothing, and the return of an edit shows all of it at once. A fetch moves no head
of its directory. A call's reads are of the visible heads by `SeenInv`, and where
handles are different so are directories.

Cross-repository calls need no lock for their argument. `CInv` says that a branch
in `kept` still points to the commit asked about, and that it is yet to be fetched
or the commit is in the object store, which only grows; a fetch that has ended
well has nothing left to fetch.

For `RemoteAuth`: what `files` holds is determined by the label, and every file
is covered by a removal in `deferred` or is one that the failing step left; the
removals that are left cover what is left.

For `GrepSearch`: `Stages` says which of the caller and the goroutine is where,
`Outcomes` that there is no outcome before the goroutine is done, and no good one
but from a process that was waited for and has not failed. The results matter only
to `PagesAreRight`. Its invariant `Reading` holds while the goroutine reads, and
follows the output from the process to the results: what is unwritten is all that
comes after `written` (`Writing`); what is in the pipe is in order and leaves
nothing out (`InOrder`), separators included (`Chained`: each thing in it is what
git writes after the one before); the result in hand is a match from its first
line to the last that was read (`Gathered`); and as many results have been counted
as matches have begun (`Tallied`), so that the number of a match is the number it
is kept under. One fact comes out of it that the code does not say: with context,
a line of another file always comes after a separator. So the page is right
although a new file's line that ends the loop would be lost.
`FileOf` divides; `SameFile` is that a line and the next belong to one file.

For `SshServer`: `SessionInv` says that, while the client is there, what the
process has written is what the client has been sent and what is in the pipe,
and that the copy of the output is done only after the process has ended and the
pipe is empty. `CloseNotLogged` holds because `Close` sets the flag before it
closes the listener.

For `HgRepo`: `SnapshotInv` says that what was read is on the disk, that it is in
the index unless a pull came between (`InIndex`), and that the heads, once read,
cover the index; the last needs the order of the reads. `MaxRevision`, that a
bounded set of revisions has a greatest, is proved from the library's theorem
that < is well-founded. `TreesSurvivePulls` needs that the commit of an opened tree is on
the disk (`OpenedInv`), that its manifest does not change, and that file logs only
grow. `BlameInv` relates the label, the process and the error.

`LogInv` is the loop invariant of `Commits`: the walk has come past no start of a
branch, and what is kept is the part of the page among the revisions counted so
far. `RunIsWalked` turns it into `PageOfAncestors`: where the ancestors are one run
(`OneRun`), the walk ends at the first of them, which exists by `MinRevision`.
`RecordsExist`, `EntriesAre` and `LogsGrow` are what the file trees need of the logs: each
entry has its record, by its revision; what a lookup may come to is told from the
records of that time; and a pull adds only later ones.

`ListedIsStated` and `ImplementationsAgree` are about functions of one manifest and
the logs, method by method: `ListedCanBeStated` and
`StatedIsListed` take a listed name to the entry or the file below it that it came
from; `LocatedIs` and `CmdListsNear` say what `hg locate`'s two patterns let through.
`ReadInv` keeps the names of what was read among the names there are.
`HistoryInv`, that the history is one of the scenarios, is under all of them.

For `Program`: `GitInv` says of each call of `ResolveRevision` that what its
specifier means now is among `named`, and that a call that has come past the
branch lookup with nothing moved and nothing failed has no such branch; the step
of `UpdateRef` is the one that needs `named` to grow for every caller at once.
`LockInv` says that on a shared handle nobody is inside the lock while an edit
runs, and that only the editor moves refs, from which a filter's result still
holds when the list is made. The file systems are compared method by method
(`LstatAgrees`, `StatAgrees`, `ReadDirAgrees`, `OpenAgrees`), from `IsTree` alone.
`HandleInv` says what packages the tables can name and what a handle offers after
any number of wraps. `ToolInv` goes through the fifteen scripts: `ToolKnows` says how
many answers the tool has at which step, and that an empty ID does not get past
the first call that takes it (`ToolRequest`: what is asked is a request that the
repository model allows); `Registries` gives the handle its package, as an opener
is registered by a package's own `init` or by none.

The assumptions are those the modules name: `NoProc` is no goroutine, `NoDir` no
directory, `NoCommit` no commit, `DirOf` maps handles to directories, `Op` is a
set of methods, `Opts` a set of options.

`ScenarioAssumption`, `GitRepoAssumption` and `ProgramAssumption` say what histories,
trees and programs are; `LogAssumption`, `BlameAssumption` and `HandlesAssumption`
that the bounds are numbers.

Model-checked only: all liveness (`CallsReturn`, `SearchReturns`, `LoopEnds`,
`SessionEnds`, `CopiesEnd`, `BlameReturns`), which TLAPS cannot prove. Every
invariant and action property that a passing run checks is also a theorem.
`ReadsOneSnapshot` is really false for two handles of one directory, which the code
allows and nobody documents.

## 5. What is not modelled

- The text of commands' output and its parsing, `parseRemoteUpdate` and blame's
  ranges among it: functions of strings that an external program prints, without
  state; a model of them would be a transliteration. What the code does when a
  parse fails is modelled.
- `git`'s and `hg`'s own failures beyond "the command fails", and the insides of
  the libraries (`go-git`, `hgo`), which are not in the repository. `hg locate` is
  taken to match exactly the paths it is asked for.
- `hgcmd`'s log and its lists of branches and tags: each is the output of hg
  commands, and hg evaluates the revision expressions.
- `hg`'s handle refuses `Branches` with `ContainsCommit`; the call has no other
  effect and is left out. Modification times and sizes of files are left out.
- The code after an early `return` in `git/repo.go` (`ResolveTag`, `Branches`,
  `Tags`, `Commits`), which never runs.
- The tracer's wrappers beyond `Wrap`: each passes its call on and records times.
- `vcs.pb.go` (generated), `hostkey.go` (parsing), `vcs/util` and the mocks.
- A client of the SSH server that leaves in the middle of the output, for which
  `SessionEnds` makes an exception, and repositories with missing objects, on
  which `lsTree` recurses without end.

Disagreements with the docs that are plain to see in the code, and that no run
shows:

- `hgcmd`'s log starts `N` commits back instead of `Skip` (hgcmd/repo.go:209, against
  repository.go:132, "skip this many commits at the beginning").
- With SSH and HTTPS options together `cmd.Env` is replaced and `GIT_SSH` lost
  (gitcmd/repo.go:129, 682, against remote.go:5, "ssh configuration for
  communication with the remote"). `EnvAfter` of `RemoteAuth` has it.
- A search with no context lines gets no separators, and a file's matches become
  one result (gitcmd/repo.go:927, against vcs.proto:108, "The line range
  [start,end] of the match."). `GrepSearch` has it; `PageOfMatches` is about searches
  with context.
- `tracer.Wrap` takes the longest prefix of its list that the repository
  implements, not the "union of all optional interfaces" (tracer.go:37 and 62): a
  traced hg handle is no `RemoteUpdater`. `Wrap` of `Handles` has it.
- `hgcmd`'s `ReadDir` is to "list the files *and* subdirs in the dir" (hgcmd/repo.go:516),
  but misses a subdirectory whose files all lie deeper than its pattern lets
  through. `Located` has it.

What would be proved next: what `Search` returns without context lines, which no
property states; that `HgRepo` refines a repository read at one moment when no pull comes between `Open`'s reads; and the
measures under the liveness properties (what each step of a walk, a search or a
session makes smaller), as action properties.
