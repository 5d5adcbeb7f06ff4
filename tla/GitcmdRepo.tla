----------------------------- MODULE GitcmdRepo -----------------------------
(***************************************************************************)
(* vcs/gitcmd/repo.go: goroutines calling the methods of git repository    *)
(* handles.  A method takes its handle's editLock, runs git commands one   *)
(* after the other in the handle's directory, and releases the lock on     *)
(* return (a deferred call).  What git holds is abstracted to the branch   *)
(* heads of each directory and to the set of commits its object store has. *)
(*                                                                         *)
(* A call is a stack of the functions that take the lock: Open calls Stat, *)
(* Stat calls Lstat, and each of them takes the read lock again.           *)
(***************************************************************************)
EXTENDS RWMutex, Sequences, FiniteSets

CONSTANTS Dir,       \* directories on disk
          NoDir,     \* no directory
          DirOf,     \* the directory of each handle
          Ref,       \* branch names
          Commit,    \* commit IDs
          NoCommit,  \* the value of a branch that does not exist
          Op         \* the methods the goroutines may call

RefReaders == {"ResolveRevision", "Branches", "Tags", "Committers", "ListFiles"}
ObjectReaders == {"GetCommit", "Commits", "Diff", "BlameFile", "MergeBase", "Search"}
FsReaders == {"Open", "Lstat", "Stat", "ReadDir"}
CrossOps == {"CrossRepoDiff", "CrossRepoMergeBase"}
Editors == {"UpdateEverything", "fetchRemote"}

Method == RefReaders \cup ObjectReaders \cup FsReaders \cup CrossOps
            \cup {"UpdateEverything"}

\* What can be on the stack: the functions that take editLock, and Search.
\* LstatDest is Stat's second call of Lstat, on the symlink's destination.
Frame == RefReaders \cup ObjectReaders \cup FsReaders \cup Editors \cup {"LstatDest"}

ASSUME DirOfAssumption == DirOf \in [Handle -> Dir]
ASSUME NoDirAssumption == NoDir \notin Dir
ASSUME OpAssumption == Op \subseteq Method
ASSUME NoCommitAssumption == NoCommit \notin Commit

RefMap == [Ref -> Commit \cup {NoCommit}]
NoRefs == [r \in Ref |-> NoCommit]

\* What a call is about: the method, the handle, the handle of the other
\* repository of a cross-repository call, and the commit it asks about.
Call == [op : Method, h : Handle, other : Handle, c : Commit \cup {NoCommit}]
NoCall == [op |-> "none"]

VARIABLES
  refs,    \* refs[d]: the branch heads of directory d
  objs,    \* objs[d]: the commits in its object store
  call,    \* call[p]: the call p is in, or NoCall
  stack,   \* stack[p]: the functions of that call that take the lock, innermost first
  pc,      \* pc[p]: where the innermost one is
  seen,    \* seen[p]: the branch heads the commands of the call have read
  todo,    \* todo[p]: the branches a loop of the call has not come to yet
  res,     \* res[p]: how the innermost function, or the one before it, ended
  \* History variables: no action reads them.
  before,  \* before[h]: the branch heads when the writer of h got the lock
  kept     \* kept[p]: other's branches that have pointed to c since the call began

callVars == <<call, stack, pc, seen, todo, res, kept>>
dataVars == <<refs, objs>>
vars == <<lockVars, dataVars, before, callVars>>

PC == {"idle", "enter", "wait", "body", "detail", "exit"}

TypeOK ==
  /\ LockTypeOK
  /\ refs \in [Dir -> RefMap]
  /\ objs \in [Dir -> SUBSET Commit]
  /\ call \in [Proc -> Call \cup {NoCall}]
  /\ stack \in [Proc -> Seq(Frame)]
  /\ pc \in [Proc -> PC]
  /\ seen \in [Proc -> SUBSET RefMap]
  /\ todo \in [Proc -> SUBSET Ref]
  /\ res \in [Proc -> {"none", "ok", "notfound", "failed"}]
  /\ before \in [Handle -> RefMap]
  /\ kept \in [Proc -> SUBSET Ref]

Init ==
  /\ LockInit
  /\ refs \in [Dir -> RefMap]
  /\ objs = [d \in Dir |-> {refs[d][r] : r \in Ref} \ {NoCommit}]
  /\ call = [p \in Proc |-> NoCall]
  /\ stack = [p \in Proc |-> << >>]
  /\ pc = [p \in Proc |-> "idle"]
  /\ seen = [p \in Proc |-> {}]
  /\ todo = [p \in Proc |-> {}]
  /\ res = [p \in Proc |-> "none"]
  /\ before = [h \in Handle |-> NoRefs]
  /\ kept = [p \in Proc |-> {}]

H(p) == call[p].h
D(p) == DirOf[call[p].h]
OtherD(p) == DirOf[call[p].other]
Top(p) == Head(stack[p])

-----------------------------------------------------------------------------
(* Calling a method.                                                       *)

\* CrossRepoDiff and CrossRepoMergeBase fetch first, unless the two
\* repositories are the same directory; then they call Diff and MergeBase.
CrossReader(o) == IF o = "CrossRepoDiff" THEN "Diff" ELSE "MergeBase"

FirstFrame(k) ==
  IF k.op \notin CrossOps THEN k.op
  ELSE IF DirOf[k.other] # DirOf[k.h] THEN "fetchRemote" ELSE CrossReader(k.op)

\* The calls that clients make of method o: other and c only where o takes them.
Calls(o) ==
  {k \in Call : /\ k.op = o
                /\ o \notin CrossOps => k.other = k.h
                /\ (o \in ObjectReaders \cup CrossOps) = (k.c \in Commit)}

Invoke(p) ==
  /\ pc[p] = "idle"
  /\ \E o \in Op : \E k \in Calls(o) :
       /\ call' = [call EXCEPT ![p] = k]
       /\ stack' = [stack EXCEPT ![p] = <<FirstFrame(k)>>]
       /\ todo' = [todo EXCEPT ![p] = IF FirstFrame(k) \in Editors THEN Ref ELSE {}]
       /\ kept' = [kept EXCEPT ![p] = IF o \in CrossOps
                                      THEN {r \in Ref : refs[DirOf[k.other]][r] = k.c}
                                      ELSE {}]
  /\ pc' = [pc EXCEPT ![p] = "enter"]
  /\ UNCHANGED <<lockVars, dataVars, before, seen, res>>

-----------------------------------------------------------------------------
(* Taking the lock.                                                        *)

\* A plausible bug: Tags and Branches forget the lock, as Search does.
LockModeDropped(f) ==
  IF f \in Editors THEN "write"
  ELSE IF f \in {"Search", "Tags", "Branches"} THEN "none" ELSE "read"

\* A plausible bug: an edit takes the lock for reading only.
LockModeShared(f) == IF f = "Search" THEN "none" ELSE "read"

\* How each function takes editLock.  Search does not take it at all.
LockMode(f) ==
  IF f \in Editors THEN "write" ELSE IF f = "Search" THEN "none" ELSE "read"

GoTo(p, label) == pc' = [pc EXCEPT ![p] = label]

EnterUnlocked(p) ==
  /\ pc[p] = "enter" /\ LockMode(Top(p)) = "none"
  /\ GoTo(p, "body")
  /\ UNCHANGED <<lockVars, dataVars, before, call, stack, seen, todo, res, kept>>

EnterRead(p) ==
  /\ pc[p] = "enter" /\ LockMode(Top(p)) = "read"
  /\ RLock(p, H(p))
  /\ GoTo(p, "body")
  /\ UNCHANGED <<dataVars, before, call, stack, seen, todo, res, kept>>

EnterBlocked(p) ==
  /\ pc[p] = "enter" /\ LockMode(Top(p)) = "read"
  /\ RLockBlocks(p, H(p))
  /\ GoTo(p, "wait")
  /\ UNCHANGED <<dataVars, before, call, stack, seen, todo, res, kept>>

WokenReader(p) ==
  /\ pc[p] = "wait" /\ LockMode(Top(p)) = "read"
  /\ p \notin blocked[H(p)]
  /\ GoTo(p, "body")
  /\ UNCHANGED <<lockVars, dataVars, before, call, stack, seen, todo, res, kept>>

EnterWrite(p) ==
  /\ pc[p] = "enter" /\ LockMode(Top(p)) = "write"
  /\ LockAnnounce(p, H(p))
  /\ GoTo(p, "wait")
  /\ UNCHANGED <<dataVars, before, call, stack, seen, todo, res, kept>>

AcquireWrite(p) ==
  /\ pc[p] = "wait" /\ LockMode(Top(p)) = "write"
  /\ LockAcquire(p, H(p))
  /\ before' = [before EXCEPT ![H(p)] = refs[D(p)]]
  /\ GoTo(p, "body")
  /\ UNCHANGED <<dataVars, call, stack, seen, todo, res, kept>>

-----------------------------------------------------------------------------
(* The bodies: the git commands each function runs.                        *)

At(p, f) == pc[p] = "body" /\ Top(p) = f
AtDetail(p, f) == pc[p] = "detail" /\ Top(p) = f

Finish(p, how) ==
  /\ res' = [res EXCEPT ![p] = how]
  /\ GoTo(p, "exit")

\* A command that reads the branch heads.
SeeRefs(p) == seen' = [seen EXCEPT ![p] = @ \cup {refs[D(p)]}]

\* A command that reads the commit asked about.
FinishFinding(p) ==
  Finish(p, IF call[p].c \in objs[D(p)] THEN "ok" ELSE "notfound")

\* An unsafe argument, a command that fails or output that does not parse:
\* the function returns the error at once.  An edit may have done any part of
\* its work by then.
CommandFails(p) ==
  /\ pc[p] \in {"body", "detail"}
  /\ Finish(p, "failed")
  /\ UNCHANGED <<lockVars, dataVars, before, call, stack, seen, todo, kept>>

OneRefCommand(p) ==
  /\ SeeRefs(p)
  /\ Finish(p, "ok")
  /\ UNCHANGED <<lockVars, dataVars, before, call, stack, todo, kept>>

OneObjectCommand(p) ==
  /\ FinishFinding(p)
  /\ UNCHANGED <<lockVars, dataVars, before, call, stack, seen, todo, kept>>

ResolveRevision(p) == At(p, "ResolveRevision") /\ OneRefCommand(p)   \* rev-parse
Tags(p) == At(p, "Tags") /\ OneRefCommand(p)                         \* show-ref
Committers(p) == At(p, "Committers") /\ OneRefCommand(p)             \* shortlog HEAD
ListFiles(p) == At(p, "ListFiles") /\ OneRefCommand(p)               \* ls-tree HEAD

Diff(p) == At(p, "Diff") /\ OneObjectCommand(p)
BlameFile(p) == At(p, "BlameFile") /\ OneObjectCommand(p)
MergeBase(p) == At(p, "MergeBase") /\ OneObjectCommand(p)
Search(p) == At(p, "Search") /\ OneObjectCommand(p)                  \* grep
GetCommit(p) == At(p, "GetCommit") /\ OneObjectCommand(p)            \* log -n 1

\* Commits runs git log, then rev-list --count unless NoTotal.
CommitsLog(p) ==
  /\ At(p, "Commits")
  /\ \/ FinishFinding(p)
     \/ call[p].c \in objs[D(p)] /\ GoTo(p, "detail") /\ UNCHANGED res
  /\ UNCHANGED <<lockVars, dataVars, before, call, stack, seen, todo, kept>>

CommitsCount(p) ==
  /\ AtDetail(p, "Commits")
  /\ OneObjectCommand(p)

\* Branches: git branch --merged and --contains for the filter, ...
BranchesFilter(p) ==
  /\ At(p, "Branches")
  /\ SeeRefs(p)
  /\ UNCHANGED <<lockVars, dataVars, before, call, stack, pc, todo, res, kept>>

\* ... show-ref for the names and heads, of which the filter passes some, ...
BranchesList(p) ==
  /\ At(p, "Branches")
  /\ SeeRefs(p)
  /\ \E s \in SUBSET {r \in Ref : refs[D(p)][r] # NoCommit} :
       todo' = [todo EXCEPT ![p] = s]
  /\ GoTo(p, "detail")
  /\ UNCHANGED <<lockVars, dataVars, before, call, stack, res, kept>>

\* ... then getCommit and rev-list --left-right for each name in turn.  A
\* branch that is gone by then, or whose commit is, makes Branches fail.
BranchesDetail(p) ==
  /\ AtDetail(p, "Branches")
  /\ \E r \in todo[p] :
       /\ todo' = [todo EXCEPT ![p] = @ \ {r}]
       /\ IF refs[D(p)][r] \in objs[D(p)]
          THEN UNCHANGED <<pc, res>>
          ELSE Finish(p, "failed")
  /\ SeeRefs(p)
  /\ UNCHANGED <<lockVars, dataVars, before, call, stack, kept>>

BranchesReturn(p) ==
  /\ AtDetail(p, "Branches") /\ todo[p] = {}
  /\ Finish(p, "ok")
  /\ UNCHANGED <<lockVars, dataVars, before, call, stack, seen, todo, kept>>

-----------------------------------------------------------------------------
(* gitFSCmd: the file system at a fixed commit.                            *)

Nest(p, f) ==
  /\ stack' = [stack EXCEPT ![p] = <<f>> \o @]
  /\ GoTo(p, "enter")

\* git ls-tree, then git show for a symlink's destination and git log for each
\* entry; no further lock, all the objects of the tree being there.
FsLeaf(p) ==
  /\ Finish(p, "ok")
  /\ UNCHANGED <<lockVars, dataVars, before, call, stack, seen, todo, kept>>

Lstat(p) == (At(p, "Lstat") \/ At(p, "LstatDest")) /\ FsLeaf(p)
ReadDir(p) == At(p, "ReadDir") /\ FsLeaf(p)

FsNest(p, f) ==
  /\ Nest(p, f)
  /\ UNCHANGED <<lockVars, dataVars, before, call, seen, todo, res, kept>>

\* Open reads the blob; "bad object" makes readFileBytes call Stat, with the
\* read lock still held, to see whether the name is a submodule.
Open(p) == At(p, "Open") /\ FsLeaf(p)
OpenBadObject(p) == At(p, "Open") /\ FsNest(p, "Stat")
OpenSubmodule(p) == AtDetail(p, "Open") /\ FsLeaf(p)

\* Stat takes the read lock and calls Lstat, which takes it again; for a
\* symlink it calls Lstat a second time, on the destination.
Stat(p) == At(p, "Stat") /\ FsNest(p, "Lstat")
StatRegular(p) == AtDetail(p, "Stat") /\ FsLeaf(p)
StatSymlink(p) == AtDetail(p, "Stat") /\ FsNest(p, "LstatDest")

-----------------------------------------------------------------------------
(* The edits.                                                              *)

\* git remote update --prune moves, creates or prunes the branches one at a
\* time, and puts a commit in the object store before a branch points to it.
UpdateRef(p) ==
  /\ At(p, "UpdateEverything")
  /\ \E r \in todo[p], c \in Commit \cup {NoCommit} :
       /\ refs' = [refs EXCEPT ![D(p)][r] = c]
       /\ objs' = [objs EXCEPT ![D(p)] = @ \cup ({c} \ {NoCommit})]
       /\ todo' = [todo EXCEPT ![p] = @ \ {r}]
       /\ kept' = [q \in Proc |->
                     IF call[q] # NoCall /\ OtherD(q) = D(p) /\ call[q].c # c
                     THEN kept[q] \ {r} ELSE kept[q]]
  /\ UNCHANGED <<lockVars, before, call, stack, pc, seen, res>>

UpdateReturn(p) ==
  /\ At(p, "UpdateEverything")
  /\ Finish(p, "ok")
  /\ UNCHANGED <<lockVars, dataVars, before, call, stack, seen, todo, kept>>

\* A plausible bug: a branch that is pruned while the fetch goes on is copied as
\* what the listing says of it, the null ID.
FetchNullId(p) ==
  /\ At(p, "fetchRemote")
  /\ \E r \in todo[p] :
       /\ objs' = [objs EXCEPT ![D(p)] = @ \cup {refs[OtherD(p)][r]}]
       /\ todo' = [todo EXCEPT ![p] = @ \ {r}]
  /\ UNCHANGED <<lockVars, refs, before, call, stack, pc, seen, res, kept>>

\* A plausible bug: the fetch skips a branch.
FetchNothing(p) ==
  /\ At(p, "fetchRemote")
  /\ \E r \in todo[p] : todo' = [todo EXCEPT ![p] = @ \ {r}]
  /\ UNCHANGED <<lockVars, dataVars, before, call, stack, pc, seen, res, kept>>

\* git fetch <other's directory> +refs/heads/*:refs/remotes/<name>/*: it reads
\* the other repository's branches one at a time, without that repository's
\* lock, and copies the commits they point to.
FetchRef(p) ==
  /\ At(p, "fetchRemote")
  /\ \E r \in todo[p] :
       /\ objs' = [objs EXCEPT ![D(p)] = @ \cup ({refs[OtherD(p)][r]} \ {NoCommit})]
       /\ todo' = [todo EXCEPT ![p] = @ \ {r}]
  /\ UNCHANGED <<lockVars, refs, before, call, stack, pc, seen, res, kept>>

FetchDone(p) ==
  /\ At(p, "fetchRemote") /\ todo[p] = {}
  /\ Finish(p, "ok")
  /\ UNCHANGED <<lockVars, dataVars, before, call, stack, seen, todo, kept>>

-----------------------------------------------------------------------------
(* Returning: the deferred unlock, then the caller goes on.                *)

\* A plausible bug: the unlock is not deferred, and an early return on an
\* error skips it.
ReleaseUnlessFailed(p) ==
  \/ LockMode(Top(p)) = "read" /\ res[p] # "failed"
       /\ RUnlock(p, H(p)) /\ UNCHANGED before
  \/ LockMode(Top(p)) = "write" /\ res[p] # "failed"
       /\ Unlock(p, H(p)) /\ before' = [before EXCEPT ![H(p)] = NoRefs]
  \/ (LockMode(Top(p)) = "none" \/ res[p] = "failed") /\ UNCHANGED <<lockVars, before>>

Release(p) ==
  \/ LockMode(Top(p)) = "read" /\ RUnlock(p, H(p)) /\ UNCHANGED before
  \/ LockMode(Top(p)) = "write" /\ Unlock(p, H(p))
       /\ before' = [before EXCEPT ![H(p)] = NoRefs]
  \/ LockMode(Top(p)) = "none" /\ UNCHANGED <<lockVars, before>>

\* Open and Stat go on after the function they called, unless it failed;
\* nothing is left to do after Stat's second Lstat.
ReturnToCaller(p) ==
  /\ pc[p] = "exit" /\ Len(stack[p]) > 1
  /\ Release(p)
  /\ stack' = [stack EXCEPT ![p] = Tail(@)]
  /\ GoTo(p, IF res[p] = "ok" /\ Top(p) # "LstatDest" THEN "detail" ELSE "exit")
  /\ UNCHANGED <<dataVars, call, seen, todo, res, kept>>

\* A plausible bug: the write lock is held until the whole call returns.
FetchReturnsLocked(p) ==
  /\ pc[p] = "exit" /\ Top(p) = "fetchRemote" /\ res[p] = "ok"
  /\ stack' = [stack EXCEPT ![p] = <<CrossReader(call[p].op)>>]
  /\ GoTo(p, "enter")
  /\ UNCHANGED <<lockVars, before, dataVars, call, seen, todo, res, kept>>

\* A cross-repository call has let go of the write lock when it asks for the
\* read lock.
FetchReturns(p) ==
  /\ pc[p] = "exit" /\ Top(p) = "fetchRemote" /\ res[p] = "ok"
  /\ Release(p)
  /\ stack' = [stack EXCEPT ![p] = <<CrossReader(call[p].op)>>]
  /\ GoTo(p, "enter")
  /\ UNCHANGED <<dataVars, call, seen, todo, res, kept>>

ReturnToClient(p) ==
  /\ pc[p] = "exit" /\ Len(stack[p]) = 1
  /\ ~(Top(p) = "fetchRemote" /\ res[p] = "ok")
  /\ Release(p)
  /\ call' = [call EXCEPT ![p] = NoCall]
  /\ stack' = [stack EXCEPT ![p] = << >>]
  /\ seen' = [seen EXCEPT ![p] = {}]
  /\ todo' = [todo EXCEPT ![p] = {}]
  /\ res' = [res EXCEPT ![p] = "none"]
  /\ kept' = [kept EXCEPT ![p] = {}]
  /\ GoTo(p, "idle")
  /\ UNCHANGED dataVars

-----------------------------------------------------------------------------
Locking(p) ==
  \/ EnterUnlocked(p) \/ EnterRead(p) \/ EnterBlocked(p) \/ WokenReader(p)
  \/ EnterWrite(p) \/ AcquireWrite(p)

Reading(p) ==
  \/ ResolveRevision(p) \/ Tags(p) \/ Committers(p) \/ ListFiles(p)
  \/ Diff(p) \/ BlameFile(p) \/ MergeBase(p) \/ Search(p) \/ GetCommit(p)
  \/ CommitsLog(p) \/ CommitsCount(p)
  \/ BranchesFilter(p) \/ BranchesList(p) \/ BranchesDetail(p) \/ BranchesReturn(p)
  \/ Lstat(p) \/ ReadDir(p) \/ Open(p) \/ OpenBadObject(p) \/ OpenSubmodule(p)
  \/ Stat(p) \/ StatRegular(p) \/ StatSymlink(p)
  \/ CommandFails(p)

Editing(p) == UpdateRef(p) \/ UpdateReturn(p) \/ FetchRef(p) \/ FetchDone(p)

Returning(p) == ReturnToCaller(p) \/ FetchReturns(p) \/ ReturnToClient(p)

Step(p) == Locking(p) \/ Reading(p) \/ Editing(p) \/ Returning(p)

Next == \E p \in Proc : Invoke(p) \/ Step(p)

Spec == Init /\ [][Next]_vars

\* The Go scheduler runs every goroutine that can run, every git command ends,
\* and the mutex inside RWMutex.Lock does not starve a goroutine (Go 1.9 on).
Fairness == \A p \in Proc : WF_vars(Step(p)) /\ SF_vars(EnterWrite(p))

FairSpec == Spec /\ Fairness

-----------------------------------------------------------------------------
(* Properties.                                                             *)

\* A goroutine between taking a lock and releasing it.
Inside(p) == pc[p] \in {"body", "detail", "exit"}

\* A handle's write lock keeps everyone else out: while a function that edits
\* the repository runs, no function but Search, of any other goroutine, runs on
\* that handle (the caller of a nested function included, which runs on while it
\* waits for the nested one).
EditExcludesOthers ==
  \A p, q \in Proc :
    /\ Inside(p) /\ Top(p) \in Editors
    /\ q # p /\ call[q] # NoCall /\ H(q) = H(p)
    => ~(Inside(q) /\ Top(q) # "Search") /\ Len(stack[q]) <= 1

\* Everything the commands of one call have read is the branch heads as they
\* are now, for as long as the call can go on reading: what Branches puts
\* together from git branch, show-ref and rev-list, with updates going on in
\* other goroutines, is one consistent picture.
ReadsOneSnapshot ==
  \A p \in Proc : Inside(p) => seen[p] \subseteq {refs[D(p)]}

\* A branch that show-ref listed is still there, and its commit can be read,
\* when Branches comes to its details: no update prunes it between the
\* commands, so Branches does not fail for a branch that has just gone.
ListedBranchesStay ==
  \A p \in Proc : AtDetail(p, "Branches") =>
    \A r \in todo[p] : refs[D(p)][r] \in objs[D(p)]

\* A cross-repository diff or merge base finds the commit it is asked about if
\* some branch of the other repository pointed to it for the whole of the call,
\* although the fetch takes no lock of that repository, reads its branches one
\* at a time, and lets go of its own lock before Diff or MergeBase runs.
CrossRepoFindsHead ==
  \A p \in Proc :
    /\ pc[p] = "exit" /\ Top(p) # "fetchRemote"
    /\ call[p].op \in CrossOps /\ kept[p] # {}
    => res[p] # "notfound"

\* A goroutine waiting for the lock, in RLock or in Lock, with no way on.
Stuck(p) ==
  \/ pc[p] = "wait" /\ p \in blocked[H(p)]
  \/ pc[p] = "wait" /\ writer[H(p)] = p /\ \E q \in Proc : readers[H(p)][q] > 0
  \/ pc[p] = "enter" /\ LockMode(Top(p)) = "write" /\ writer[H(p)] # NoProc

\* If every goroutine that is in a call waits for a lock, one of them waits in
\* a function that was called with the read lock already held.  There is no
\* other way for these methods to block each other, the cross-repository ones
\* included: fetchRemote holds one lock at a time.
OnlyNestedReadsDeadlock ==
  (\E p \in Proc : Stuck(p)) /\ (\A p \in Proc : pc[p] = "idle" \/ Stuck(p))
    => \E p \in Proc : Len(stack[p]) > 1 /\ p \in blocked[H(p)]

\* Every call returns, whatever the other goroutines call.
CallsReturn == \A p \in Proc : call[p] # NoCall ~> call[p] = NoCall

\* No two handles on one directory.  Nothing in the code sees to it: editLock
\* is a handle's own.
OneHandlePerDir == \A h, g \in Handle : DirOf[h] = DirOf[g] => h = g

(* The refinement: the branch heads as the locked reads can see them are   *)
(* those from before the edit while an edit is going on.                   *)
VisibleRefs ==
  [d \in Dir |-> IF \E h \in Handle : active[h] /\ DirOf[h] = d
                 THEN before[CHOOSE h \in Handle : active[h] /\ DirOf[h] = d]
                 ELSE refs[d]]

Where == [p \in Proc |-> IF call[p] = NoCall THEN NoDir ELSE D(p)]

Atomic == INSTANCE AtomicRepo WITH refs <- VisibleRefs, where <- Where, obs <- seen

\* The methods, locks and git commands implement the atomic repository.
ImplementsAtomicRepo == Atomic!AtomicSpec
=============================================================================
