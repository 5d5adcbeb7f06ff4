------------------------------- MODULE GitRepo -------------------------------
(***************************************************************************)
(* git/repo.go: goroutines calling the methods of a git handle that reads   *)
(* the directory itself where it can and falls back on gitcmd where it     *)
(* cannot.  What it reads itself it reads without a lock; what gitcmd does  *)
(* it does under the handle's editLock.                                    *)
(*                                                                         *)
(* The locking itself is GitcmdRepo's matter; here a locked command waits   *)
(* for the edit to end, and an edit for the locked commands.  Callers that  *)
(* have a handle each, in one process or in several, exclude nobody.       *)
(*                                                                         *)
(* A commit is a number; the history is linear, and a commit contains the   *)
(* smaller ones.                                                           *)
(***************************************************************************)
EXTENDS GitFiles

CONSTANTS Callers,     \* the goroutines
          Nobody,      \* no goroutine
          Names,       \* names of branches and tags
          Main,        \* the branch that HEAD names
          NumCommits,  \* commits there are, here or at the remote
          TreeOf,      \* the tree of each commit
          Requests     \* the calls that are made

Commits == 0 .. NumCommits - 1
None == -1             \* a ref that does not exist
Empty == -2            \* the empty commit ID

\* A revision specifier is a name, HEAD among them, the 40 digits of a commit
\* ID, or something that begins with a dash.
Spec40(c) == [kind |-> "id", name |-> "", id |-> c]
SpecName(x) == [kind |-> "name", name |-> x, id |-> None]
Dashed == [kind |-> "dashed", name |-> "", id |-> None]
Specs == {Spec40(c) : c \in Commits} \cup {SpecName(x) : x \in Names \cup {"HEAD"}} \cup {Dashed}

\* A call: the method, what it is to resolve, the commit it asks about, and the
\* two filters of Branches.
Request(op, spec, id, merged, contains) ==
  [op |-> op, spec |-> spec, id |-> id, merged |-> merged, contains |-> contains]
Resolve(op, spec) == Request(op, spec, None, "", None)
About(op, id) == Request(op, Dashed, id, "", None)
BranchesCall(merged, contains) == Request("Branches", Dashed, None, merged, contains)
Update == About("UpdateEverything", None)
NoCall == About("none", None)

Resolvers == {"ResolveRevision", "ResolveBranch", "ResolveTag"}

ASSUME GitRepoAssumption ==
  /\ Nobody \notin Callers /\ Main \in Names /\ "HEAD" \notin Names /\ NumCommits \in Nat \ {0}
  /\ \A c \in Commits : IsTree(TreeOf[c])
  /\ \A k \in Requests :
       /\ k.op \in Resolvers \cup {"GetCommit", "FileSystem", "Branches", "UpdateEverything"}
       /\ k.spec \in Specs

VARIABLES
  heads, tags,   \* the commits that branches and tags point to, or None
  objs,          \* the commits in the object store
  sameHandle,    \* whether the callers share one handle
  editor,        \* the goroutine that edits the directory
  toMove,        \* the refs it has not come to
  call,          \* call[p]: the call p is in
  pc,            \* pc[p]: where it is
  allowed,       \* allowed[p]: the branches that its filters pass
  answer,        \* answer[p]: what the last call has returned
  fsAt,          \* fsAt[p]: the commit whose file system p has
  \* History variables: no action reads them.
  named,         \* named[p]: what the spec has meant since the call began
  failed,        \* failed[p]: whether a command of the call failed
  quiet          \* quiet[p]: whether no ref has moved since the call began

refVars == <<heads, tags, objs>>
history == <<named, failed, quiet>>
gitVars == <<refVars, sameHandle, editor, toMove, call, pc, allowed, answer, fsAt, history>>

Answer(err, id) == [err |-> err, id |-> id, list |-> {}]
NoAnswer == Answer("none", Empty)

GitInit ==
  /\ heads \in [Names -> {0, None}] /\ heads[Main] # None
  /\ tags \in [Names -> {0, None}]
  /\ objs = {0} /\ sameHandle \in BOOLEAN /\ editor = Nobody /\ toMove = {}
  /\ call = [p \in Callers |-> NoCall] /\ pc = [p \in Callers |-> "idle"]
  /\ allowed = [p \in Callers |-> {}] /\ answer = [p \in Callers |-> NoAnswer]
  /\ fsAt = [p \in Callers |-> None]
  /\ named = [p \in Callers |-> {}] /\ failed = [p \in Callers |-> FALSE]
  /\ quiet = [p \in Callers |-> TRUE]

-----------------------------------------------------------------------------
(* What git and the go-git library find.                                   *)

\* Every commit that spec means: a branch, a tag, what HEAD names, a commit; if
\* there is none, None.
Meanings(spec) ==
  LET ids == CASE spec.kind = "id"        -> {spec.id} \cap objs
               [] spec.kind = "dashed"    -> {}
               [] spec = SpecName("HEAD") -> {heads[Main]} \ {None}
               [] OTHER                   -> {heads[spec.name], tags[spec.name]} \ {None}
  IN  IF ids = {} THEN {None} ELSE ids

\* A plausible bug: a name is looked for among the tags only.
RevParseTags(spec) ==
  CASE spec.kind = "name" /\ spec.name \in Names -> tags[spec.name]
    [] OTHER -> CHOOSE id \in Meanings(spec) : TRUE

\* git rev-parse takes a tag before a branch.
RevParse(spec) ==
  CASE spec.kind = "name" /\ spec.name \in Names /\ tags[spec.name] # None -> tags[spec.name]
    [] OTHER -> CHOOSE id \in Meanings(spec) : TRUE

\* gitcmd.ResolveRevision: an unsafe argument is refused, and the command may
\* fail for a reason of its own; both are errors other than ErrRevisionNotFound.
RevisionAnswers(spec) ==
  {Answer("failed", Empty)} \cup
  IF spec.kind = "dashed" THEN {}
  ELSE IF RevParse(spec) = None THEN {Answer("revisionNotFound", Empty)}
  ELSE {Answer("none", RevParse(spec))}

\* gitcmd.ResolveTag passes on only ErrRevisionNotFound, as ErrTagNotFound: after
\* any other error it returns no error and the ID that came with it, which is "".
TagAnswer(a) ==
  IF a.err = "revisionNotFound" THEN Answer("tagNotFound", Empty) ELSE Answer("none", a.id)

\* GetCommitIdOfBranch reads one ref.
BranchHead(spec) == IF spec.kind = "name" /\ spec.name \in Names THEN heads[spec.name] ELSE None

-----------------------------------------------------------------------------
(* Calls.                                                                  *)

FirstPc(op) ==
  CASE op = "ResolveRevision" -> "commit" [] op = "ResolveBranch" -> "branch"
    [] op = "ResolveTag" -> "tag" [] op = "Branches" -> "filter"
    [] OTHER -> "call"

Ask(p, k) ==
  /\ pc[p] \in {"idle", "done"}
  /\ call' = [call EXCEPT ![p] = k]
  /\ pc' = [pc EXCEPT ![p] = FirstPc(k.op)]
  /\ answer' = [answer EXCEPT ![p] = NoAnswer]
  /\ named' = [named EXCEPT ![p] = Meanings(k.spec)]
  /\ failed' = [failed EXCEPT ![p] = FALSE]
  /\ quiet' = [quiet EXCEPT ![p] = TRUE]
  /\ UNCHANGED <<refVars, sameHandle, editor, toMove, allowed, fsAt>>

Returns(p, a) ==
  /\ answer' = [answer EXCEPT ![p] = a]
  /\ pc' = [pc EXCEPT ![p] = "done"]

At(p, op, where) == pc[p] = where /\ call[p].op = op

\* A command under editLock: no edit through the same handle is going on.
Locked(p) == sameHandle => editor = Nobody

\* The library lists the packs when it opens the directory: a commit fetched into
\* a pack since then it does not find.
Finds(id) == IF id \in objs THEN {TRUE, id = 0} ELSE {FALSE}

\* 40 digits that are a commit's are that commit.
LookupCommit(p) ==
  /\ At(p, "ResolveRevision", "commit")
  /\ \E found \in IF call[p].spec.kind = "id" THEN Finds(call[p].spec.id) ELSE {FALSE} :
     IF found
     THEN Returns(p, Answer("none", call[p].spec.id))
     ELSE pc' = [pc EXCEPT ![p] = "branch"] /\ UNCHANGED answer
  /\ UNCHANGED <<refVars, sameHandle, editor, toMove, call, allowed, fsAt, history>>

\* The library's other errors are like a missing branch to ResolveRevision; to
\* ResolveBranch's caller they are errors of their own.
LookupBranch(p) ==
  /\ pc[p] = "branch"
  /\ \E id \in {BranchHead(call[p].spec), None} :
       /\ failed' = [failed EXCEPT ![p] = @ \/ id # BranchHead(call[p].spec)]
       /\ CASE id # None -> Returns(p, Answer("none", id))
            [] id = None /\ call[p].op = "ResolveBranch" ->
                 Returns(p, Answer(IF failed'[p] THEN "failed" ELSE "branchNotFound", Empty))
            [] OTHER -> pc' = [pc EXCEPT ![p] = "tag"] /\ UNCHANGED answer
  /\ UNCHANGED <<refVars, sameHandle, editor, toMove, call, allowed, fsAt, named, quiet>>

LookupTag(p) ==
  /\ pc[p] = "tag" /\ Locked(p)
  /\ \E a \in RevisionAnswers(call[p].spec) :
       /\ failed' = [failed EXCEPT ![p] = @ \/ a.err = "failed"]
       /\ IF call[p].op = "ResolveTag" \/ TagAnswer(a).err = "none"
          THEN Returns(p, TagAnswer(a))
          ELSE pc' = [pc EXCEPT ![p] = "fallback"] /\ UNCHANGED answer
  /\ UNCHANGED <<refVars, sameHandle, editor, toMove, call, allowed, fsAt, named, quiet>>

\* Whatever the fallback's error is, ErrRevisionNotFound is returned.
Fallback(p) ==
  /\ pc[p] = "fallback" /\ Locked(p)
  /\ \E a \in RevisionAnswers(call[p].spec) :
       /\ failed' = [failed EXCEPT ![p] = @ \/ a.err = "failed"]
       /\ Returns(p, IF a.err = "none" THEN a ELSE Answer("revisionNotFound", Empty))
  /\ UNCHANGED <<refVars, sameHandle, editor, toMove, call, allowed, fsAt, named, quiet>>

GetCommit(p) ==
  /\ At(p, "GetCommit", "call")
  /\ \E found \in Finds(call[p].id) :
       Returns(p, IF found THEN Answer("none", call[p].id) ELSE Answer("commitNotFound", Empty))
  /\ UNCHANGED <<refVars, sameHandle, editor, toMove, call, allowed, fsAt, history>>

FileSystem(p) ==
  /\ At(p, "FileSystem", "call")
  /\ \E found \in Finds(call[p].id) :
     IF found
     THEN Returns(p, Answer("none", call[p].id)) /\ fsAt' = [fsAt EXCEPT ![p] = call[p].id]
     ELSE Returns(p, Answer("failed", Empty)) /\ UNCHANGED fsAt
  /\ UNCHANGED <<refVars, sameHandle, editor, toMove, call, allowed, history>>

-----------------------------------------------------------------------------
(* Branches is gitcmd's: git branch --merged and --contains, then show-ref. *)

Existing == {b \in Names : heads[b] # None}

MergedInto(b) == {x \in Existing : heads[x] <= heads[b]}
Containing(c) == {x \in Existing : heads[x] >= c}

\* git branch fails for a branch or a commit that it does not find.  An error of
\* git show-ref's after it is returned in the same way.
BranchesFilter(p) ==
  LET k == call[p] IN
  /\ pc[p] = "filter" /\ Locked(p)
  /\ \/ /\ k.merged # "" => k.merged \in Existing
        /\ k.contains # None => k.contains \in objs
        /\ allowed' = [allowed EXCEPT ![p] =
             (IF k.merged = "" THEN {} ELSE MergedInto(k.merged)) \cup
             (IF k.contains = None THEN {} ELSE Containing(k.contains))]
        /\ pc' = [pc EXCEPT ![p] = "list"]
        /\ UNCHANGED <<answer, failed>>
     \/ /\ Returns(p, Answer("failed", Empty))
        /\ failed' = [failed EXCEPT ![p] = TRUE]
        /\ UNCHANGED allowed
  /\ UNCHANGED <<refVars, sameHandle, editor, toMove, call, fsAt, named, quiet>>

\* branchFilter.allows: a filter that no branch has met lets every branch pass.
Allows(p, b) == allowed[p] = {} \/ b \in allowed[p]

\* Still under the lock.
BranchesList(p) ==
  /\ pc[p] = "list"
  /\ answer' = [answer EXCEPT ![p].list =
       {[name |-> b, head |-> heads[b]] : b \in {x \in Existing : Allows(p, x)}}]
  /\ pc' = [pc EXCEPT ![p] = "listed"]
  /\ UNCHANGED <<refVars, sameHandle, editor, toMove, call, allowed, fsAt, history>>

BranchesReturn(p) ==
  /\ pc[p] = "listed"
  /\ pc' = [pc EXCEPT ![p] = "done"]
  /\ UNCHANGED <<refVars, sameHandle, editor, toMove, call, allowed, answer, fsAt, history>>

-----------------------------------------------------------------------------
(* UpdateEverything is gitcmd's.                                           *)

\* A plausible bug: Branches lets go of the lock when it has its filter, and takes
\* it again for show-ref.
InsideLockAgain(p) == pc[p] = "listed"

\* Branches is between its first command and its deferred RUnlock.
InsideLock(p) == pc[p] \in {"list", "listed"}

UpdateBegins(p) ==
  /\ At(p, "UpdateEverything", "call") /\ editor = Nobody
  /\ sameHandle => \A q \in Callers : ~InsideLock(q)
  /\ editor' = p
  /\ toMove' = {"heads", "tags"} \X Names
  /\ pc' = [pc EXCEPT ![p] = "update"]
  /\ UNCHANGED <<refVars, sameHandle, call, allowed, answer, fsAt, history>>

\* A plausible bug: the refs move before their commits are fetched.
FetchedLater(c) == {}

\* The commits that the fetch of c brings.
Fetched(c) == {c} \ {None}

\* git remote update --prune moves, creates or prunes one ref at a time, and has
\* fetched a commit before a ref points to it.
UpdateRef(p) ==
  /\ pc[p] = "update"
  /\ UNCHANGED <<sameHandle, editor, call, pc, allowed, answer, fsAt, failed>>
  /\ \E r \in toMove, c \in Commits \cup {None} :
       /\ heads' = IF r[1] = "heads" THEN [heads EXCEPT ![r[2]] = c] ELSE heads
       /\ tags' = IF r[1] = "tags" THEN [tags EXCEPT ![r[2]] = c] ELSE tags
       /\ objs' = objs \cup Fetched(c)
       /\ toMove' = toMove \ {r}
  /\ named' = [q \in Callers |-> named[q] \cup Meanings(call[q].spec)']
  /\ quiet' = [q \in Callers |-> FALSE]

UpdateReturns(p) ==
  /\ pc[p] = "update"
  /\ editor' = Nobody /\ toMove' = {}
  /\ \E err \in {"none", "failed"} : Returns(p, Answer(err, Empty))
  /\ UNCHANGED <<refVars, sameHandle, call, allowed, fsAt, history>>

GitStep(p) ==
  \/ LookupCommit(p) \/ LookupBranch(p) \/ LookupTag(p) \/ Fallback(p)
  \/ GetCommit(p) \/ FileSystem(p)
  \/ BranchesFilter(p) \/ BranchesList(p) \/ BranchesReturn(p)
  \/ UpdateBegins(p) \/ UpdateRef(p) \/ UpdateReturns(p)

-----------------------------------------------------------------------------
(* Properties.                                                             *)

PCs == {"idle", "commit", "branch", "tag", "fallback", "call", "filter", "list", "listed",
        "update", "done"}

GitTypeOK ==
  /\ heads \in [Names -> Commits \cup {None}] /\ tags \in [Names -> Commits \cup {None}]
  /\ {heads[b] : b \in Existing} \subseteq objs
  /\ pc \in [Callers -> PCs] /\ editor \in Callers \cup {Nobody}
  /\ \A p \in Callers : answer[p].id \in objs \cup {Empty} /\ fsAt[p] \in objs \cup {None}

\* ResolveRevision looks four times, with updates in between.  A commit that it
\* returns is one that the specifier meant at some moment of the call, and it
\* says that there is none only if at some moment there was none, or a lookup
\* failed: a name that is moved from a branch to a tag meanwhile is not missed.
\* With no update going on a branch comes before a tag of the same name.  (That
\* it may return the empty ID and no error is ResolvedOrError's matter.)
ResolvesAtSomeMoment ==
  \A p \in Callers : At(p, "ResolveRevision", "done") =>
    LET a == answer[p]  spec == call[p].spec IN
    /\ a.err = "none" /\ a.id # Empty => a.id \in named[p]
    /\ a.err # "none" => None \in named[p] \/ failed[p]
    /\ a.err = "none" /\ quiet[p] /\ ~failed[p] /\ BranchHead(spec) # None => a.id = BranchHead(spec)

\* "ResolveRevision returns the revision that the given revision specifier resolves
\* to, or a non-nil error if there is no such revision" (repository.go, git/repo.go):
\* it never returns the empty ID and no error.  Of gitcmd's ResolveTag, which takes
\* any error but ErrRevisionNotFound for none, it does.
ResolvedOrError ==
  \A p \in Callers :
    At(p, "ResolveRevision", "done") /\ answer[p].err = "none" => answer[p].id # Empty

\* A branch that meets what the caller asked for.
MeetsFilters(k, b) ==
  /\ k.merged # "" => b \in MergedInto(k.merged)
  /\ k.contains # None => b \in Containing(k.contains)

\* Filter and list are different commands, but callers that share the handle get
\* one moment: every branch that Branches lists exists and has that head, and it
\* misses no branch that meets every filter given.
BranchesFiltered ==
  \A p \in Callers : pc[p] = "listed" /\ sameHandle =>
    /\ \A e \in answer[p].list : e.name \in Existing /\ e.head = heads[e.name]
    /\ \A b \in Existing : MeetsFilters(call[p], b) => [name |-> b, head |-> heads[b]] \in answer[p].list

\* "MergedInto will cause the returned list to be restricted to only branches that
\* were merged into this branch name", and ContainsCommit "filters the list of
\* branches to only those that contain a specific commit ID" (vcs.proto): what is
\* listed meets each filter that is given.  The code lists what meets either, and
\* everything when nothing does.
FiltersRestrict ==
  \A p \in Callers : pc[p] = "listed" /\ sameHandle =>
    \A e \in answer[p].list : MeetsFilters(call[p], e.name)

\* The file system of a commit that a caller has got tells the same as gitcmd's
\* of that commit: through links, of submodules, of what is missing.  Only, gitcmd
\* opens a directory like a file, and reads a submodule as a directory of itself.
TreesAgree ==
  \A p \in Callers : fsAt[p] # None =>
    LET t == TreeOf[fsAt[p]]
    IN  \A c \in Commits : \A q \in DOMAIN TreeOf[c] \cup {<< >>} :
          /\ NativeLstat(t, q) = CmdLstat(t, q) /\ NativeStat(t, q) = CmdStatAt(t, q)
          /\ NativeReadDir(t, q) = CmdReadDirAt(t, q) \/ NativeLstat(t, q).kind = "submodule"
          /\ NativeOpen(t, q) = CmdOpenAt(t, q) \/ NativeLstat(t, q).kind = "tree"
=============================================================================
