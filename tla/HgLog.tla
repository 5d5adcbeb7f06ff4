------------------------------- MODULE HgLog -------------------------------
(***************************************************************************)
(* The commit log of the native Mercurial implementation: hg/repo.go walks  *)
(* the changelog's revisions back from Head.  A commit is its revision     *)
(* number, 0 .. NumCommits-1; its parents have smaller numbers.             *)
(*                                                                         *)
(* The walk is a machine of one step per turn of the loop, so that what is *)
(* kept and counted on the way is checked too.                             *)
(* What the handle knows of the changelog is HgRepo's matter: here it is a *)
(* number of revisions, cl.                                                *)
(***************************************************************************)
EXTENDS Integers, Sequences, FiniteSets, FiniteSetsExt, Functions

CONSTANTS NumCommits,  \* commits of the repository
          Limits,      \* the values of opt.N
          Skips        \* the values of opt.Skip

ASSUME LogAssumption == NumCommits \in Nat \ {0} /\ Limits \subseteq Nat /\ Skips \subseteq Nat

Rev == 0 .. NumCommits - 1

\* At most two parents; a commit with none starts a branch.
ParentSets(c) == {s \in SUBSET (0 .. c - 1) : Cardinality(s) <= 2}

VARIABLES
  parents,          \* parents[c]: the commit's parents
  cl,               \* the revisions in the handle's changelog index
  head, n, skip, noTotal,   \* the options
  rec,              \* the commit the walk has come to
  commits,          \* the commits it has kept
  total,            \* how many it has counted
  pc

opts == <<head, n, skip, noTotal>>
logVars == <<parents, opts, rec, commits, total, pc>>

Histories == {f \in [Rev -> SUBSET Rev] : \A c \in Rev : f[c] \in ParentSets(c)}

\* No call yet.
LogInit ==
  /\ head = 0 /\ n = 0 /\ skip = 0 /\ noTotal = FALSE
  /\ rec = 0 /\ commits = << >> /\ total = 0
  /\ pc = "idle"

-----------------------------------------------------------------------------
(* hg: getRec and Commits. IsStartOfBranch and Prev (rec - 1) are the revlog *)
(* library's.                                                              *)

IsStartOfBranch(c) == parents[c] = {}

\* A revision that the index does not have is ErrCommitNotFound.
GetRec(id) == IF id < cl THEN id ELSE -1

\* A call of Commits: the lookup of the head, then the loop.
Commits(h, limit, offset, without) ==
  /\ pc = "idle"
  /\ head' = h /\ n' = limit /\ skip' = offset /\ noTotal' = without
  /\ IF GetRec(h) = -1
     THEN pc' = "notFound" /\ UNCHANGED rec
     ELSE pc' = "loop" /\ rec' = GetRec(h)
  /\ UNCHANGED <<parents, commits, total>>

\* A plausible bug: the limit counts the skipped commits too.
KeepsByTotal == total >= skip /\ (n = 0 \/ total < n)

\* The condition under which the loop makes a commit of the record.
Keeps == total >= skip /\ (n = 0 \/ Len(commits) < n)

\* A plausible bug: only the limit ends the loop.
StopsAtLimitOnly == noTotal /\ n # 0 /\ Len(commits') >= n

\* The loop's two ways out; without NoTotal it counts on to the end.
Stops == IsStartOfBranch(rec) \/ (noTotal /\ n # 0 /\ Len(commits') >= n)

Turn ==
  /\ pc = "loop"
  /\ commits' = IF Keeps THEN Append(commits, rec) ELSE commits
  /\ total' = total + 1
  /\ IF Stops THEN pc' = "end" /\ UNCHANGED rec ELSE rec' = rec - 1 /\ UNCHANGED pc
  /\ UNCHANGED <<parents, opts>>

\* makeCommit cannot build the changelog's entry: no commits, an error.
TurnFails ==
  /\ pc = "loop" /\ Keeps
  /\ commits' = << >> /\ total' = 0 /\ pc' = "failed"
  /\ UNCHANGED <<parents, opts, rec>>

Return ==
  /\ pc = "end"
  /\ total' = IF noTotal THEN 0 ELSE total
  /\ pc' = "returned"
  /\ UNCHANGED <<parents, opts, rec, commits>>

LogNext ==
  \/ \E h \in Rev, limit \in Limits, offset \in Skips, without \in BOOLEAN :
       Commits(h, limit, offset, without)
  \/ Turn \/ TurnFails
  \/ Return

\* One call on a handle that has read the whole changelog.
LogSpec ==
  LogInit /\ parents \in Histories /\ cl = NumCommits /\ [][LogNext /\ UNCHANGED cl]_<<logVars, cl>>

-----------------------------------------------------------------------------
(* Properties.                                                             *)

\* The walk stays in the changelog: it never steps before the first revision.
LogTypeOK ==
  /\ rec \in Rev /\ commits \in Seq(Rev) /\ total \in 0 .. NumCommits
  /\ pc \in {"idle", "notFound", "loop", "end", "failed", "returned"}

\* The count revisions from a revision down.
Down(from, count) == [i \in 1 .. count |-> from - i + 1]

\* What is reachable from c: it is in every set that has c and its commits' parents.
Ancestors(c) ==
  {a \in Rev : \A s \in SUBSET Rev : c \in s /\ (\A b \in s : parents[b] \subseteq s) => a \in s}

\* Everything from the first of the head's ancestors to the head is one of them, and
\* only the first has no parents.
OneRun ==
  LET first == Min(Ancestors(head))
  IN  \A c \in first .. head : c \in Ancestors(head) /\ (parents[c] = {} => c = first)

\* Where the head's ancestors are one run of revisions, merges within it included,
\* what hg's Commits returns is the page of them that Skip and N ask for, the same
\* whether or not a total is asked for, and the total is the number of ancestors,
\* whatever the page.  On any history no more than N commits are returned, none
\* twice, and a caller that does not want the total does not pay for it: no
\* revision is read beyond the last of the page.
PageOfAncestors ==
  /\ pc = "returned" /\ OneRun =>
       LET count == Cardinality(Ancestors(head)) IN
       /\ commits = SubSeq(Down(head, count), skip + 1,
                           IF n = 0 THEN count ELSE Min({skip + n, count}))
       /\ total = IF noTotal THEN 0 ELSE count
  /\ n # 0 => Len(commits) <= n
  /\ \A i, j \in DOMAIN commits : i < j => commits[j] < commits[i]
  /\ noTotal /\ n # 0 => total <= skip + n

\* "Head CommitID // include all commits reachable from this commit" (repository.go):
\* a log without a limit is of the commits reachable from its head.
LogIsReachable ==
  pc = "returned" /\ n = 0 /\ skip = 0 => Range(commits) = Ancestors(head)
=============================================================================
