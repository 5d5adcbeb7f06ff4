------------------------------- MODULE HgRepo -------------------------------
(***************************************************************************)
(* A Mercurial repository on disk, and a native handle of it: what          *)
(* hg.Open reads once (the changelog index, then the tags, then the branch *)
(* heads) and answers from for good, beside what it reads from the disk at *)
(* each call (file logs, and everything inherited from hgcmd).  Meanwhile  *)
(* the handle's own UpdateEverything or another process pulls.             *)
(*                                                                         *)
(* The history that there will be is chosen at the start; the disk has a   *)
(* growing prefix of it.  A commit is its revision number.                 *)
(***************************************************************************)
EXTENDS HgLog, HgFiles, HgBlame

CONSTANTS Names,      \* names of branches and of tags
          Scenarios   \* what there will be in the end, and how much of it at first

VARIABLES
  manifest,     \* manifest[c]: the files of commit c
  branch,       \* branch[c]: the name of the branch that c is on
  tagged,       \* tagged[t]: the commit that t names, and the one that says so
  onDisk,       \* revisions on the disk
  hpc,          \* how far Open is
  allTags,      \* the handle's tags, by name
  branchHeads,  \* the handle's branch heads, by name
  opened,       \* commits whose file system a caller has
  calls,        \* the methods with a course of their own that callers call
  overlapped    \* whether something was pulled between Open's reads

disk == <<manifest, branch, tagged, onDisk>>
handle == <<hpc, cl, allTags, branchHeads, opened, overlapped, calls>>
vars == <<disk, handle, logVars, blameVars>>

ASSUME ScenarioAssumption ==
  \A s \in Scenarios :
    /\ s.parents \in Histories
    /\ \A c \in Rev : IsManifest(s.manifest[c]) /\ s.branch[c] \in Names
    /\ \A t \in DOMAIN s.tagged : 
         t \in Names /\ s.tagged[t].since \in Nat /\ s.tagged[t].names \in 0 .. s.tagged[t].since
    /\ s.first \in 1 .. NumCommits
    /\ s.calls \subseteq {"FileSystem", "Commits", "BlameFile"}

NoNames == [t \in {} |-> 0]

Init ==
  /\ \E s \in Scenarios :
       /\ parents = s.parents /\ manifest = s.manifest /\ branch = s.branch
       /\ tagged = s.tagged /\ onDisk = s.first /\ calls = s.calls
  /\ hpc = "changelog" /\ cl = 0 /\ allTags = NoNames /\ branchHeads = NoNames
  /\ opened = {} /\ overlapped = FALSE
  /\ LogInit /\ BlameInit

-----------------------------------------------------------------------------
(* The disk, when it has k revisions.                                      *)

\* The newest commit of each branch.
HeadsOf(k) == [b \in {branch[c] : c \in 0 .. k - 1} |-> Max({c \in 0 .. k - 1 : branch[c] = b})]

TagsOf(k) == [t \in {u \in DOMAIN tagged : tagged[u].since < k} |-> tagged[t].names]

\* "tip" is a tag, too.
WithTip(tags, k) == [t \in DOMAIN tags \cup {"tip"} |-> IF t = "tip" THEN k - 1 ELSE tags[t]]

FileLogs(k) == UNION {DOMAIN manifest[c] : c \in 0 .. k - 1}

\* Whether the file p of commit c has content that it had in no commit before.
IsNewContent(c, p) ==
  \A b \in 0 .. c - 1 : p \in DOMAIN manifest[b] => manifest[b][p].id # manifest[c][p].id

\* The file logs: what a pull adds is recorded with the revision that brought it.
Logs(k) ==
  [p \in FileLogs(k) |->
     {Record(manifest[c][p].id, c) :
        c \in {b \in 0 .. k - 1 : p \in DOMAIN manifest[b] /\ IsNewContent(b, p)}}]

-----------------------------------------------------------------------------
(* hg.Open: four reads with other processes' steps between them.           *)

OpenChangeLog ==
  /\ hpc = "changelog"
  /\ cl' = onDisk /\ hpc' = "tags"
  /\ UNCHANGED <<disk, allTags, branchHeads, opened, overlapped, calls, logVars, blameVars>>

ReadTags ==
  /\ hpc = "tags"
  /\ allTags' = WithTip(TagsOf(onDisk), cl) /\ hpc' = "heads"
  /\ UNCHANGED <<disk, cl, branchHeads, opened, overlapped, calls, logVars, blameVars>>

ReadBranchHeads ==
  /\ hpc = "heads"
  /\ branchHeads' = HeadsOf(onDisk) /\ hpc' = "hgcmd"
  /\ UNCHANGED <<disk, cl, allTags, opened, overlapped, calls, logVars, blameVars>>

\* A plausible bug: the index is read last.
OpenHgcmdReadsLog ==
  /\ hpc = "hgcmd"
  /\ hpc' = "open" /\ cl' = onDisk
  /\ UNCHANGED <<disk, allTags, branchHeads, opened, overlapped, calls, logVars, blameVars>>

\* hgcmd.Open looks for the directory .hg.
OpenHgcmd ==
  /\ hpc = "hgcmd"
  /\ hpc' = "open"
  /\ UNCHANGED <<disk, cl, allTags, branchHeads, opened, overlapped, calls, logVars, blameVars>>

\* Each read but that of the tags may fail.
OpenFails ==
  /\ hpc \in {"changelog", "heads", "hgcmd"}
  /\ hpc' = "failed"
  /\ UNCHANGED <<disk, cl, allTags, branchHeads, opened, overlapped, calls, logVars, blameVars>>

-----------------------------------------------------------------------------
(* Pulls.                                                                  *)

\* A plausible bug: UpdateEverything reads the heads again, and not the index.
UpdateRefreshesHeads ==
  /\ hpc = "open"
  /\ \E k \in onDisk .. NumCommits : onDisk' = k /\ branchHeads' = HeadsOf(k)
  /\ UNCHANGED <<manifest, branch, tagged, hpc, cl, allTags, opened, overlapped, calls, logVars, blameVars>>

\* hgcmd's UpdateEverything: with SSH options an error at once; else hg pull,
\* which changes nothing when it fails.  The handle's snapshot stays as it is.
UpdateEverything ==
  /\ hpc = "open"
  /\ \E k \in onDisk .. NumCommits : onDisk' = k
  /\ UNCHANGED <<manifest, branch, tagged, handle, logVars, blameVars>>

\* Another handle of the directory, or a user, pulls at any time.
OtherPull ==
  /\ onDisk < NumCommits
  /\ onDisk' = onDisk + 1
  /\ overlapped' = (overlapped \/ hpc \in {"tags", "heads"})
  /\ UNCHANGED <<manifest, branch, tagged, hpc, cl, allTags, branchHeads, opened, calls, logVars, blameVars>>

-----------------------------------------------------------------------------
(* The handle's methods.                                                   *)

ResolveBranch(name) == IF name \in DOMAIN branchHeads THEN branchHeads[name] ELSE -1

ResolveTag(name) == IF name \in DOMAIN allTags THEN allTags[name] ELSE -1

\* A revision specifier is a name, the digits of a number or those of an id; an
\* empty one has no name.
NoName == ""

\* The id that the specifier "null" stands for, which is no commit's; -1 is an error.
NullRev == -2

Specs ==
  [kind : {"name"}, name : Names \cup {"tip", "null", NoName}, rev : {0}] \cup
  [kind : {"number", "id"}, name : {NoName}, rev : Rev]

\* parseRevisionSpec and the lookup in the index: "" and "tip" are the newest
\* revision there, "null" is none, a tag is its commit, a number counts revisions.
LookupSpec(spec) ==
  IF spec.kind # "name" THEN GetRec(spec.rev)
  ELSE IF spec.name \in {NoName, "tip"} THEN cl - 1
  ELSE IF spec.name = "null" THEN NullRev
  ELSE IF spec.name \in DOMAIN allTags THEN GetRec(allTags[spec.name])
  ELSE -1

\* A branch before a tag before everything else.
ResolveRevision(spec) ==
  IF spec.kind = "name" /\ ResolveBranch(spec.name) # -1 THEN ResolveBranch(spec.name)
  ELSE IF spec.kind = "name" /\ ResolveTag(spec.name) # -1 THEN ResolveTag(spec.name)
  ELSE LookupSpec(spec)

Branches == {[name |-> b, head |-> branchHeads[b]] : b \in DOMAIN branchHeads}

Tags == {[name |-> t, id |-> allTags[t]] : t \in DOMAIN allTags}

GetCommit(id) == IF GetRec(id) = -1 THEN "ErrCommitNotFound" ELSE "found"

FileSystem(id) ==
  /\ hpc = "open" /\ "FileSystem" \in calls
  /\ GetRec(id) # -1
  /\ opened' = opened \cup {id}
  /\ UNCHANGED <<disk, hpc, cl, allTags, branchHeads, overlapped, calls, logVars, blameVars>>

\* hgFSNative at commit r: the manifest is found through the index, the file logs
\* are those on the disk.
LstatAt(r, p) == Lstat(manifest[r], Logs(onDisk), r, p)
StatAt(r, p) == Stat(manifest[r], Logs(onDisk), r, p)
OpenAt(r, p) == OpenFile(manifest[r], Logs(onDisk), r, p)

CallCommits ==
  /\ hpc = "open" /\ "Commits" \in calls
  /\ \E h \in Rev, limit \in Limits, offset \in Skips, without \in BOOLEAN :
       Commits(h, limit, offset, without)
  /\ UNCHANGED <<disk, handle, blameVars>>

CommitsGoesOn ==
  /\ Turn \/ TurnFails \/ Return
  /\ UNCHANGED <<disk, handle, blameVars>>

CallBlame ==
  /\ hpc = "open" /\ "BlameFile" \in calls
  /\ StartAnnotate
  /\ UNCHANGED <<disk, handle, logVars>>

BlameGoesOn ==
  /\ DecodeReads \/ DecodeEnds \/ ErrorsRead \/ ErrorsEnd \/ WaitReturns
  /\ UNCHANGED <<disk, handle, logVars>>

AnnotateGoesOn ==
  /\ ProcessWrites \/ ProcessExits
  /\ UNCHANGED <<disk, handle, logVars>>

-----------------------------------------------------------------------------
(* hgcmd's methods, which the handle inherits or replaces: they ask hg each *)
(* time, and so see the disk.                                              *)

CmdGetCommit(id) == IF id < onDisk THEN "found" ELSE "ErrCommitNotFound"

\* Diff fails for a base or a head that hg does not know.
CmdDiff(base, top) == IF base < onDisk /\ top < onDisk THEN "found" ELSE "ErrCommitNotFound"

-----------------------------------------------------------------------------

Next ==
  \/ OpenChangeLog \/ ReadTags \/ ReadBranchHeads \/ OpenHgcmd \/ OpenFails
  \/ UpdateEverything \/ OtherPull
  \/ \E id \in Rev : FileSystem(id)
  \/ CallCommits \/ CommitsGoesOn
  \/ CallBlame \/ BlameGoesOn \/ AnnotateGoesOn

\* A call that has begun goes on, and so does the process that it started.
Spec ==
  Init /\ [][Next]_vars
       /\ WF_vars(CommitsGoesOn) /\ WF_vars(BlameGoesOn) /\ WF_vars(AnnotateGoesOn)

-----------------------------------------------------------------------------
(* Properties.                                                             *)

TypeOK ==
  /\ onDisk \in 1 .. NumCommits /\ cl \in 0 .. onDisk
  /\ hpc \in {"changelog", "tags", "heads", "hgcmd", "open", "failed"}
  /\ \A t \in DOMAIN allTags : t \in Names \cup {"tip"} /\ allTags[t] \in Rev
  /\ \A b \in DOMAIN branchHeads : b \in Names /\ branchHeads[b] \in Rev
  /\ opened \subseteq 0 .. cl - 1
  /\ LogTypeOK /\ BlameTypeOK

\* What a handle resolves to a commit, its other methods find.  Those inherited from hgcmd
\* always do.  The native ones do unless a pull came between Open's reads: the
\* heads and tags are read after the index, and may then name a commit that the
\* index does not have; no later pull can bring that about.
ResolvedIsReadable ==
  hpc = "open" =>
    \A spec \in Specs :
      LET id == ResolveRevision(spec) IN
      id \notin {-1, NullRev} =>
        /\ CmdGetCommit(id) = "found" /\ \A base \in 0 .. cl - 1 : CmdDiff(base, id) = "found"
        /\ GetCommit(id) = "found" \/ overlapped

\* The other way round: no commit of the index is on a branch that the handle
\* does not list, or lies beyond that branch's head, whatever is pulled while
\* the handle is opened or later.  This is why the index is to be read first.
EveryBranchListed ==
  hpc = "open" =>
    \A c \in 0 .. cl - 1 : \E b \in Branches : b.name = branch[c] /\ c <= b.head

\* Every path that any commit has.
Paths == UNION {DOMAIN manifest[c] \cup Dirs(manifest[c]) : c \in Rev}

\* A file tree that a caller has opened does not change under it while revisions
\* are pulled, though their contents are added to the logs that it reads: what
\* Open and Lstat may come to stays the same, except that a directory is lost once
\* a pulled revision has a file by its name.
FilesStay ==
  [][\A r \in opened : \A p \in Paths :
       /\ OpenAt(r, p)' = OpenAt(r, p)
       /\ \/ LstatAt(r, p)' = LstatAt(r, p)
          \/ "dir" \in LstatAt(r, p) /\ p \in FileLogs(onDisk') \ FileLogs(onDisk)]_vars

\* ReadDir and Lstat agree: a listed name can be stated and is what the listing
\* says, except for directories that some revision on disk has as a file; and
\* whatever a path may be stated to be is listed above it.
ListedIsStated ==
  hpc = "open" =>
    \A r \in 0 .. cl - 1 :
      /\ \A d \in Dirs(manifest[r]) : \A e \in ReadDir(manifest[r], d) :
           LET p == Append(d, e.name) IN
             \/ e.mode \in LstatAt(r, p)
             \/ e.mode = "dir" /\ p \in FileLogs(onDisk) /\ LstatAt(r, p) = {Failed, NotExist}
      /\ \A p \in Paths \ {<< >>} : \A mode \in LstatAt(r, p) \ {Failed, NotExist} :
           [name |-> Last(p), mode |-> mode] \in ReadDir(manifest[r], Front(p))

\* A file at most k levels below the directory p.
Near(m, p, k) == \E f \in FilesBelow(m, p) : Len(f) <= Len(p) + k

\* The two implementations tell the same of any commit of the index, whatever has
\* been pulled since.  When hgo offers the record that the manifest names, Open
\* gives what hg cat prints, and it is always among what Open may give; Stat of a
\* plain file is the same.  Of directories that have a file within two levels (the
\* pattern of hgcmd's ReadDir lets no more through), hgcmd's Stat knows that they are
\* directories, and its listing names nothing that the native one does not, and
\* everything that is a file or has one directly in it.
ImplementationsAgree ==
  hpc = "open" =>
    \A r \in 0 .. cl - 1 : LET m == manifest[r] IN
      /\ \A p \in DOMAIN m :
           /\ CmdOpen(m, p) \in OpenAt(r, p)
           /\ \A maybe \in MaybeAncestors(Logs(onDisk)[p], r) :
                (\E x \in maybe : x.id = m[p].id) =>
                  {OpenOf(e) : e \in GetEntry(m, Logs(onDisk), maybe, p)} = {CmdOpen(m, p)}
           /\ m[p].mode = "file" => CmdStat(m, p) \in StatAt(r, p)
      /\ \A d \in {x \in Dirs(m) \ {<< >>} : Near(m, x, 2)} :
           LET names  == {e.name : e \in ReadDir(m, d)}
               listed == CmdReadDir(m, d)
           IN  /\ CmdStat(m, d) = "dir"
               /\ d \notin FileLogs(onDisk) => CmdStat(m, d) \in StatAt(r, d)
               /\ listed.err = "none"
               /\ {e.name : e \in listed.list} \subseteq names
               /\ \A x \in names :
                    Append(d, x) \in DOMAIN m \/ Near(m, Append(d, x), 1) =>
                      x \in {e.name : e \in listed.list}
=============================================================================
