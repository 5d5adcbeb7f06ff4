---------------------------- MODULE HgRepo_proof ----------------------------
(***************************************************************************)
(* Proofs about HgRepo: for any history, any naming of its commits, and     *)
(* pulls at any moment.                                                    *)
(***************************************************************************)
EXTENDS HgRepo, WellFoundedInduction, FiniteSetTheorems, TLAPS

-----------------------------------------------------------------------------
(* The greatest of some revisions.                                         *)

LEMMA MaxRevision ==
  ASSUME NEW k \in Nat, NEW S \in SUBSET (0 .. k - 1), S # {}
  PROVE  Max(S) \in S /\ \A c \in S : c <= Max(S)
<1>. DEFINE T == {k - c : c \in S}
            Less == OpToRel(<, Nat)
<1>1. T \subseteq Nat /\ T # {}
  OBVIOUS
<1>2. IsWellFoundedOn(Less, Nat)
  BY NatLessThanWellFounded
<1>7. ASSUME NEW x \in Nat, NEW y \in Nat, y < x PROVE <<y, x>> \in Less
  BY <1>7, Zenon DEF OpToRel
<1>. HIDE DEF Less
<1>3. PICK x \in T : \A y \in T : ~ (<<y, x>> \in Less)
  BY <1>1, <1>2, WFMin
<1>4. ASSUME NEW y \in T PROVE x <= y
  <2>1. x \in Nat /\ y \in Nat
    BY <1>1
  <2>2. ~(y < x)
    BY <1>3, <1>7, <2>1, Zenon
  <2>. QED
    BY <2>1, <2>2
<1>5. PICK c \in S : x = k - c
  BY <1>3
<1>6. ASSUME NEW d \in S PROVE c >= d
  <2>1. k - d \in T
    OBVIOUS
  <2>2. k - c <= k - d
    BY <1>4, <1>5, <2>1
  <2>3. c \in Int /\ d \in Int
    OBVIOUS
  <2>. QED
    BY <2>2, <2>3
<1>. QED
  BY <1>5, <1>6 DEF Max

\* A bounded set of revisions has a least one.
LEMMA MinRevision ==
  ASSUME NEW S \in SUBSET Nat, S # {}
  PROVE  Min(S) \in S /\ \A c \in S : Min(S) <= c
<1>. DEFINE Less == OpToRel(<, Nat)
<1>1. IsWellFoundedOn(Less, Nat)
  BY NatLessThanWellFounded
<1>2. ASSUME NEW x \in Nat, NEW y \in Nat, y < x PROVE <<y, x>> \in Less
  BY <1>2, Zenon DEF OpToRel
<1>. HIDE DEF Less
<1>3. PICK x \in S : \A y \in S : ~ (<<y, x>> \in Less)
  BY <1>1, WFMin
<1>4. ASSUME NEW y \in S PROVE x <= y
  <2>1. x \in Nat /\ y \in Nat
    OBVIOUS
  <2>2. ~(y < x)
    BY <1>2, <1>3, <2>1, Zenon
  <2>. QED
    BY <2>1, <2>2
<1>. QED
  BY <1>4 DEF Min

-----------------------------------------------------------------------------
(* The snapshot and the disk.                                              *)

Reads == {"changelog", "tags", "heads", "hgcmd", "open", "failed"}

TagsExist ==
  \A t \in DOMAIN tagged : tagged[t].since \in Nat /\ tagged[t].names \in 0 .. tagged[t].since

\* What was read is on the disk; it is in the index, too, but for a pull between
\* the reads.
InIndex(id) == id \in 0 .. onDisk - 1 /\ (id < cl \/ overlapped)

\* The index is read first, so that the heads, once read, cover all of it.
SnapshotInv ==
  /\ onDisk \in Nat \ {0} /\ cl \in 0 .. onDisk /\ hpc \in Reads
  /\ hpc \in Reads \ {"changelog", "failed"} => cl > 0
  /\ hpc \in {"tags", "heads"} => overlapped \/ onDisk = cl
  /\ TagsExist
  /\ \A t \in DOMAIN allTags : InIndex(allTags[t])
  /\ \A b \in DOMAIN branchHeads : InIndex(branchHeads[b])
  /\ hpc \in {"hgcmd", "open"} => \A c \in 0 .. cl - 1 :
       branch[c] \in DOMAIN branchHeads /\ c <= branchHeads[branch[c]]

LEMMA HeadsCover ==
  ASSUME NEW k \in Nat
  PROVE  /\ \A b \in DOMAIN HeadsOf(k) : HeadsOf(k)[b] \in 0 .. k - 1
         /\ \A c \in 0 .. k - 1 : branch[c] \in DOMAIN HeadsOf(k) /\ c <= HeadsOf(k)[branch[c]]
<1>. DEFINE On(b) == {c \in 0 .. k - 1 : branch[c] = b}
<1>1. DOMAIN HeadsOf(k) = {branch[c] : c \in 0 .. k - 1}
      /\ \A b \in DOMAIN HeadsOf(k) : HeadsOf(k)[b] = Max(On(b))
  BY DEF HeadsOf
<1>2. ASSUME NEW b \in DOMAIN HeadsOf(k)
      PROVE  Max(On(b)) \in On(b) /\ \A c \in On(b) : c <= Max(On(b))
  <2>1. On(b) # {} /\ On(b) \in SUBSET (0 .. k - 1)
    BY <1>1
  <2>. HIDE DEF On
  <2>. QED
    BY <2>1, MaxRevision
<1>3. ASSUME NEW b \in DOMAIN HeadsOf(k) PROVE HeadsOf(k)[b] \in 0 .. k - 1
  BY <1>1, <1>2
<1>4. ASSUME NEW c \in 0 .. k - 1 PROVE branch[c] \in DOMAIN HeadsOf(k) /\ c <= HeadsOf(k)[branch[c]]
  <2>1. branch[c] \in DOMAIN HeadsOf(k) /\ c \in On(branch[c])
    BY <1>1
  <2>. QED
    BY <1>1, <1>2, <2>1
<1>. QED
  BY <1>3, <1>4

LEMMA SnapshotInit == Init => SnapshotInv
<1>. SUFFICES ASSUME Init PROVE SnapshotInv
  OBVIOUS
<1>1. PICK s \in Scenarios : tagged = s.tagged /\ onDisk = s.first
  BY DEF Init
<1>2. TagsExist /\ onDisk \in Nat \ {0}
  BY <1>1, ScenarioAssumption, LogAssumption DEF TagsExist
<1>. QED
  BY <1>2 DEF Init, SnapshotInv, NoNames, Reads

\* Steps that touch neither the disk nor the snapshot.
LEMMA SnapshotStays ==
  ASSUME SnapshotInv, UNCHANGED <<branch, tagged, onDisk, hpc, cl, allTags, branchHeads, overlapped>>
  PROVE  SnapshotInv'
BY DEF SnapshotInv, InIndex, TagsExist

LEMMA OpenChangeLogKeeps == ASSUME SnapshotInv, OpenChangeLog PROVE SnapshotInv'
<1>1. UNCHANGED <<branch, tagged, onDisk, allTags, branchHeads, overlapped>>
      /\ cl' = onDisk /\ hpc' = "tags" /\ hpc = "changelog"
  BY DEF OpenChangeLog, disk
<1>. QED
  BY <1>1 DEF SnapshotInv, InIndex, TagsExist, Reads

LEMMA ReadTagsKeeps == ASSUME SnapshotInv, ReadTags PROVE SnapshotInv'
<1>1. UNCHANGED <<branch, tagged, onDisk, cl, branchHeads, overlapped>>
      /\ hpc = "tags" /\ hpc' = "heads" /\ allTags' = WithTip(TagsOf(onDisk), cl)
  BY DEF ReadTags, disk
<1>2. cl > 0 /\ (overlapped \/ onDisk = cl) /\ onDisk \in Nat /\ cl \in 0 .. onDisk
  BY <1>1 DEF SnapshotInv, Reads
<1>3. ASSUME NEW t \in DOMAIN allTags' PROVE InIndex(allTags'[t])
  <2>1. CASE t = "tip"
    <3>1. allTags'[t] = cl - 1
      BY <1>1, <2>1 DEF WithTip
    <3>. QED
      BY <1>2, <3>1 DEF InIndex
  <2>2. CASE t # "tip"
    <3>1. t \in DOMAIN TagsOf(onDisk) /\ allTags'[t] = TagsOf(onDisk)[t]
      BY <1>1, <1>3, <2>2 DEF WithTip
    <3>2. t \in DOMAIN tagged /\ tagged[t].since < onDisk /\ allTags'[t] = tagged[t].names
      BY <3>1 DEF TagsOf
    <3>3. tagged[t].since \in Nat /\ tagged[t].names \in 0 .. tagged[t].since
      BY <3>2 DEF SnapshotInv, TagsExist
    <3>. QED
      BY <1>2, <3>2, <3>3 DEF InIndex
  <2>. QED
    BY <2>1, <2>2
<1>4. \A t \in DOMAIN allTags' : (InIndex(allTags[t]))'
  BY <1>1, <1>3 DEF InIndex
<1>. QED
  BY <1>1, <1>2, <1>4 DEF SnapshotInv, InIndex, TagsExist, Reads

LEMMA ReadBranchHeadsKeeps == ASSUME SnapshotInv, ReadBranchHeads PROVE SnapshotInv'
<1>1. UNCHANGED <<branch, tagged, onDisk, cl, allTags, overlapped>>
      /\ hpc = "heads" /\ hpc' = "hgcmd" /\ branchHeads' = HeadsOf(onDisk)
  BY DEF ReadBranchHeads, disk
<1>2. cl > 0 /\ (overlapped \/ onDisk = cl) /\ onDisk \in Nat /\ cl \in 0 .. onDisk
  BY <1>1 DEF SnapshotInv, Reads
<1>3. \A b \in DOMAIN branchHeads' : branchHeads'[b] \in 0 .. onDisk - 1
  BY <1>1, <1>2, HeadsCover
<1>4. \A c \in 0 .. cl - 1 : branch[c] \in DOMAIN branchHeads' /\ c <= branchHeads'[branch[c]]
  BY <1>1, <1>2, HeadsCover
<1>5. \A b \in DOMAIN branchHeads' : (InIndex(branchHeads[b]))'
  BY <1>1, <1>2, <1>3 DEF InIndex
<1>. QED
  BY <1>1, <1>2, <1>4, <1>5 DEF SnapshotInv, InIndex, TagsExist, Reads

LEMMA OpenEndsKeeps == ASSUME SnapshotInv, OpenHgcmd \/ OpenFails PROVE SnapshotInv'
<1>1. /\ UNCHANGED <<branch, tagged, onDisk, cl, allTags, branchHeads, overlapped>>
      /\ (hpc = "hgcmd" /\ hpc' = "open") \/ hpc' = "failed"
  BY DEF OpenHgcmd, OpenFails, disk
<1>. QED
  BY <1>1 DEF SnapshotInv, InIndex, TagsExist, Reads

\* What was on the disk is there when it has more.
LEMMA StaysOnDisk ==
  ASSUME NEW j \in Nat, NEW k \in Nat, j <= k
  PROVE  0 .. j - 1 \subseteq 0 .. k - 1
OBVIOUS

\* A pull adds revisions; one between the reads is noted.
LEMMA PullKeeps == ASSUME SnapshotInv, UpdateEverything \/ OtherPull PROVE SnapshotInv'
<1>1. /\ UNCHANGED <<branch, tagged, hpc, cl, allTags, branchHeads>>
      /\ onDisk' \in Nat \ {0} /\ onDisk <= onDisk'
      /\ overlapped => overlapped'
      /\ hpc \in {"tags", "heads"} => overlapped'
  <2>1. CASE UpdateEverything
    BY <2>1, LogAssumption DEF SnapshotInv, UpdateEverything, handle
  <2>2. CASE OtherPull
    <3>1. UNCHANGED <<branch, tagged, hpc, cl, allTags, branchHeads>> /\ onDisk' = onDisk + 1
      BY <2>2 DEF OtherPull
    <3>2. overlapped' = (overlapped \/ hpc \in {"tags", "heads"})
      BY <2>2 DEF OtherPull
    <3>3. (overlapped => overlapped') /\ (hpc \in {"tags", "heads"} => overlapped')
      BY <3>2, Zenon
    <3>4. onDisk' \in Nat \ {0} /\ onDisk <= onDisk'
      BY <3>1 DEF SnapshotInv
    <3>. QED
      BY <3>1, <3>3, <3>4
  <2>. QED
    BY <2>1, <2>2
<1>2. ASSUME NEW id, InIndex(id) PROVE InIndex(id)'
  <2>1. id \in 0 .. onDisk - 1 /\ (id < cl \/ overlapped)
    BY <1>2, Zenon DEF InIndex
  <2>2. id \in 0 .. onDisk' - 1
    <3>1. onDisk \in Nat
      BY DEF SnapshotInv
    <3>2. onDisk' \in Nat /\ onDisk <= onDisk'
      BY <1>1
    <3>3. id \in 0 .. onDisk - 1
      BY <2>1
    <3>4. 0 .. onDisk - 1 \subseteq 0 .. onDisk' - 1
      BY <3>1, <3>2, StaysOnDisk
    <3>. QED
      BY <3>3, <3>4, Zenon
  <2>3. id < cl' \/ overlapped'
    BY <1>1, <2>1, Zenon
  <2>. QED
    BY <2>2, <2>3, Zenon DEF InIndex
<1>3. (\A t \in DOMAIN allTags : InIndex(allTags[t]))' /\ (\A b \in DOMAIN branchHeads : InIndex(branchHeads[b]))'
  BY <1>1, <1>2 DEF SnapshotInv, InIndex
<1>. QED
  BY <1>1, <1>3 DEF SnapshotInv, TagsExist

LEMMA SnapshotNext == SnapshotInv /\ [Next]_vars => SnapshotInv'
<1>. SUFFICES ASSUME SnapshotInv, [Next]_vars PROVE SnapshotInv'
  OBVIOUS
<1>1. CASE OpenChangeLog \/ ReadTags \/ ReadBranchHeads \/ OpenHgcmd \/ OpenFails
  BY <1>1, OpenChangeLogKeeps, ReadTagsKeeps, ReadBranchHeadsKeeps, OpenEndsKeeps
<1>2. CASE UpdateEverything \/ OtherPull
  BY <1>2, PullKeeps
<1>3. CASE \E id \in Rev : FileSystem(id)
  BY <1>3, SnapshotStays DEF FileSystem, disk
<1>4. CASE \/ CallCommits \/ CommitsGoesOn \/ CallBlame \/ BlameGoesOn \/ AnnotateGoesOn
           \/ UNCHANGED vars
  BY <1>4, SnapshotStays
     DEF CallCommits, CommitsGoesOn, CallBlame, BlameGoesOn, AnnotateGoesOn, vars, disk, handle
<1>. QED
  BY <1>1, <1>2, <1>3, <1>4 DEF Next

LEMMA SnapshotAlways == Spec => []SnapshotInv
BY SnapshotInit, SnapshotNext, PTL DEF Spec

\* Whatever is pulled while the handle is opened or later, no commit of its index
\* is on a branch that it does not list, or beyond that branch's head.
THEOREM BranchesCoverIndex == Spec => []EveryBranchListed
<1>1. SnapshotInv => EveryBranchListed
  <2>. SUFFICES ASSUME SnapshotInv, hpc = "open", NEW c \in 0 .. cl - 1
       PROVE  \E b \in Branches : b.name = branch[c] /\ c <= b.head
    BY DEF EveryBranchListed
  <2>. DEFINE b == [name |-> branch[c], head |-> branchHeads[branch[c]]]
  <2>1. branch[c] \in DOMAIN branchHeads /\ c <= branchHeads[branch[c]]
    BY DEF SnapshotInv
  <2>2. b \in Branches
    BY <2>1 DEF Branches
  <2>. QED
    BY <2>1, <2>2
<1>. QED
  BY <1>1, SnapshotAlways, PTL

-----------------------------------------------------------------------------
(* What is resolved can be read.                                           *)

\* Of the five things that a lookup can come to, three are in the index.
LEMMA LookupIs ==
  ASSUME NEW spec
  PROVE  \/ LookupSpec(spec) = GetRec(spec.rev)
         \/ LookupSpec(spec) = cl - 1
         \/ LookupSpec(spec) = NullRev
         \/ \E t \in DOMAIN allTags : LookupSpec(spec) = GetRec(allTags[t])
         \/ LookupSpec(spec) = -1
BY DEF LookupSpec

LEMMA SpecRev == ASSUME NEW spec \in Specs PROVE spec.rev \in Rev
BY LogAssumption DEF Specs, Rev

LEMMA ResolvedInIndex ==
  ASSUME SnapshotInv, hpc = "open", NEW spec \in Specs, ResolveRevision(spec) \notin {-1, NullRev}
  PROVE  InIndex(ResolveRevision(spec))
<1>. DEFINE id == ResolveRevision(spec)
<1>1. cl \in Nat /\ onDisk \in Nat /\ cl > 0 /\ cl <= onDisk
  BY DEF SnapshotInv, Reads
<1>2. CASE \E b \in DOMAIN branchHeads : id = branchHeads[b]
  BY <1>2 DEF SnapshotInv
<1>3. CASE \E t \in DOMAIN allTags : id = allTags[t]
  BY <1>3 DEF SnapshotInv
<1>4. CASE id = LookupSpec(spec)
  <2>1. CASE id = GetRec(spec.rev)
    BY <1>1, <2>1, SpecRev, LogAssumption DEF GetRec, InIndex, Rev
  <2>2. CASE id = cl - 1
    BY <1>1, <2>2 DEF InIndex
  <2>3. CASE \E t \in DOMAIN allTags : id = GetRec(allTags[t])
    BY <1>1, <2>3 DEF SnapshotInv, GetRec, InIndex
  <2>. QED
    BY <1>4, <2>1, <2>2, <2>3, LookupIs
<1>. QED
  BY <1>2, <1>3, <1>4 DEF ResolveRevision, ResolveBranch, ResolveTag

\* Whatever commit a handle resolves, the methods that it has from hgcmd find; and its
\* own methods do, unless something was pulled between the reads that opened it.
THEOREM ResolvedIsRead == Spec => []ResolvedIsReadable
<1>1. SnapshotInv => ResolvedIsReadable
  <2>. SUFFICES ASSUME SnapshotInv, hpc = "open", NEW spec \in Specs, ResolveRevision(spec) \notin {-1, NullRev}
       PROVE  LET id == ResolveRevision(spec) IN
                /\ CmdGetCommit(id) = "found" /\ \A base \in 0 .. cl - 1 : CmdDiff(base, id) = "found"
                /\ GetCommit(id) = "found" \/ overlapped
    BY DEF ResolvedIsReadable
  <2>. DEFINE id == ResolveRevision(spec)
  <2>1. id \in 0 .. onDisk - 1 /\ (id < cl \/ overlapped)
    BY ResolvedInIndex DEF InIndex
  <2>2. cl \in Nat /\ onDisk \in Nat /\ cl <= onDisk
    BY DEF SnapshotInv
  <2>. HIDE DEF id
  <2>3. CmdGetCommit(id) = "found" /\ \A base \in 0 .. cl - 1 : CmdDiff(base, id) = "found"
    BY <2>1, <2>2 DEF CmdGetCommit, CmdDiff
  <2>4. GetCommit(id) = "found" \/ overlapped
    BY <2>1, <2>2 DEF GetCommit, GetRec
  <2>. QED
    BY <2>3, <2>4 DEF id
<1>. QED
  BY <1>1, SnapshotAlways, PTL

-----------------------------------------------------------------------------
(* Blame.                                                                  *)

\* The process runs until BlameFile has waited for it, and a decoder without an
\* error has read the whole value.
BlameInv ==
  /\ blamePc \in {"idle", "decode", "stderr", "wait", "returned"}
  /\ status \in {"ok", "failed"}
  /\ blamePc = "idle" => process = "none"
  /\ blamePc \in {"decode", "stderr", "wait"} => process \in {"runs", "exited"}
  /\ blamePc \in {"stderr", "wait"} /\ blameErr = "none" => decoded = JsonSize
  /\ HunksFromGoodExit

LEMMA BlameNextKeeps ==
  ASSUME BlameInv,
         \/ StartAnnotate
         \/ DecodeReads \/ DecodeEnds \/ ErrorsRead \/ ErrorsEnd \/ WaitReturns
         \/ ProcessWrites \/ ProcessExits
  PROVE  BlameInv'
<1>1. CASE StartAnnotate
  BY <1>1 DEF BlameInv, HunksFromGoodExit, StartAnnotate
<1>2. CASE DecodeReads
  BY <1>2 DEF BlameInv, HunksFromGoodExit, DecodeReads
<1>3. CASE DecodeEnds
  BY <1>3 DEF BlameInv, HunksFromGoodExit, DecodeEnds
<1>4. CASE ErrorsRead \/ ErrorsEnd
  BY <1>4 DEF BlameInv, HunksFromGoodExit, ErrorsRead, ErrorsEnd
<1>5. CASE WaitReturns
  BY <1>5 DEF BlameInv, HunksFromGoodExit, WaitReturns
<1>6. CASE ProcessWrites \/ ProcessExits
  BY <1>6 DEF BlameInv, HunksFromGoodExit, ProcessWrites, ProcessExits
<1>. QED
  BY <1>1, <1>2, <1>3, <1>4, <1>5, <1>6

LEMMA BlameInvInit == Init => BlameInv
BY DEF Init, BlameInit, BlameInv, HunksFromGoodExit

LEMMA BlameInvNext == BlameInv /\ [Next]_vars => BlameInv'
<1>. SUFFICES ASSUME BlameInv, [Next]_vars PROVE BlameInv'
  OBVIOUS
<1>1. CASE UNCHANGED blameVars
  BY <1>1 DEF blameVars, BlameInv, HunksFromGoodExit
<1>2. CASE CallBlame \/ BlameGoesOn \/ AnnotateGoesOn
  BY <1>2, BlameNextKeeps DEF CallBlame, BlameGoesOn, AnnotateGoesOn
<1>3. CASE OpenChangeLog \/ ReadTags \/ ReadBranchHeads \/ OpenHgcmd \/ OpenFails
  BY <1>1, <1>3 DEF OpenChangeLog, ReadTags, ReadBranchHeads, OpenHgcmd, OpenFails
<1>4. CASE UpdateEverything \/ OtherPull \/ (\E id \in Rev : FileSystem(id))
  BY <1>1, <1>4 DEF UpdateEverything, OtherPull, FileSystem
<1>5. CASE CallCommits \/ CommitsGoesOn \/ UNCHANGED vars
  BY <1>1, <1>5 DEF CallCommits, CommitsGoesOn, vars
<1>. QED
  BY <1>2, <1>3, <1>4, <1>5 DEF Next

\* However long the output and the complaints, and whichever of the decoder and
\* the process fails: hunks come only of a process that has ended well, after its
\* whole value has been read, and no process outlives the call.
THEOREM HunksAreWhole == Spec => []HunksFromGoodExit
<1>1. BlameInv => HunksFromGoodExit
  BY DEF BlameInv
<1>. QED
  BY <1>1, BlameInvInit, BlameInvNext, PTL DEF Spec

-----------------------------------------------------------------------------
(* Opened file trees.                                                      *)

\* A tree is opened through the index, once that has been read.
OpenedInv ==
  /\ opened \subseteq 0 .. cl - 1
  /\ hpc = "changelog" => opened = {}

\* Nothing but a pull changes the disk, and a pull only adds to it.
LEMMA DiskGrows ==
  ASSUME SnapshotInv, [Next]_vars
  PROVE  /\ manifest' = manifest /\ onDisk' \in Nat /\ onDisk <= onDisk'
         /\ opened' = opened \/ \E id \in Rev : FileSystem(id)
<1>1. onDisk \in Nat
  BY DEF SnapshotInv
<1>2. CASE OpenChangeLog \/ ReadTags \/ ReadBranchHeads \/ OpenHgcmd \/ OpenFails
  BY <1>1, <1>2 DEF OpenChangeLog, ReadTags, ReadBranchHeads, OpenHgcmd, OpenFails, disk
<1>3. CASE UpdateEverything
  BY <1>1, <1>3, LogAssumption DEF UpdateEverything, handle
<1>4. CASE OtherPull
  BY <1>1, <1>4 DEF OtherPull
<1>5. CASE \E id \in Rev : FileSystem(id)
  BY <1>1, <1>5 DEF FileSystem, disk
<1>6. CASE \/ CallCommits \/ CommitsGoesOn \/ CallBlame \/ BlameGoesOn \/ AnnotateGoesOn
           \/ UNCHANGED vars
  BY <1>1, <1>6
     DEF CallCommits, CommitsGoesOn, CallBlame, BlameGoesOn, AnnotateGoesOn, vars, disk, handle
<1>. QED
  BY <1>2, <1>3, <1>4, <1>5, <1>6 DEF Next

LEMMA OpenedInit == Init => OpenedInv
BY DEF Init, OpenedInv

LEMMA OpenedNext == OpenedInv /\ SnapshotInv /\ [Next]_vars => OpenedInv'
<1>. SUFFICES ASSUME OpenedInv, SnapshotInv, [Next]_vars PROVE OpenedInv'
  OBVIOUS
<1>1. CASE OpenChangeLog
  <2>1. opened = {} /\ opened' = opened
    BY <1>1 DEF OpenedInv, OpenChangeLog
  <2>. QED
    BY <2>1 DEF OpenedInv
<1>2. CASE ReadTags \/ ReadBranchHeads \/ OpenHgcmd \/ OpenFails
  BY <1>2 DEF OpenedInv, ReadTags, ReadBranchHeads, OpenHgcmd, OpenFails
<1>3. CASE UpdateEverything \/ OtherPull
  BY <1>3 DEF OpenedInv, UpdateEverything, OtherPull, handle
<1>4. CASE \E id \in Rev : FileSystem(id)
  <2>1. PICK id \in Rev : /\ GetRec(id) # -1 /\ opened' = opened \cup {id}
                         /\ hpc = "open" /\ cl' = cl /\ hpc' = hpc
    BY <1>4 DEF FileSystem
  <2>2. id \in 0 .. cl - 1
    BY <2>1, LogAssumption DEF SnapshotInv, GetRec, Rev
  <2>. QED
    BY <2>1, <2>2 DEF OpenedInv
<1>5. CASE \/ CallCommits \/ CommitsGoesOn \/ CallBlame \/ BlameGoesOn \/ AnnotateGoesOn
           \/ UNCHANGED vars
  BY <1>5
     DEF OpenedInv, CallCommits, CommitsGoesOn, CallBlame, BlameGoesOn, AnnotateGoesOn, vars, handle
<1>. QED
  BY <1>1, <1>2, <1>3, <1>4, <1>5 DEF Next

LEMMA LogsDomain == ASSUME NEW k PROVE DOMAIN Logs(k) = FileLogs(k)
BY DEF Logs

\* What getEntry comes to, by the path's place in the logs and in the manifest.
LEMMA EntryIs ==
  ASSUME NEW m, NEW logs, NEW maybe, NEW p
  PROVE  /\ p \notin DOMAIN logs => GetEntry(m, logs, maybe, p) = {NoEntry("noLog")}
         /\ p \in DOMAIN logs /\ p \notin DOMAIN m =>
              GetEntry(m, logs, maybe, p) = {NoEntry("notInManifest")}
         /\ p \in DOMAIN logs /\ p \in DOMAIN m /\ maybe = {} =>
              GetEntry(m, logs, maybe, p) = {NoEntry("noRecord")}
         /\ p \in DOMAIN logs /\ p \in DOMAIN m /\ maybe # {} =>
              GetEntry(m, logs, maybe, p) =
                {[err |-> "none", mode |-> m[p].mode, data |-> x.id] : x \in LookupRecord(maybe, m[p].id)}
BY DEF GetEntry

\* The same over all that hgo may offer, which is never no choice at all.
LEMMA EntriesAre ==
  ASSUME NEW m, NEW logs, NEW at, NEW p
  PROVE  /\ p \notin DOMAIN logs => Entries(m, logs, at, p) = {NoEntry("noLog")}
         /\ p \in DOMAIN logs /\ p \notin DOMAIN m => Entries(m, logs, at, p) = {NoEntry("notInManifest")}
         /\ p \in DOMAIN logs /\ p \in DOMAIN m =>
              \A e \in Entries(m, logs, at, p) :
                e = NoEntry("noRecord") \/ (e.err = "none" /\ e.mode = m[p].mode)
<1>. DEFINE offers == MaybeAncestors(LogOf(logs, p), at)
<1>1. {} \in offers
  BY DEF MaybeAncestors
<1>2. Entries(m, logs, at, p) = UNION {GetEntry(m, logs, maybe, p) : maybe \in offers}
  BY DEF Entries
<1>. HIDE DEF offers
<1>3. CASE p \notin DOMAIN logs
  <2>1. \A maybe : GetEntry(m, logs, maybe, p) = {NoEntry("noLog")}
    BY <1>3, EntryIs
  <2>. QED
    BY <1>1, <1>2, <1>3, <2>1
<1>4. CASE p \in DOMAIN logs /\ p \notin DOMAIN m
  <2>1. \A maybe : GetEntry(m, logs, maybe, p) = {NoEntry("notInManifest")}
    BY <1>4, EntryIs
  <2>. QED
    BY <1>1, <1>2, <1>4, <2>1
<1>5. CASE p \in DOMAIN logs /\ p \in DOMAIN m
  <2>1. ASSUME NEW e \in Entries(m, logs, at, p)
        PROVE  e = NoEntry("noRecord") \/ (e.err = "none" /\ e.mode = m[p].mode)
    <3>1. PICK maybe \in offers : e \in GetEntry(m, logs, maybe, p)
      BY <1>2
    <3>2. CASE maybe = {}
      BY <1>5, <3>1, <3>2, EntryIs
    <3>3. CASE maybe # {}
      <4>1. PICK x \in LookupRecord(maybe, m[p].id) :
              e = [err |-> "none", mode |-> m[p].mode, data |-> x.id]
        BY <1>5, <3>1, <3>3, EntryIs
      <4>. QED
        BY <4>1
    <3>. QED
      BY <3>2, <3>3
  <2>. QED
    BY <1>5, <2>1
<1>. QED
  BY <1>3, <1>4, <1>5

\* What of a tree depends on the disk: the records up to its revision, and whether
\* a path that is none of its files has a log.
LEMMA MoreLogs ==
  ASSUME NEW m, NEW logs, NEW more, NEW at, NEW p,
         DOMAIN logs \subseteq DOMAIN more, DOMAIN m \subseteq DOMAIN logs,
         p \in DOMAIN logs => MaybeAncestors(more[p], at) = MaybeAncestors(logs[p], at)
  PROVE  /\ OpenFile(m, more, at, p) = OpenFile(m, logs, at, p)
         /\ \/ Lstat(m, more, at, p) = Lstat(m, logs, at, p)
            \/ "dir" \in Lstat(m, logs, at, p) /\ p \in DOMAIN more \ DOMAIN logs
<1>1. CASE p \in DOMAIN logs
  <2>1. MaybeAncestors(LogOf(more, p), at) = MaybeAncestors(LogOf(logs, p), at)
    BY <1>1 DEF LogOf
  <2>2. \A maybe : GetEntry(m, more, maybe, p) = GetEntry(m, logs, maybe, p)
    BY <1>1 DEF GetEntry
  <2>3. Entries(m, more, at, p) = Entries(m, logs, at, p)
    BY <2>1, <2>2 DEF Entries
  <2>. QED
    BY <2>3, Zenon DEF OpenFile, Lstat
<1>2. CASE p \notin DOMAIN more
  <2>1. Entries(m, more, at, p) = Entries(m, logs, at, p)
    BY <1>2, EntriesAre
  <2>. QED
    BY <2>1, Zenon DEF OpenFile, Lstat
<1>3. CASE p \in DOMAIN more /\ p \notin DOMAIN logs
  <2>1. /\ Entries(m, logs, at, p) = {NoEntry("noLog")}
        /\ Entries(m, more, at, p) = {NoEntry("notInManifest")}
    BY <1>3, EntriesAre
  <2>2. NoEntry("noLog").err = "noLog" /\ NoEntry("notInManifest").err = "notInManifest"
    BY DEF NoEntry
  <2>3. OpenOf(NoEntry("noLog")) = OpenError(NotExist) /\ OpenOf(NoEntry("notInManifest")) = OpenError(NotExist)
    BY <2>2 DEF OpenOf
  <2>4. OpenFile(m, more, at, p) = OpenFile(m, logs, at, p)
    BY <2>1, <2>3 DEF OpenFile
  <2>5. /\ LstatOf(m, p, NoEntry("noLog")) = DirStat(m, p)
        /\ LstatOf(m, p, NoEntry("notInManifest")) = NotExist
    BY <2>2 DEF LstatOf
  <2>6. Lstat(m, more, at, p) = {Failed, NotExist} /\ Lstat(m, logs, at, p) = {Failed, DirStat(m, p)}
    BY <2>1, <2>5 DEF Lstat
  <2>. QED
    BY <1>3, <2>4, <2>6 DEF DirStat
<1>. QED
  BY <1>1, <1>2, <1>3

\* A pull adds records of its own revisions only.
LEMMA LogsGrow ==
  ASSUME NEW j \in Nat, NEW k \in Nat, j <= k, NEW r \in 0 .. j - 1
  PROVE  /\ DOMAIN Logs(j) \subseteq DOMAIN Logs(k) /\ DOMAIN manifest[r] \subseteq DOMAIN Logs(j)
         /\ \A p \in DOMAIN Logs(j) : MaybeAncestors(Logs(k)[p], r) = MaybeAncestors(Logs(j)[p], r)
<1>1. 0 .. j - 1 \subseteq 0 .. k - 1
  BY StaysOnDisk
<1>2. FileLogs(j) \subseteq FileLogs(k) /\ DOMAIN manifest[r] \subseteq FileLogs(j)
  BY <1>1 DEF FileLogs
<1>3. ASSUME NEW p \in DOMAIN Logs(j)
      PROVE  {x \in Logs(k)[p] : x.linkrev <= r} = {x \in Logs(j)[p] : x.linkrev <= r}
  <2>. DEFINE New(i) == {b \in 0 .. i - 1 : p \in DOMAIN manifest[b] /\ IsNewContent(b, p)}
              R(c)   == Record(manifest[c][p].id, c)
  <2>1. p \in FileLogs(j) /\ p \in FileLogs(k)
    BY <1>2, <1>3, LogsDomain
  <2>2. Logs(j)[p] = {R(c) : c \in New(j)} /\ Logs(k)[p] = {R(c) : c \in New(k)}
    BY <2>1 DEF Logs
  <2>3. \A c : R(c).linkrev = c
    BY DEF Record
  <2>4. ASSUME NEW c, c <= r PROVE c \in New(k) <=> c \in New(j)
    BY <2>4
  <2>. HIDE DEF New, R
  <2>. QED
    BY <2>2, <2>3, <2>4
<1>4. \A p \in DOMAIN Logs(j) : MaybeAncestors(Logs(k)[p], r) = MaybeAncestors(Logs(j)[p], r)
  BY <1>3 DEF MaybeAncestors
<1>. QED
  BY <1>2, <1>4, LogsDomain

\* Whatever history is pulled, and whatever records hgo offers of those that a log
\* had by the tree's revision: no path of an opened tree can become anything that it
\* was not before, and only a directory that a pulled revision has as a file is lost.
THEOREM TreesSurvivePulls == Spec => FilesStay
<1>1. SnapshotInv /\ OpenedInv /\ [Next]_vars =>
        [\A r \in opened : \A p \in Paths :
           /\ OpenAt(r, p)' = OpenAt(r, p)
           /\ \/ LstatAt(r, p)' = LstatAt(r, p)
              \/ "dir" \in LstatAt(r, p) /\ p \in FileLogs(onDisk') \ FileLogs(onDisk)]_vars
  <2>. SUFFICES ASSUME SnapshotInv, OpenedInv, [Next]_vars, NEW r \in opened, NEW p \in Paths
       PROVE  /\ OpenAt(r, p)' = OpenAt(r, p)
              /\ \/ LstatAt(r, p)' = LstatAt(r, p)
                 \/ "dir" \in LstatAt(r, p) /\ p \in FileLogs(onDisk') \ FileLogs(onDisk)
    OBVIOUS
  <2>1. manifest' = manifest /\ onDisk \in Nat /\ onDisk' \in Nat /\ onDisk <= onDisk'
    BY DiskGrows DEF SnapshotInv
  <2>2. r \in 0 .. onDisk - 1
    BY <2>1 DEF OpenedInv, SnapshotInv
  <2>3. /\ DOMAIN Logs(onDisk) \subseteq DOMAIN Logs(onDisk')
        /\ DOMAIN manifest[r] \subseteq DOMAIN Logs(onDisk)
        /\ \A q \in DOMAIN Logs(onDisk) :
             MaybeAncestors(Logs(onDisk')[q], r) = MaybeAncestors(Logs(onDisk)[q], r)
    BY <2>1, <2>2, LogsGrow
  <2>4. Logs(onDisk)' = Logs(onDisk')
    BY <2>1 DEF Logs, FileLogs, IsNewContent
  <2>5. /\ LstatAt(r, p)' = Lstat(manifest[r], Logs(onDisk'), r, p)
        /\ OpenAt(r, p)' = OpenFile(manifest[r], Logs(onDisk'), r, p)
    BY <2>1, <2>4 DEF LstatAt, OpenAt
  <2>. QED
    BY <2>3, <2>5, MoreLogs, LogsDomain DEF LstatAt, OpenAt
<1>. QED
  BY <1>1, OpenedInit, OpenedNext, SnapshotInit, SnapshotNext, PTL DEF Spec, FilesStay

-----------------------------------------------------------------------------
(* The history.                                                            *)

\* The scenario that was chosen, of which the disk has a part.
HistoryInv ==
  /\ parents \in Histories
  /\ \A c \in Rev : IsManifest(manifest[c]) /\ branch[c] \in Names
  /\ DOMAIN tagged \subseteq Names
  /\ onDisk \in 1 .. NumCommits

LEMMA HistoryInit == Init => HistoryInv
<1>. SUFFICES ASSUME Init PROVE HistoryInv
  OBVIOUS
<1>1. PICK s \in Scenarios : /\ parents = s.parents /\ manifest = s.manifest /\ branch = s.branch
                            /\ tagged = s.tagged /\ onDisk = s.first
  BY DEF Init
<1>. QED
  BY <1>1, ScenarioAssumption DEF HistoryInv

\* No step but a pull changes anything of it, and a pull brings nothing that it
\* does not have.
LEMMA HistoryStays ==
  ASSUME HistoryInv, [Next]_vars
  PROVE  /\ UNCHANGED <<parents, manifest, branch, tagged>>
         /\ onDisk' \in 1 .. NumCommits /\ onDisk <= onDisk'
<1>1. onDisk \in 1 .. NumCommits
  BY DEF HistoryInv
<1>2. CASE OpenChangeLog \/ ReadTags \/ ReadBranchHeads \/ OpenHgcmd \/ OpenFails
  BY <1>1, <1>2, LogAssumption
     DEF OpenChangeLog, ReadTags, ReadBranchHeads, OpenHgcmd, OpenFails, disk, logVars
<1>3. CASE UpdateEverything
  BY <1>1, <1>3, LogAssumption DEF UpdateEverything, handle, logVars
<1>4. CASE OtherPull
  BY <1>1, <1>4, LogAssumption DEF OtherPull, logVars
<1>5. CASE \E id \in Rev : FileSystem(id)
  BY <1>1, <1>5, LogAssumption DEF FileSystem, disk, logVars
<1>6. CASE CallCommits \/ CommitsGoesOn
  BY <1>1, <1>6, LogAssumption DEF CallCommits, CommitsGoesOn, disk, Commits, Turn, TurnFails, Return
<1>7. CASE CallBlame \/ BlameGoesOn \/ AnnotateGoesOn \/ UNCHANGED vars
  BY <1>1, <1>7, LogAssumption DEF CallBlame, BlameGoesOn, AnnotateGoesOn, vars, disk, logVars
<1>. QED
  BY <1>2, <1>3, <1>4, <1>5, <1>6, <1>7 DEF Next

LEMMA HistoryNext == HistoryInv /\ [Next]_vars => HistoryInv'
<1>. SUFFICES ASSUME HistoryInv, [Next]_vars PROVE HistoryInv'
  OBVIOUS
<1>1. /\ UNCHANGED <<parents, manifest, branch, tagged>> /\ onDisk' \in 1 .. NumCommits
  BY HistoryStays
<1>. QED
  BY <1>1 DEF HistoryInv

LEMMA HistoryAlways == Spec => []HistoryInv
BY HistoryInit, HistoryNext, PTL DEF Spec

-----------------------------------------------------------------------------
(* The log.                                                                *)

\* The revisions that the walk has counted.
Counted == head - rec + (IF pc = "loop" THEN 0 ELSE 1)

\* How many of them belong to the page.
PageLen(count) ==
  IF count <= skip THEN 0 ELSE IF n = 0 \/ count - skip <= n THEN count - skip ELSE n

\* The commits kept are the part of the page that has been walked.
IsPage(count) ==
  /\ Len(commits) = PageLen(count)
  /\ \A i \in 1 .. Len(commits) : commits[i] = head - skip - i + 1

\* The walk comes from the head past no start of a branch; it ends at one, or
\* with a full page whose caller does not want the total.
Walk ==
  /\ rec \in 0 .. head
  /\ \A c \in rec + 1 .. head : parents[c] # {}
  /\ IsPage(Counted)
  /\ noTotal /\ n # 0 => Counted <= skip + n
  /\ pc = "loop" => (noTotal /\ n # 0 => Len(commits) < n)
  /\ pc # "loop" => parents[rec] = {} \/ (noTotal /\ n # 0 /\ Len(commits) = n)
  /\ total = IF pc = "returned" /\ noTotal THEN 0 ELSE Counted

LogInv ==
  /\ pc \in {"idle", "notFound", "loop", "end", "failed", "returned"}
  /\ head \in Rev /\ n \in Nat /\ skip \in Nat /\ noTotal \in BOOLEAN
  /\ rec \in Rev /\ commits \in Seq(Rev)
  /\ pc \in {"idle", "notFound", "failed"} => commits = << >> /\ total = 0
  /\ pc \in {"loop", "end", "returned"} => Walk

\* The first revision starts a branch.
LEMMA FirstStarts ==
  ASSUME HistoryInv
  PROVE  parents[0] = {} /\ parents \in [Rev -> SUBSET Rev]
<1>1. 0 \in Rev /\ parents[0] \in ParentSets(0) /\ parents \in [Rev -> SUBSET Rev]
  BY LogAssumption DEF HistoryInv, Histories, Rev
<1>2. parents[0] \subseteq 0 .. -1
  BY <1>1 DEF ParentSets
<1>. QED
  BY <1>1, <1>2

LEMMA LogInvInit == Init => LogInv
<1>. SUFFICES ASSUME LogInit PROVE LogInv
  BY DEF Init
<1>1. /\ head = 0 /\ n = 0 /\ skip = 0 /\ noTotal = FALSE
      /\ rec = 0 /\ commits = << >> /\ total = 0 /\ pc = "idle"
  BY DEF LogInit
<1>2. 0 \in Rev
  BY LogAssumption DEF Rev
<1>3. noTotal \in BOOLEAN
  BY <1>1
<1>4. commits \in Seq(Rev)
  BY <1>1
<1>. QED
  BY <1>1, <1>2, <1>3, <1>4 DEF LogInv

LEMMA CommitsKeeps ==
  ASSUME LogInv, NEW h \in Rev, NEW limit \in Limits, NEW offset \in Skips, NEW without \in BOOLEAN,
         Commits(h, limit, offset, without)
  PROVE  LogInv'
<1>1. /\ pc = "idle" /\ head' = h /\ n' = limit /\ skip' = offset /\ noTotal' = without
      /\ UNCHANGED <<parents, commits, total>>
      /\ commits = << >> /\ total = 0 /\ n' \in Nat /\ skip' \in Nat
  BY LogAssumption DEF Commits, LogInv
<1>2. CASE GetRec(h) = -1
  BY <1>1, <1>2 DEF Commits, LogInv
<1>3. CASE GetRec(h) # -1
  <2>1. pc' = "loop" /\ rec' = h
    BY <1>3 DEF Commits, GetRec
  <2>2. h \in Nat
    BY LogAssumption DEF Rev
  <2>3. Counted' = 0
    BY <1>1, <2>1, <2>2 DEF Counted
  <2>4. IsPage(Counted)'
    BY <1>1, <2>3 DEF IsPage, PageLen
  <2>5. Walk'
    BY <1>1, <2>1, <2>2, <2>3, <2>4 DEF Walk
  <2>. QED
    BY <1>1, <2>1, <2>5 DEF LogInv
<1>. QED
  BY <1>2, <1>3

LEMMA TurnKeeps == ASSUME HistoryInv, LogInv, Turn PROVE LogInv'
<1>1. /\ pc = "loop" /\ total' = total + 1 /\ UNCHANGED <<parents, head, n, skip, noTotal>>
      /\ commits' = IF Keeps THEN Append(commits, rec) ELSE commits
  BY DEF Turn, opts
<1>2. Walk /\ head \in Nat /\ n \in Nat /\ skip \in Nat /\ rec \in 0 .. head /\ commits \in Seq(Rev)
      /\ rec \in Rev /\ head \in Rev
  BY <1>1, LogAssumption DEF LogInv, Walk, Rev
<1>3. total = head - rec /\ Counted = total /\ total \in Nat
  BY <1>1, <1>2 DEF Walk, Counted
<1>4. commits' \in Seq(Rev)
  BY <1>1, <1>2
<1>5. Counted' = total + 1
  <2>1. CASE Stops
    BY <1>1, <1>2, <1>3, <2>1 DEF Turn, Counted
  <2>2. CASE ~Stops
    BY <1>1, <1>2, <1>3, <2>2 DEF Turn, Counted
  <2>. QED
    BY <2>1, <2>2
<1>6. Len(commits) = PageLen(total) /\ \A i \in 1 .. Len(commits) : commits[i] = head - skip - i + 1
  BY <1>2, <1>3 DEF Walk, IsPage
<1>7. /\ Len(commits') = PageLen(total + 1)
      /\ \A i \in 1 .. Len(commits') : commits'[i] = head - skip - i + 1
  <2>1. CASE Keeps
    <3>1. commits' = Append(commits, rec) /\ Len(commits') = Len(commits) + 1
      BY <1>1, <1>2, <2>1
    <3>2. Len(commits) = total - skip
      BY <1>2, <1>3, <1>6, <2>1 DEF Keeps, PageLen
    <3>3. \A i \in 1 .. Len(commits') : commits'[i] = IF i = Len(commits) + 1 THEN rec ELSE commits[i]
      BY <1>2, <3>1
    <3>4. Len(commits') = PageLen(total + 1)
      BY <1>2, <1>3, <2>1, <3>1, <3>2 DEF Keeps, PageLen
    <3>. QED
      BY <1>2, <1>3, <1>6, <3>1, <3>2, <3>3, <3>4
  <2>2. CASE ~Keeps
    <3>1. commits' = commits
      BY <1>1, <2>2
    <3>2. PageLen(total + 1) = PageLen(total)
      BY <1>2, <1>3, <1>6, <2>2 DEF Keeps, PageLen
    <3>. QED
      BY <1>6, <3>1, <3>2
  <2>. QED
    BY <2>1, <2>2
<1>8. IsPage(Counted)'
  BY <1>1, <1>5, <1>7 DEF IsPage, PageLen
<1>9. noTotal /\ n # 0 => Counted' <= skip + n
  BY <1>1, <1>2, <1>3, <1>5, <1>6 DEF Walk, PageLen
<1>10. CASE Stops
  <2>1. pc' = "end" /\ rec' = rec
    BY <1>10 DEF Turn
  <2>2. parents[rec] = {} \/ (noTotal /\ n # 0 /\ Len(commits') >= n)
    BY <1>10 DEF Stops, IsStartOfBranch
  <2>3. noTotal /\ n # 0 => Len(commits') <= n
    BY <1>2, <1>3, <1>7 DEF PageLen
  <2>4. Walk'
    <3>1. Len(commits') \in Nat
      BY <1>4
    <3>. QED
      BY <1>1, <1>2, <1>5, <1>8, <1>9, <2>1, <2>2, <2>3, <3>1 DEF Walk
  <2>. QED
    BY <1>1, <1>2, <1>4, <2>1, <2>4 DEF LogInv
<1>11. CASE ~Stops
  <2>1. pc' = "loop" /\ rec' = rec - 1
    BY <1>1, <1>11 DEF Turn
  <2>2. parents[rec] # {} /\ ~(noTotal /\ n # 0 /\ Len(commits') >= n)
    BY <1>11 DEF Stops, IsStartOfBranch
  <2>3. rec # 0
    BY <2>2, FirstStarts
  <2>4. rec' \in 0 .. head /\ rec' \in Rev
    BY <1>2, <2>1, <2>3, LogAssumption DEF Rev
  <2>5. \A c \in rec' + 1 .. head : parents[c] # {}
    <3>1. \A c \in rec + 1 .. head : parents[c] # {}
      BY <1>2 DEF Walk
    <3>. QED
      BY <1>2, <2>1, <2>2, <3>1
  <2>6. Walk'
    <3>1. Len(commits') \in Nat
      BY <1>4
    <3>. QED
      BY <1>1, <1>2, <1>5, <1>8, <1>9, <2>1, <2>2, <2>4, <2>5, <3>1 DEF Walk
  <2>. QED
    BY <1>1, <1>2, <1>4, <2>1, <2>4, <2>6 DEF LogInv
<1>. QED
  BY <1>10, <1>11

LEMMA ReturnKeeps == ASSUME LogInv, Return PROVE LogInv'
<1>1. /\ pc = "end" /\ pc' = "returned" /\ total' = (IF noTotal THEN 0 ELSE total)
      /\ UNCHANGED <<parents, head, n, skip, noTotal, rec, commits>>
  BY DEF Return, opts
<1>2. Counted' = Counted
  BY <1>1 DEF Counted
<1>3. Walk'
  BY <1>1, <1>2 DEF LogInv, Walk, IsPage, PageLen
<1>. QED
  BY <1>1, <1>3 DEF LogInv

LEMMA LogInvNext == HistoryInv /\ LogInv /\ [Next]_vars => LogInv'
<1>. SUFFICES ASSUME HistoryInv, LogInv, [Next]_vars PROVE LogInv'
  OBVIOUS
<1>1. CASE UNCHANGED logVars
  <2>1. UNCHANGED <<parents, head, n, skip, noTotal, rec, commits, total, pc>>
    BY <1>1 DEF logVars, opts
  <2>2. Walk' <=> Walk
    BY <2>1 DEF Walk, IsPage, PageLen, Counted
  <2>. QED
    BY <2>1, <2>2 DEF LogInv
<1>2. CASE CallCommits
  BY <1>2, CommitsKeeps DEF CallCommits
<1>3. CASE CommitsGoesOn
  <2>1. CASE TurnFails
    BY <2>1 DEF TurnFails, LogInv, opts
  <2>. QED
    BY <1>3, <2>1, TurnKeeps, ReturnKeeps DEF CommitsGoesOn
<1>4. CASE OpenChangeLog \/ ReadTags \/ ReadBranchHeads \/ OpenHgcmd \/ OpenFails
  BY <1>1, <1>4 DEF OpenChangeLog, ReadTags, ReadBranchHeads, OpenHgcmd, OpenFails
<1>5. CASE UpdateEverything \/ OtherPull \/ (\E id \in Rev : FileSystem(id))
  BY <1>1, <1>5 DEF UpdateEverything, OtherPull, FileSystem
<1>6. CASE CallBlame \/ BlameGoesOn \/ AnnotateGoesOn \/ UNCHANGED vars
  BY <1>1, <1>6 DEF CallBlame, BlameGoesOn, AnnotateGoesOn, vars
<1>. QED
  BY <1>2, <1>3, <1>4, <1>5, <1>6 DEF Next

LEMMA LogAlways == Spec => [](HistoryInv /\ LogInv)
BY HistoryInit, HistoryNext, LogInvInit, LogInvNext, PTL DEF Spec

\* The number of revisions from head back to where a branch starts.
Walked == head - Max({c \in 0 .. head : parents[c] = {}}) + 1

\* The start of a branch that the walk would come to, and how far that is.
LEMMA WalkedIs ==
  ASSUME HistoryInv, LogInv, Walk
  PROVE  /\ Walked \in Nat /\ Walked >= head - rec + 1
         /\ parents[rec] = {} => Walked = head - rec + 1
<1>. DEFINE starts == {c \in 0 .. head : parents[c] = {}}
            top    == Max(starts)
<1>1. head \in Nat /\ rec \in 0 .. head /\ head + 1 \in Nat
  BY LogAssumption DEF LogInv, Walk, Rev
<1>2. 0 \in starts /\ starts \in SUBSET (0 .. (head + 1) - 1)
  BY <1>1, FirstStarts
<1>3. top \in starts /\ \A c \in starts : c <= top
  <2>. HIDE DEF starts
  <2>. QED
    BY <1>1, <1>2, MaxRevision
<1>4. \A c \in starts : c <= rec
  BY <1>1 DEF Walk
<1>5. Walked = head - top + 1
  BY DEF Walked
<1>6. top \in 0 .. head /\ top <= rec
  BY <1>3, <1>4
<1>7. parents[rec] = {} => top = rec
  BY <1>1, <1>3, <1>6
<1>. HIDE DEF top
<1>. QED
  BY <1>1, <1>5, <1>6, <1>7

LEMMA MinOfTwo ==
  ASSUME NEW a \in Nat, NEW b \in Nat
  PROVE  Min({a, b}) = IF a <= b THEN a ELSE b
BY DEF Min

LEMMA SubSeqOfInts ==
  ASSUME NEW s, NEW a \in Int, NEW b \in Int, \A i \in a .. b : s[i] \in Int
  PROVE  /\ SubSeq(s, a, b) \in Seq(Int)
         /\ Len(SubSeq(s, a, b)) = IF a <= b THEN b - a + 1 ELSE 0
         /\ \A i \in 1 .. b - a + 1 : SubSeq(s, a, b)[i] = s[a + i - 1]
BY SMT

LEMMA SameElements ==
  ASSUME NEW s \in Seq(Int), NEW t \in Seq(Int), Len(s) = Len(t),
         \A i \in 1 .. Len(s) : s[i] = t[i]
  PROVE  s = t
BY SMT

\* The part of the revisions from the head down that a page is.
LEMMA PageIs ==
  ASSUME LogInv, NEW count \in Nat, NEW last \in Nat, IsPage(count),
         last <= count, last - skip = PageLen(count) \/ (last <= skip /\ PageLen(count) = 0)
  PROVE  commits = SubSeq(Down(head, count), skip + 1, last)
<1>. DEFINE down == Down(head, count)
<1>1. down = [i \in 1 .. count |-> head - i + 1]
  BY DEF Down
<1>2. skip \in Nat /\ n \in Nat /\ commits \in Seq(Rev) /\ head \in Nat
  BY LogAssumption DEF LogInv, Rev
<1>3. down \in Seq(Int) /\ Len(down) = count /\ \A i \in 1 .. count : down[i] = head - i + 1
  BY <1>1, <1>2
<1>. HIDE DEF down
<1>. DEFINE sub == SubSeq(down, skip + 1, last)
<1>4. \A i \in skip + 1 .. last : down[i] \in Int
  BY <1>2, <1>3
<1>5. /\ sub \in Seq(Int)
      /\ Len(sub) = IF skip + 1 <= last THEN last - (skip + 1) + 1 ELSE 0
      /\ \A i \in 1 .. last - (skip + 1) + 1 : sub[i] = down[skip + 1 + i - 1]
  <2>1. skip + 1 \in Int /\ last \in Int
    BY <1>2
  <2>. QED
    BY <1>4, <2>1, SubSeqOfInts
<1>. HIDE DEF sub
<1>6. Len(sub) = Len(commits)
  BY <1>2, <1>5 DEF IsPage, PageLen
<1>7. \A i \in 1 .. Len(commits) : commits[i] = sub[i]
  <2>. SUFFICES ASSUME NEW i \in 1 .. Len(commits) PROVE commits[i] = sub[i]
    OBVIOUS
  <2>1. i \in 1 .. last - (skip + 1) + 1 /\ i \in Nat /\ skip + i \in 1 .. count
    BY <1>2, <1>5, <1>6
  <2>2. sub[i] = down[skip + i]
    BY <1>2, <1>5, <2>1
  <2>3. commits[i] = head - skip - i + 1
    BY DEF IsPage
  <2>. QED
    BY <1>2, <1>3, <2>1, <2>2, <2>3
<1>8. commits \in Seq(Int)
  BY <1>2, LogAssumption DEF Rev
<1>9. commits = sub
  BY <1>5, <1>6, <1>7, <1>8, SameElements
<1>. QED
  BY <1>9 DEF sub, down

\* The head's ancestors have smaller numbers, and their parents are ancestors, too.
LEMMA AncestorsAre ==
  ASSUME HistoryInv, LogInv
  PROVE  /\ head \in Ancestors(head) /\ Ancestors(head) \subseteq 0 .. head
         /\ \A c \in Ancestors(head) : parents[c] \subseteq Ancestors(head)
<1>1. head \in Rev /\ head \in Nat
  BY LogAssumption DEF LogInv, Rev
<1>2. \A c \in Rev : parents[c] \subseteq 0 .. c - 1
  BY DEF HistoryInv, Histories, ParentSets
<1>3. head \in Ancestors(head)
  BY <1>1 DEF Ancestors
<1>4. Ancestors(head) \subseteq 0 .. head
  <2>. DEFINE s == 0 .. head
  <2>1. s \in SUBSET Rev
    BY <1>1, LogAssumption DEF Rev
  <2>2. \A b \in s : parents[b] \subseteq s
    <3>. SUFFICES ASSUME NEW b \in s, NEW a \in parents[b] PROVE a \in s
      OBVIOUS
    <3>1. a \in 0 .. b - 1
      BY <1>2, <2>1
    <3>. QED
      BY <1>1, <3>1
  <2>3. head \in s
    BY <1>1
  <2>. HIDE DEF s
  <2>4. Ancestors(head) \subseteq s
    BY <2>1, <2>2, <2>3 DEF Ancestors
  <2>. QED
    BY <2>4 DEF s
<1>5. ASSUME NEW c \in Ancestors(head), NEW a \in parents[c] PROVE a \in Ancestors(head)
  <2>1. c \in Rev /\ a \in Rev
    BY <1>5, LogAssumption DEF Ancestors, HistoryInv, Histories
  <2>2. ASSUME NEW s \in SUBSET Rev, head \in s, \A b \in s : parents[b] \subseteq s PROVE a \in s
    <3>1. c \in s
      BY <2>2 DEF Ancestors
    <3>. QED
      BY <1>5, <2>2, <3>1
  <2>. QED
    BY <2>1, <2>2 DEF Ancestors
<1>. QED
  BY <1>3, <1>4, <1>5

\* Where the ancestors are one run, the walk goes over it and stops at its end.
LEMMA RunIsWalked ==
  ASSUME HistoryInv, LogInv, OneRun
  PROVE  Cardinality(Ancestors(head)) = Walked
<1>. DEFINE first  == Min(Ancestors(head))
            starts == {c \in 0 .. head : parents[c] = {}}
<1>1. head \in Nat /\ head + 1 \in Nat
  BY LogAssumption DEF LogInv, Rev
<1>2. /\ Ancestors(head) \subseteq 0 .. head /\ head \in Ancestors(head)
      /\ \A c \in Ancestors(head) : parents[c] \subseteq Ancestors(head)
  BY AncestorsAre
<1>3. first \in Ancestors(head) /\ \A c \in Ancestors(head) : first <= c
  <2>1. Ancestors(head) \in SUBSET Nat /\ Ancestors(head) # {}
    BY <1>2
  <2>. QED
    BY <2>1, MinRevision
<1>4. \A c \in first .. head : c \in Ancestors(head) /\ (parents[c] = {} => c = first)
  BY DEF OneRun
<1>. HIDE DEF first
<1>5. first \in 0 .. head /\ first \in Rev
  BY <1>2, <1>3 DEF Ancestors
<1>6. Ancestors(head) = first .. head
  <2>1. ASSUME NEW c \in Ancestors(head) PROVE c \in first .. head
    <3>1. c \in 0 .. head /\ first <= c
      BY <1>2, <1>3
    <3>. QED
      BY <1>1, <1>5, <3>1
  <2>2. first .. head \subseteq Ancestors(head)
    BY <1>4
  <2>. QED
    BY <2>1, <2>2
<1>7. parents[first] = {}
  <2>. SUFFICES ASSUME NEW a \in parents[first] PROVE FALSE
    OBVIOUS
  <2>1. parents[first] \subseteq 0 .. first - 1
    BY <1>5 DEF HistoryInv, Histories, ParentSets
  <2>2. a \in Ancestors(head)
    BY <1>2, <1>3
  <2>. QED
    BY <1>3, <1>5, <2>1, <2>2
<1>8. Max(starts) = first
  <2>1. first \in starts /\ starts \in SUBSET (0 .. (head + 1) - 1)
    BY <1>1, <1>5, <1>7
  <2>2. \A c \in starts : c <= first /\ c \in Int
    BY <1>1, <1>4, <1>5
  <2>. HIDE DEF starts
  <2>3. Max(starts) \in starts /\ first <= Max(starts)
    BY <1>1, <2>1, MaxRevision
  <2>4. Max(starts) <= first
    BY <2>2, <2>3
  <2>5. Max(starts) \in Int
    BY <2>2, <2>3
  <2>. QED
    BY <1>5, <2>3, <2>4, <2>5
<1>9. Walked = head - first + 1
  BY <1>8 DEF Walked
<1>10. Cardinality(first .. head) = head - first + 1
  BY <1>1, <1>5, FS_Interval
<1>. QED
  BY <1>6, <1>9, <1>10

\* The commits kept are no more than asked for, the newest first.
LEMMA KeptAre ==
  ASSUME LogInv
  PROVE  /\ n # 0 => Len(commits) <= n
         /\ \A i, j \in DOMAIN commits : i < j => commits[j] < commits[i]
<1>1. n \in Nat /\ skip \in Nat /\ head \in Nat /\ rec \in Nat /\ commits \in Seq(Rev)
  BY LogAssumption DEF LogInv, Rev
<1>2. CASE pc \in {"idle", "notFound", "failed"}
  BY <1>1, <1>2 DEF LogInv
<1>3. CASE pc \in {"loop", "end", "returned"}
  <2>1. IsPage(Counted) /\ Counted \in Nat
    BY <1>1, <1>3 DEF LogInv, Walk, Counted
  <2>2. n # 0 => Len(commits) <= n
    BY <1>1, <2>1 DEF IsPage, PageLen
  <2>3. DOMAIN commits = 1 .. Len(commits)
    BY <1>1
  <2>4. ASSUME NEW i \in DOMAIN commits, NEW j \in DOMAIN commits, i < j
        PROVE  commits[j] < commits[i]
    <3>1. commits[i] = head - skip - i + 1 /\ commits[j] = head - skip - j + 1
      BY <2>1, <2>3 DEF IsPage
    <3>2. i \in Int /\ j \in Int
      BY <2>3
    <3>. QED
      BY <1>1, <2>4, <3>1, <3>2
  <2>. QED
    BY <2>2, <2>4
<1>. QED
  BY <1>2, <1>3 DEF LogInv

\* Of a history of any length and shape: no more commits than asked for are returned,
\* none twice, and without the total no revision beyond the page is read; and where
\* the head's ancestors are one run of revisions, the page that Skip and N ask for
\* is of them, with or without the total, and the total is their number.
THEOREM LogIsPage == Spec => []PageOfAncestors
<1>1. HistoryInv /\ LogInv => PageOfAncestors
  <2>. SUFFICES ASSUME HistoryInv, LogInv PROVE PageOfAncestors
    OBVIOUS
  <2>1. n \in Nat /\ skip \in Nat /\ head \in Nat /\ rec \in Nat
    BY LogAssumption DEF LogInv, Rev
  <2>2. ASSUME noTotal, n # 0 PROVE total <= skip + n
    <3>1. CASE pc \in {"loop", "end", "returned"}
      BY <2>1, <2>2, <3>1 DEF LogInv, Walk
    <3>. QED
      BY <2>1, <3>1 DEF LogInv
  <2>3. ASSUME pc = "returned", OneRun
        PROVE  LET count == Cardinality(Ancestors(head)) IN
               /\ commits = SubSeq(Down(head, count), skip + 1,
                                   IF n = 0 THEN count ELSE Min({skip + n, count}))
               /\ total = IF noTotal THEN 0 ELSE count
    <3>. DEFINE last == IF n = 0 THEN Walked ELSE Min({skip + n, Walked})
    <3>1. Walk /\ Counted = head - rec + 1 /\ rec \in 0 .. head
      BY <2>3 DEF LogInv, Walk, Counted
    <3>2. Walked \in Nat /\ Walked >= Counted /\ (parents[rec] = {} => Walked = Counted)
      BY <3>1, WalkedIs
    <3>3. IsPage(Counted) /\ Counted \in Nat
      BY <2>1, <3>1 DEF Walk
    <3>4. last = IF n # 0 /\ skip + n <= Walked THEN skip + n ELSE Walked
      BY <2>1, <3>2, MinOfTwo
    <3>5. IsPage(Walked)
      <4>1. CASE parents[rec] = {}
        BY <3>2, <3>3, <4>1
      <4>2. CASE noTotal /\ n # 0 /\ Len(commits) = n
        <5>1. Counted = skip + n
          BY <2>1, <3>1, <3>3, <4>2 DEF Walk, IsPage, PageLen
        <5>2. PageLen(Walked) = n
          BY <2>1, <3>2, <4>2, <5>1 DEF PageLen
        <5>. QED
          BY <3>3, <4>2, <5>2 DEF IsPage
      <4>. QED
        BY <2>3, <3>1, <4>1, <4>2 DEF Walk
    <3>6. last \in Nat /\ last <= Walked
      BY <2>1, <3>2, <3>4
    <3>7. last - skip = PageLen(Walked) \/ (last <= skip /\ PageLen(Walked) = 0)
      BY <2>1, <3>2, <3>4 DEF PageLen
    <3>8. commits = SubSeq(Down(head, Walked), skip + 1, last)
      <4>. HIDE DEF last
      <4>. QED
        BY <3>2, <3>5, <3>6, <3>7, PageIs
    <3>9. total = IF noTotal THEN 0 ELSE Walked
      BY <2>3, <3>1, <3>2 DEF Walk
    <3>. QED
      BY <2>3, <3>8, <3>9, RunIsWalked
  <2>. QED
    BY <2>2, <2>3, KeptAre DEF PageOfAncestors
<1>. QED
  BY <1>1, LogAlways, PTL

-----------------------------------------------------------------------------
(* Types.                                                                  *)

\* What was read are names that the history has.
ReadInv ==
  /\ DOMAIN allTags \subseteq Names \cup {"tip"}
  /\ DOMAIN branchHeads \subseteq Names

LEMMA ReadInit == Init => ReadInv
BY DEF Init, ReadInv, NoNames

LEMMA TagNames ==
  ASSUME HistoryInv, NEW k, NEW j
  PROVE  DOMAIN WithTip(TagsOf(k), j) \subseteq Names \cup {"tip"}
<1>1. DOMAIN TagsOf(k) \subseteq DOMAIN tagged
  BY DEF TagsOf
<1>2. DOMAIN WithTip(TagsOf(k), j) = DOMAIN TagsOf(k) \cup {"tip"}
  BY DEF WithTip
<1>. QED
  BY <1>1, <1>2 DEF HistoryInv

LEMMA BranchNames ==
  ASSUME HistoryInv
  PROVE  DOMAIN HeadsOf(onDisk) \subseteq Names
<1>1. DOMAIN HeadsOf(onDisk) = {branch[c] : c \in 0 .. onDisk - 1}
  BY DEF HeadsOf
<1>2. 0 .. onDisk - 1 \subseteq Rev
  BY LogAssumption DEF HistoryInv, Rev
<1>. QED
  BY <1>1, <1>2 DEF HistoryInv

LEMMA ReadNext == HistoryInv /\ ReadInv /\ [Next]_vars => ReadInv'
<1>. SUFFICES ASSUME HistoryInv, ReadInv, [Next]_vars PROVE ReadInv'
  OBVIOUS
<1>1. CASE ReadTags
  BY <1>1, TagNames DEF ReadTags, ReadInv
<1>2. CASE ReadBranchHeads
  BY <1>2, BranchNames DEF ReadBranchHeads, ReadInv
<1>3. CASE OpenChangeLog \/ OpenHgcmd \/ OpenFails
  BY <1>3 DEF OpenChangeLog, OpenHgcmd, OpenFails, ReadInv
<1>4. CASE UpdateEverything \/ OtherPull \/ (\E id \in Rev : FileSystem(id))
  BY <1>4 DEF UpdateEverything, OtherPull, FileSystem, handle, ReadInv
<1>5. CASE \/ CallCommits \/ CommitsGoesOn \/ CallBlame \/ BlameGoesOn \/ AnnotateGoesOn
           \/ UNCHANGED vars
  BY <1>5 DEF CallCommits, CommitsGoesOn, CallBlame, BlameGoesOn, AnnotateGoesOn, vars, handle, ReadInv
<1>. QED
  BY <1>1, <1>2, <1>3, <1>4, <1>5 DEF Next

Streams == {"out", "err"}

LEMMA ScriptsWrite == Scripts \subseteq Seq(Streams)
<1>. DEFINE Run(x, k) == [i \in 1 .. k |-> x]
<1>1. ASSUME NEW x \in Streams, NEW k \in Nat PROVE Run(x, k) \in Seq(Streams)
  BY <1>1
<1>. HIDE DEF Run
<1>2. ASSUME NEW w \in (0 .. MaxErrors) \X (0 .. JsonSize) \X (0 .. MaxErrors)
      PROVE  Run("err", w[1]) \o Run("out", w[2]) \o Run("err", w[3]) \in Seq(Streams)
  <2>1. w[1] \in Nat /\ w[2] \in Nat /\ w[3] \in Nat /\ "err" \in Streams /\ "out" \in Streams
    BY BlameAssumption DEF Streams
  <2>. QED
    BY <1>1, <2>1
<1>3. Scripts = {Run("err", w[1]) \o Run("out", w[2]) \o Run("err", w[3]) :
                   w \in (0 .. MaxErrors) \X (0 .. JsonSize) \X (0 .. MaxErrors)}
  BY DEF Scripts, Run
<1>. QED
  BY <1>2, <1>3

LEMMA BlameTypeInit == Init => BlameTypeOK
BY BlameAssumption DEF Init, BlameInit, BlameTypeOK

LEMMA BlameTypeNext == BlameTypeOK /\ [Next]_vars => BlameTypeOK'
<1>. SUFFICES ASSUME BlameTypeOK, [Next]_vars PROVE BlameTypeOK'
  OBVIOUS
<1>. USE DEF BlameTypeOK
<1>0. CASE UNCHANGED blameVars
  BY <1>0 DEF blameVars
<1>1. CASE CallBlame
  <2>1. StartAnnotate
    BY <1>1 DEF CallBlame
  <2>2. todo' \in Seq(Streams)
    BY <2>1, ScriptsWrite DEF StartAnnotate, Streams
  <2>3. /\ status' \in {"ok", "failed"} /\ process' \in {process, "runs"}
        /\ blamePc' \in {"decode", "returned"} /\ blameErr' \in {blameErr, "start"}
        /\ pipe' = pipe /\ decoded' = decoded
    BY <2>1 DEF StartAnnotate
  <2>. QED
    BY <2>2, <2>3 DEF Streams
<1>2. CASE DecodeReads
  BY <1>2, BlameAssumption DEF DecodeReads
<1>3. CASE ErrorsRead
  BY <1>3, BlameAssumption DEF ErrorsRead
<1>4. CASE DecodeEnds \/ ErrorsEnd \/ WaitReturns \/ ProcessExits
  BY <1>4 DEF DecodeEnds, ErrorsEnd, WaitReturns, ProcessExits
<1>5. CASE ProcessWrites
  <2>1. Head(todo) \in Streams /\ Tail(todo) \in Seq(Streams)
    BY <1>5 DEF ProcessWrites, Streams
  <2>2. pipe' \in [Streams -> 0 .. PipeSize]
    BY <1>5, <2>1, BlameAssumption DEF ProcessWrites, Streams
  <2>. QED
    BY <1>5, <2>1, <2>2 DEF ProcessWrites, Streams
<1>6. CASE OpenChangeLog \/ ReadTags \/ ReadBranchHeads \/ OpenHgcmd \/ OpenFails
  BY <1>0, <1>6 DEF OpenChangeLog, ReadTags, ReadBranchHeads, OpenHgcmd, OpenFails
<1>7. CASE UpdateEverything \/ OtherPull \/ (\E id \in Rev : FileSystem(id))
  BY <1>0, <1>7 DEF UpdateEverything, OtherPull, FileSystem
<1>8. CASE CallCommits \/ CommitsGoesOn \/ UNCHANGED vars
  BY <1>0, <1>8 DEF CallCommits, CommitsGoesOn, vars
<1>. QED
  BY <1>1, <1>2, <1>3, <1>4, <1>5, <1>6, <1>7, <1>8 DEF Next, BlameGoesOn, AnnotateGoesOn

\* What the handle has read are names and revisions of the history; a file tree is
\* opened only of a revision in the index; the walk of a log stays in the changelog;
\* and no pipe of BlameFile's process holds more than a pipe takes.
THEOREM HgTypes == Spec => []TypeOK
<1>1. HistoryInv /\ SnapshotInv /\ OpenedInv /\ ReadInv /\ LogInv /\ BlameTypeOK => TypeOK
  <2>. SUFFICES ASSUME HistoryInv, SnapshotInv, OpenedInv, ReadInv, LogInv, BlameTypeOK
       PROVE  TypeOK
    OBVIOUS
  <2>1. onDisk \in 1 .. NumCommits /\ cl \in 0 .. onDisk /\ hpc \in Reads
    BY DEF HistoryInv, SnapshotInv
  <2>2. \A id : InIndex(id) => id \in Rev
    BY <2>1, LogAssumption DEF InIndex, Rev
  <2>3. LogTypeOK
    <3>1. ASSUME Walk PROVE Counted \in 0 .. NumCommits
      BY <3>1, LogAssumption DEF LogInv, Walk, Counted, Rev
    <3>2. total \in 0 .. NumCommits
      <4>1. CASE pc \in {"loop", "end", "returned"}
        BY <3>1, <4>1, LogAssumption DEF LogInv, Walk
      <4>. QED
        BY <4>1, LogAssumption DEF LogInv
    <3>. QED
      BY <3>2 DEF LogInv, LogTypeOK
  <2>. QED
    BY <2>1, <2>2, <2>3 DEF TypeOK, SnapshotInv, OpenedInv, ReadInv, Reads
<1>. QED
  BY <1>1, LogAlways, SnapshotInit, SnapshotNext, OpenedInit, OpenedNext, ReadInit, ReadNext,
     HistoryInit, HistoryNext, BlameTypeInit, BlameTypeNext, PTL DEF Spec

-----------------------------------------------------------------------------
(* Files and directories.                                                  *)

Path == Seq(STRING)

LEMMA PrefixIs ==
  ASSUME NEW p \in Path, NEW f \in Path
  PROVE  /\ IsPrefix(p, f) <=> Len(p) <= Len(f) /\ \A i \in 1 .. Len(p) : p[i] = f[i]
         /\ IsStrictPrefix(p, f) <=> Len(p) < Len(f) /\ \A i \in 1 .. Len(p) : p[i] = f[i]
<1>1. IsPrefix(p, f) <=> Len(p) <= Len(f) /\ \A i \in 1 .. Len(p) : p[i] = f[i]
  BY DEF IsPrefix, Path
<1>2. Len(p) = Len(f) /\ (\A i \in 1 .. Len(p) : p[i] = f[i]) <=> p = f
  BY DEF Path
<1>. QED
  BY <1>1, <1>2 DEF IsStrictPrefix, Path

\* A directory's entry on the way to a file below it.
Child(d, f) == Append(d, f[Len(d) + 1])

LEMMA ChildIs ==
  ASSUME NEW d \in Path, NEW f \in Path, IsStrictPrefix(d, f)
  PROVE  /\ Child(d, f) \in Path /\ Child(d, f) # << >> /\ Len(Child(d, f)) = Len(d) + 1
         /\ Len(f) = Len(d) + 1 => Child(d, f) = f
         /\ Len(f) # Len(d) + 1 => IsStrictPrefix(Child(d, f), f)
<1>. DEFINE p == Child(d, f)
<1>1. Len(d) \in Nat /\ Len(f) \in Nat /\ Len(d) < Len(f) /\ \A i \in 1 .. Len(d) : d[i] = f[i]
  BY PrefixIs DEF Path
<1>2. f[Len(d) + 1] \in STRING
  BY <1>1 DEF Path
<1>3. /\ p \in Path /\ Len(p) = Len(d) + 1
      /\ \A i \in 1 .. Len(p) : p[i] = IF i = Len(d) + 1 THEN f[Len(d) + 1] ELSE d[i]
  BY <1>2 DEF Child, Path
<1>. HIDE DEF p
<1>4. \A i \in 1 .. Len(p) : p[i] = f[i]
  BY <1>1, <1>3
<1>5. p # << >>
  BY <1>1, <1>3
<1>6. Len(f) = Len(d) + 1 => p = f
  BY <1>3, <1>4 DEF Path
<1>7. Len(f) # Len(d) + 1 => Len(p) < Len(f)
  BY <1>1, <1>3
<1>8. Len(f) # Len(d) + 1 => IsStrictPrefix(p, f)
  BY <1>3, <1>4, <1>7, PrefixIs
<1>. QED
  BY <1>3, <1>5, <1>6, <1>8 DEF p

\* The directory that a path is in.
LEMMA FrontIs ==
  ASSUME NEW p \in Path, p # << >>
  PROVE  /\ Front(p) \in Path /\ Len(Front(p)) = Len(p) - 1
         /\ IsStrictPrefix(Front(p), p)
         /\ \A f \in Path : IsStrictPrefix(p, f) =>
              IsStrictPrefix(Front(p), f) /\ f[Len(p)] = Last(p) /\ Len(f) > Len(p)
<1>1. Len(p) \in Nat /\ Len(p) > 0
  BY DEF Path
<1>2. /\ Front(p) \in Path /\ Len(Front(p)) = Len(p) - 1
      /\ \A i \in 1 .. Len(p) - 1 : Front(p)[i] = p[i]
  <2>. DEFINE b == Len(p) - 1
  <2>1. b \in Nat /\ b <= Len(p) /\ p \in Seq(STRING)
    BY <1>1 DEF Path
  <2>. HIDE DEF b
  <2>2. /\ SubSeq(p, 1, b) \in Seq(STRING) /\ Len(SubSeq(p, 1, b)) = b
        /\ \A i \in 1 .. b : SubSeq(p, 1, b)[i] = p[i]
    BY <2>1, SMT
  <2>. QED
    BY <2>2 DEF b, Front, Path
<1>3. IsStrictPrefix(Front(p), p)
  BY <1>1, <1>2, PrefixIs
<1>4. ASSUME NEW f \in Path, IsStrictPrefix(p, f)
      PROVE  IsStrictPrefix(Front(p), f) /\ f[Len(p)] = Last(p) /\ Len(f) > Len(p)
  <2>1. Len(f) \in Nat /\ Len(p) < Len(f) /\ \A i \in 1 .. Len(p) : p[i] = f[i]
    BY <1>4, PrefixIs DEF Path
  <2>. QED
    BY <1>1, <1>2, <2>1, PrefixIs DEF Last
<1>. QED
  BY <1>2, <1>3, <1>4

LEMMA DirIs ==
  ASSUME NEW m, IsManifest(m), NEW d \in Dirs(m)
  PROVE  /\ d \in Path
         /\ d # << >> => d \notin DOMAIN m /\ FilesBelow(m, d) # {}
<1>1. CASE d = << >>
  BY <1>1 DEF Path
<1>2. CASE d # << >>
  <2>1. PICK f \in DOMAIN m : \E i \in 0 .. Len(f) - 1 : d = SubSeq(f, 1, i)
    BY <1>2 DEF Dirs
  <2>2. PICK i \in 0 .. Len(f) - 1 : d = SubSeq(f, 1, i)
    BY <2>1
  <2>3. f \in Path
    BY DEF IsManifest, Path
  <2>4. d \in Path /\ Len(d) = i /\ \A j \in 1 .. i : d[j] = f[j]
    BY <2>2, <2>3 DEF Path
  <2>5. Len(d) < Len(f) /\ \A j \in 1 .. Len(d) : d[j] = f[j]
    BY <2>2, <2>3, <2>4 DEF Path
  <2>6. IsStrictPrefix(d, f)
    BY <2>3, <2>4, <2>5, PrefixIs
  <2>. QED
    BY <2>4, <2>6 DEF IsManifest, FilesBelow
<1>. QED
  BY <1>1, <1>2

\* Every file of a manifest has the record that the manifest names, in its log.
Recorded(m, logs, at) ==
  \A p \in DOMAIN m : p \in DOMAIN logs /\ \E x \in logs[p] : x.linkrev <= at /\ x.id = m[p].id

LEMMA RecordsExist ==
  ASSUME NEW k \in Nat, NEW r \in 0 .. k - 1
  PROVE  Recorded(manifest[r], Logs(k), r)
<1>. SUFFICES ASSUME NEW p \in DOMAIN manifest[r]
     PROVE  p \in DOMAIN Logs(k) /\ \E x \in Logs(k)[p] : x.linkrev <= r /\ x.id = manifest[r][p].id
  BY DEF Recorded
<1>. DEFINE S == {c \in 0 .. r : p \in DOMAIN manifest[c] /\ manifest[c][p].id = manifest[r][p].id}
            New == {b \in 0 .. k - 1 : p \in DOMAIN manifest[b] /\ IsNewContent(b, p)}
<1>1. p \in FileLogs(k)
  BY DEF FileLogs
<1>2. r \in S /\ S \in SUBSET Nat
  OBVIOUS
<1>3. PICK c \in S : \A b \in S : c <= b
  <2>. HIDE DEF S
  <2>. QED
    BY <1>2, MinRevision
<1>4. IsNewContent(c, p)
  <2>. SUFFICES ASSUME NEW b \in 0 .. c - 1, p \in DOMAIN manifest[b] PROVE manifest[b][p].id # manifest[c][p].id
    BY DEF IsNewContent
  <2>1. b \in 0 .. r /\ b < c
    BY <1>3
  <2>2. b \notin S
    BY <1>2, <1>3, <2>1
  <2>. QED
    BY <1>3, <2>1, <2>2
<1>5. c \in New
  BY <1>3, <1>4
<1>6. Logs(k)[p] = {Record(manifest[b][p].id, b) : b \in New}
  BY <1>1 DEF Logs
<1>7. Record(manifest[c][p].id, c) \in Logs(k)[p]
  BY <1>5, <1>6
<1>8. Record(manifest[c][p].id, c).linkrev <= r /\ Record(manifest[c][p].id, c).id = manifest[r][p].id
  BY <1>3 DEF Record
<1>. QED
  BY <1>1, <1>7, <1>8, LogsDomain

\* What getEntry comes to when it is offered the record that the manifest names.
LEMMA PresentEntry ==
  ASSUME NEW m, NEW logs, NEW maybe, NEW p \in DOMAIN m, p \in DOMAIN logs,
         NEW x \in maybe, x.id = m[p].id
  PROVE  GetEntry(m, logs, maybe, p) = {[err |-> "none", mode |-> m[p].mode, data |-> m[p].id]}
<1>. DEFINE present == {y \in maybe : y.id = m[p].id}
<1>1. x \in present
  OBVIOUS
<1>2. LookupRecord(maybe, m[p].id) = present
  BY <1>1 DEF LookupRecord
<1>3. GetEntry(m, logs, maybe, p) =
        {[err |-> "none", mode |-> m[p].mode, data |-> y.id] : y \in present}
  BY <1>2, EntryIs
<1>. QED
  BY <1>1, <1>3

\* A manifest's file can be stated, and opened with its content.
LEMMA FileEntry ==
  ASSUME NEW m, NEW logs, NEW at, Recorded(m, logs, at), NEW p \in DOMAIN m
  PROVE  [err |-> "none", mode |-> m[p].mode, data |-> m[p].id] \in Entries(m, logs, at, p)
<1>1. PICK x \in logs[p] : x.linkrev <= at /\ x.id = m[p].id
  BY DEF Recorded
<1>2. p \in DOMAIN logs
  BY DEF Recorded
<1>3. {x} \in MaybeAncestors(LogOf(logs, p), at)
  BY <1>1, <1>2 DEF MaybeAncestors, LogOf
<1>4. GetEntry(m, logs, {x}, p) = {[err |-> "none", mode |-> m[p].mode, data |-> m[p].id]}
  BY <1>1, <1>2, PresentEntry
<1>. QED
  BY <1>3, <1>4 DEF Entries

\* A path that is no file of the manifest: a directory, if at all, when it has no log.
LEMMA OtherStat ==
  ASSUME NEW m, NEW logs, NEW at, NEW p, p \notin DOMAIN m
  PROVE  /\ p \in DOMAIN logs => Lstat(m, logs, at, p) = {Failed, NotExist}
         /\ p \notin DOMAIN logs => /\ Lstat(m, logs, at, p) = {Failed, DirStat(m, p)}
                                  /\ DirStat(m, p) \in Stat(m, logs, at, p)
<1>1. NoEntry("noLog").err = "noLog" /\ NoEntry("notInManifest").err = "notInManifest"
  BY DEF NoEntry
<1>2. /\ LstatOf(m, p, NoEntry("noLog")) = DirStat(m, p)
      /\ LstatOf(m, p, NoEntry("notInManifest")) = NotExist
  BY <1>1 DEF LstatOf
<1>3. CASE p \in DOMAIN logs
  <2>1. Entries(m, logs, at, p) = {NoEntry("notInManifest")}
    BY <1>3, EntriesAre
  <2>. QED
    BY <1>2, <1>3, <2>1 DEF Lstat
<1>4. CASE p \notin DOMAIN logs
  <2>1. Entries(m, logs, at, p) = {NoEntry("noLog")}
    BY <1>4, EntriesAre
  <2>2. Lstat(m, logs, at, p) = {Failed, DirStat(m, p)}
    BY <1>2, <2>1 DEF Lstat
  <2>3. DirStat(m, p) \in Stat(m, logs, at, p)
    BY <1>1, <1>2, <2>1 DEF Stat
  <2>. QED
    BY <1>4, <2>2, <2>3
<1>. QED
  BY <1>3, <1>4

LEMMA ListedCanBeStated ==
  ASSUME NEW m, IsManifest(m), NEW logs, NEW at, Recorded(m, logs, at),
         NEW d \in Path, NEW e \in ReadDir(m, d)
  PROVE  LET p == Append(d, e.name) IN
           \/ e.mode \in Lstat(m, logs, at, p)
           \/ e.mode = "dir" /\ p \in DOMAIN logs /\ Lstat(m, logs, at, p) = {Failed, NotExist}
<1>1. PICK f \in FilesBelow(m, d) : e = Listed(m, d, f)
  BY DEF ReadDir
<1>2. f \in DOMAIN m /\ IsStrictPrefix(d, f) /\ f \in Path
  BY DEF FilesBelow, IsManifest, Path
<1>. DEFINE p == Child(d, f)
<1>3. /\ p \in Path /\ p # << >>
      /\ Len(f) = Len(d) + 1 => p = f
      /\ Len(f) # Len(d) + 1 => IsStrictPrefix(p, f)
  BY <1>2, ChildIs
<1>4. Append(d, e.name) = p /\ e.mode = IF Len(f) = Len(d) + 1 THEN m[f].mode ELSE "dir"
  BY <1>1 DEF Listed, Child
<1>. HIDE DEF p
<1>5. CASE Len(f) = Len(d) + 1
  <2>1. p = f /\ e.mode = m[f].mode
    BY <1>3, <1>4, <1>5
  <2>. DEFINE g == [err |-> "none", mode |-> m[f].mode, data |-> m[f].id]
  <2>2. g \in Entries(m, logs, at, p)
    BY <1>2, <2>1, FileEntry
  <2>3. LstatOf(m, p, g) = m[f].mode
    BY DEF LstatOf
  <2>. HIDE DEF g
  <2>. QED
    BY <1>4, <2>1, <2>2, <2>3 DEF Lstat
<1>6. CASE Len(f) # Len(d) + 1
  <2>1. IsStrictPrefix(p, f) /\ e.mode = "dir"
    BY <1>3, <1>4, <1>6
  <2>2. p \notin DOMAIN m /\ FilesBelow(m, p) # {}
    BY <1>2, <2>1 DEF IsManifest, FilesBelow
  <2>3. CASE p \in DOMAIN logs
    <3>1. Lstat(m, logs, at, p) = {Failed, NotExist}
      BY <2>2, <2>3, OtherStat
    <3>. QED
      BY <1>4, <2>1, <2>3, <3>1
  <2>4. CASE p \notin DOMAIN logs
    <3>1. Lstat(m, logs, at, p) = {Failed, DirStat(m, p)}
      BY <2>2, <2>4, OtherStat
    <3>. QED
      BY <1>4, <2>1, <2>2, <3>1 DEF DirStat
  <2>. QED
    BY <2>3, <2>4
<1>. QED
  BY <1>5, <1>6

LEMMA StatedIsListed ==
  ASSUME NEW m, IsManifest(m), NEW logs, NEW at, Recorded(m, logs, at),
         NEW p \in Path, p # << >>, NEW mode \in Lstat(m, logs, at, p) \ {Failed, NotExist}
  PROVE  [name |-> Last(p), mode |-> mode] \in ReadDir(m, Front(p))
<1>1. /\ Front(p) \in Path /\ Len(Front(p)) + 1 = Len(p) /\ IsStrictPrefix(Front(p), p)
  <2>1. Len(p) \in Nat
    BY DEF Path
  <2>. QED
    BY <2>1, FrontIs
<1>2. CASE p \in DOMAIN m
  <2>1. p \in DOMAIN logs
    BY <1>2 DEF Recorded
  <2>2. PICK e \in Entries(m, logs, at, p) : mode = LstatOf(m, p, e)
    BY DEF Lstat
  <2>3. mode = m[p].mode
    <3>1. CASE e = NoEntry("noRecord")
      <4>1. LstatOf(m, p, e) = NotExist
        BY <3>1 DEF LstatOf, NoEntry
      <4>. QED
        BY <2>2, <4>1
    <3>2. CASE e.err = "none" /\ e.mode = m[p].mode
      BY <2>2, <3>2 DEF LstatOf
    <3>. QED
      BY <1>2, <2>1, <3>1, <3>2, EntriesAre
  <2>4. p \in FilesBelow(m, Front(p))
    BY <1>1, <1>2 DEF FilesBelow
  <2>5. Listed(m, Front(p), p) = [name |-> Last(p), mode |-> m[p].mode]
    BY <1>1 DEF Listed, Last
  <2>. QED
    BY <2>3, <2>4, <2>5 DEF ReadDir
<1>3. CASE p \notin DOMAIN m
  <2>1. p \notin DOMAIN logs /\ mode = DirStat(m, p)
    BY <1>3, OtherStat
  <2>2. mode = "dir" /\ FilesBelow(m, p) # {}
    BY <2>1 DEF DirStat
  <2>3. PICK f \in FilesBelow(m, p) : TRUE
    BY <2>2
  <2>4. f \in DOMAIN m /\ f \in Path /\ IsStrictPrefix(p, f)
    BY DEF FilesBelow, IsManifest, Path
  <2>5. IsStrictPrefix(Front(p), f) /\ f[Len(p)] = Last(p) /\ Len(f) > Len(p) /\ Len(p) \in Nat
    BY <2>4, FrontIs DEF Path
  <2>6. f \in FilesBelow(m, Front(p))
    BY <2>4, <2>5 DEF FilesBelow
  <2>7. Listed(m, Front(p), f) = [name |-> Last(p), mode |-> "dir"]
    BY <1>1, <2>5 DEF Listed
  <2>. QED
    BY <2>2, <2>6, <2>7 DEF ReadDir
<1>. QED
  BY <1>2, <1>3

\* Of any tree, and whatever else is on the disk: a name that ReadDir lists can be
\* stated and is what the listing says, or is a directory that another revision has
\* as a file; and whatever a path may be stated to be is listed above it.
THEOREM ListingsAgreeWithStats == Spec => []ListedIsStated
<1>1. HistoryInv /\ SnapshotInv => ListedIsStated
  <2>. SUFFICES ASSUME HistoryInv, SnapshotInv, NEW r \in 0 .. cl - 1
       PROVE  /\ \A d \in Dirs(manifest[r]) : \A e \in ReadDir(manifest[r], d) :
                   LET p == Append(d, e.name) IN
                     \/ e.mode \in LstatAt(r, p)
                     \/ e.mode = "dir" /\ p \in FileLogs(onDisk) /\ LstatAt(r, p) = {Failed, NotExist}
              /\ \A p \in Paths \ {<< >>} : \A mode \in LstatAt(r, p) \ {Failed, NotExist} :
                   [name |-> Last(p), mode |-> mode] \in ReadDir(manifest[r], Front(p))
    BY DEF ListedIsStated
  <2>1. r \in Rev /\ r \in 0 .. onDisk - 1 /\ onDisk \in Nat /\ IsManifest(manifest[r])
    BY LogAssumption DEF HistoryInv, SnapshotInv, Rev
  <2>2. Recorded(manifest[r], Logs(onDisk), r)
    BY <2>1, RecordsExist
  <2>3. \A d \in Dirs(manifest[r]) : d \in Path
    BY <2>1, DirIs
  <2>4. ASSUME NEW p \in Paths PROVE p \in Path
    <3>1. PICK c \in Rev : p \in DOMAIN manifest[c] \/ p \in Dirs(manifest[c])
      BY DEF Paths
    <3>2. IsManifest(manifest[c])
      BY DEF HistoryInv
    <3>. QED
      BY <3>1, <3>2, DirIs DEF IsManifest, Path
  <2>5. ASSUME NEW d \in Dirs(manifest[r]), NEW e \in ReadDir(manifest[r], d)
        PROVE  LET p == Append(d, e.name) IN
                 \/ e.mode \in LstatAt(r, p)
                 \/ e.mode = "dir" /\ p \in FileLogs(onDisk) /\ LstatAt(r, p) = {Failed, NotExist}
    BY <2>1, <2>2, <2>3, ListedCanBeStated, LogsDomain DEF LstatAt
  <2>6. ASSUME NEW p \in Paths \ {<< >>}, NEW mode \in LstatAt(r, p) \ {Failed, NotExist}
        PROVE  [name |-> Last(p), mode |-> mode] \in ReadDir(manifest[r], Front(p))
    BY <2>1, <2>2, <2>4, StatedIsListed DEF LstatAt
  <2>. QED
    BY <2>5, <2>6
<1>. QED
  BY <1>1, SnapshotAlways, HistoryAlways, PTL

-----------------------------------------------------------------------------
(* The two implementations.                                                *)

LEMMA AppendIs ==
  ASSUME NEW S, NEW d \in Seq(S), NEW x \in S
  PROVE  /\ Append(d, x) \in Seq(S) /\ Len(Append(d, x)) = Len(d) + 1
         /\ Append(d, x)[Len(d) + 1] = x /\ \A i \in 1 .. Len(d) : Append(d, x)[i] = d[i]
OBVIOUS

LEMMA BelowEntry ==
  ASSUME NEW d \in Path, NEW x \in STRING
  PROVE  /\ Append(d, x) \in Path /\ Len(Append(d, x)) = Len(d) + 1
         /\ IsStrictPrefix(d, Append(d, x)) /\ Append(d, x)[Len(d) + 1] = x
         /\ \A f \in Path : IsStrictPrefix(Append(d, x), f) =>
              IsStrictPrefix(d, f) /\ f[Len(d) + 1] = x
<1>. DEFINE p == Append(d, x)
<1>1. Len(d) \in Nat
  BY DEF Path
<1>2. /\ p \in Path /\ Len(p) = Len(d) + 1
      /\ p[Len(d) + 1] = x /\ \A i \in 1 .. Len(d) : p[i] = d[i]
  BY AppendIs DEF Path
<1>. HIDE DEF p
<1>3. IsStrictPrefix(d, p)
  BY <1>1, <1>2, PrefixIs
<1>4. ASSUME NEW f \in Path, IsStrictPrefix(p, f)
      PROVE  IsStrictPrefix(d, f) /\ f[Len(d) + 1] = x
  <2>1. Len(p) < Len(f) /\ \A i \in 1 .. Len(p) : p[i] = f[i]
    BY <1>2, <1>4, PrefixIs
  <2>2. Len(f) \in Nat
    BY DEF Path
  <2>3. Len(d) < Len(f) /\ \A i \in 1 .. Len(d) : d[i] = f[i]
    BY <1>1, <1>2, <2>1, <2>2
  <2>4. f[Len(d) + 1] = x
    <3>1. Len(d) + 1 \in 1 .. Len(p)
      BY <1>1, <1>2
    <3>. QED
      BY <1>2, <2>1, <3>1
  <2>. QED
    BY <2>3, <2>4, PrefixIs
<1>. QED
  BY <1>2, <1>3, <1>4 DEF p

\* What hg locates for a directory: the files not more than two levels below it.
LEMMA LocatedIs ==
  ASSUME NEW m, IsManifest(m), NEW d \in Dirs(m), d # << >>
  PROVE  /\ Located(m, d) = {f \in FilesBelow(m, d) : Len(f) <= Len(d) + 2}
         /\ \A f \in Located(m, d) : CmdListed(d, f).name = f[Len(d) + 1]
<1>1. d \in Path /\ d \notin DOMAIN m
  BY DirIs
<1>2. ASSUME NEW f \in DOMAIN m
      PROVE  /\ f \in Path /\ Len(f) \in Nat /\ f # d
             /\ IsPrefix(d, f) <=> IsStrictPrefix(d, f)
  BY <1>1 DEF IsManifest, Path, IsStrictPrefix
<1>3. Len(d) \in Nat
  BY <1>1 DEF Path
<1>4. Located(m, d) = {f \in FilesBelow(m, d) : Len(f) <= Len(d) + 2}
  BY <1>2, <1>3 DEF Located, FilesBelow
<1>5. ASSUME NEW f \in Located(m, d) PROVE CmdListed(d, f).name = f[Len(d) + 1]
  <2>1. f \in DOMAIN m /\ IsStrictPrefix(d, f)
    BY <1>4 DEF FilesBelow
  <2>2. f \in Path /\ f # d /\ Len(d) < Len(f) /\ Len(f) \in Nat
    BY <1>1, <1>2, <2>1, PrefixIs
  <2>3. SubSeq(f, Len(d) + 1, Len(f))[1] = f[Len(d) + 1]
    BY <1>3, <2>2 DEF Path
  <2>. QED
    BY <2>2, <2>3 DEF CmdListed
<1>. QED
  BY <1>4, <1>5

LEMMA CmdListsNear ==
  ASSUME NEW m, IsManifest(m), NEW d \in Dirs(m), d # << >>
  PROVE  /\ CmdStat(m, d) = (IF Near(m, d, 2) THEN "dir" ELSE NotExist)
         /\ CmdReadDir(m, d).err = "none" <=> Near(m, d, 2)
         /\ CmdReadDir(m, d).err = "none" =>
              {e.name : e \in CmdReadDir(m, d).list} =
                {x \in {e.name : e \in ReadDir(m, d)} :
                   Append(d, x) \in DOMAIN m \/ Near(m, Append(d, x), 1)}
<1>1. d \in Path /\ d \notin DOMAIN m /\ Len(d) \in Nat
  BY DirIs DEF Path
<1>2. Located(m, d) # {} <=> Near(m, d, 2)
  BY LocatedIs DEF Near
<1>3. CmdReadDir(m, d).err = "none" <=> Near(m, d, 2)
  BY <1>2 DEF CmdReadDir
<1>4. CmdStat(m, d) = (IF Near(m, d, 2) THEN "dir" ELSE NotExist)
  BY <1>1, <1>3 DEF CmdStat
<1>5. ASSUME CmdReadDir(m, d).err = "none"
      PROVE  {e.name : e \in CmdReadDir(m, d).list} =
               {x \in {e.name : e \in ReadDir(m, d)} :
                  Append(d, x) \in DOMAIN m \/ Near(m, Append(d, x), 1)}
  <2>. DEFINE names  == {e.name : e \in ReadDir(m, d)}
              listed == {e.name : e \in CmdReadDir(m, d).list}
  <2>1. CmdReadDir(m, d).list = {CmdListed(d, f) : f \in Located(m, d)}
    BY <1>5 DEF CmdReadDir
  <2>2. \A x : x \in listed <=> \E f \in Located(m, d) : x = f[Len(d) + 1]
    BY <2>1, LocatedIs
  <2>3. \A x : x \in names <=> \E f \in FilesBelow(m, d) : x = f[Len(d) + 1]
    <3>1. \A f : Listed(m, d, f).name = f[Len(d) + 1]
      BY DEF Listed
    <3>. QED
      BY <3>1 DEF ReadDir
  <2>4. \A f \in FilesBelow(m, d) : f \in DOMAIN m /\ f \in Path /\ IsStrictPrefix(d, f)
    BY DEF FilesBelow, IsManifest, Path
  <2>5. \A f : f \in Located(m, d) <=> f \in FilesBelow(m, d) /\ Len(f) <= Len(d) + 2
    BY LocatedIs
  <2>. HIDE DEF names, listed
  <2>6. ASSUME NEW x \in listed
        PROVE  x \in names /\ (Append(d, x) \in DOMAIN m \/ Near(m, Append(d, x), 1))
    <3>1. PICK f \in Located(m, d) : x = f[Len(d) + 1]
      BY <2>2
    <3>2. f \in FilesBelow(m, d) /\ Len(f) <= Len(d) + 2
      BY <2>5
    <3>3. f \in DOMAIN m /\ f \in Path /\ IsStrictPrefix(d, f)
      BY <2>4, <3>2
    <3>4. Append(d, x) = Child(d, f)
      BY <3>1 DEF Child
    <3>5. /\ Len(f) = Len(d) + 1 => Append(d, x) = f
          /\ Len(f) # Len(d) + 1 => IsStrictPrefix(Append(d, x), f)
          /\ Len(Append(d, x)) = Len(d) + 1
      BY <1>1, <3>3, <3>4, ChildIs
    <3>6. Len(f) # Len(d) + 1 => Near(m, Append(d, x), 1)
      BY <1>1, <3>2, <3>3, <3>5 DEF Near, FilesBelow
    <3>. QED
      BY <2>3, <3>1, <3>2, <3>3, <3>5, <3>6
  <2>7. ASSUME NEW x \in names, Append(d, x) \in DOMAIN m \/ Near(m, Append(d, x), 1)
        PROVE  x \in listed
    <3>1. PICK g \in FilesBelow(m, d) : x = g[Len(d) + 1]
      BY <2>3
    <3>2. x \in STRING
      <4>1. g \in Path /\ Len(d) < Len(g)
        BY <1>1, <2>4, PrefixIs
      <4>. QED
        BY <1>1, <3>1, <4>1 DEF Path
    <3>3. /\ Append(d, x) \in Path /\ Len(Append(d, x)) = Len(d) + 1
          /\ IsStrictPrefix(d, Append(d, x)) /\ Append(d, x)[Len(d) + 1] = x
          /\ \A f \in Path : IsStrictPrefix(Append(d, x), f) =>
               IsStrictPrefix(d, f) /\ f[Len(d) + 1] = x
      BY <1>1, <3>2, BelowEntry
    <3>4. CASE Append(d, x) \in DOMAIN m
      <4>1. Append(d, x) \in Located(m, d)
        <5>1. Append(d, x) \in FilesBelow(m, d)
          BY <3>3, <3>4 DEF FilesBelow
        <5>2. Len(Append(d, x)) <= Len(d) + 2
          BY <1>1, <3>3
        <5>. QED
          BY <2>5, <5>1, <5>2
      <4>. QED
        BY <2>2, <3>3, <4>1
    <3>5. CASE Near(m, Append(d, x), 1)
      <4>1. PICK f \in FilesBelow(m, Append(d, x)) : Len(f) <= Len(Append(d, x)) + 1
        BY <3>5 DEF Near
      <4>2. f \in DOMAIN m /\ f \in Path /\ IsStrictPrefix(Append(d, x), f)
        BY DEF FilesBelow, IsManifest, Path
      <4>3. IsStrictPrefix(d, f) /\ f[Len(d) + 1] = x
        BY <3>3, <4>2
      <4>4. Len(f) <= Len(d) + 2
        BY <1>1, <3>3, <4>1
      <4>5. f \in Located(m, d)
        BY <2>5, <4>2, <4>3, <4>4 DEF FilesBelow
      <4>. QED
        BY <2>2, <4>3, <4>5
    <3>. QED
      BY <2>7, <3>4, <3>5
  <2>8. listed = {x \in names : Append(d, x) \in DOMAIN m \/ Near(m, Append(d, x), 1)}
    BY <2>6, <2>7
  <2>. QED
    BY <2>8 DEF names, listed
<1>. QED
  BY <1>3, <1>4, <1>5

LEMMA FilesAgree ==
  ASSUME NEW m, NEW logs, NEW at, Recorded(m, logs, at), NEW p \in DOMAIN m
  PROVE  /\ CmdOpen(m, p) \in OpenFile(m, logs, at, p)
         /\ \A maybe \in MaybeAncestors(logs[p], at) :
              (\E x \in maybe : x.id = m[p].id) =>
                {OpenOf(e) : e \in GetEntry(m, logs, maybe, p)} = {CmdOpen(m, p)}
         /\ m[p].mode = "file" => CmdStat(m, p) \in Stat(m, logs, at, p)
<1>. DEFINE g == [err |-> "none", mode |-> m[p].mode, data |-> m[p].id]
<1>1. g \in Entries(m, logs, at, p)
  BY FileEntry
<1>2. OpenOf(g) = CmdOpen(m, p)
  BY DEF OpenOf, CmdOpen
<1>3. g.err = "none" /\ g.mode = m[p].mode /\ LstatOf(m, p, g) = m[p].mode
  BY DEF LstatOf
<1>4. ASSUME NEW maybe, NEW x \in maybe, x.id = m[p].id
      PROVE  {OpenOf(e) : e \in GetEntry(m, logs, maybe, p)} = {CmdOpen(m, p)}
  <2>1. p \in DOMAIN logs
    BY DEF Recorded
  <2>2. GetEntry(m, logs, maybe, p) = {g}
    BY <1>4, <2>1, PresentEntry
  <2>. QED
    BY <1>2, <2>2
<1>. HIDE DEF g
<1>5. CmdOpen(m, p) \in OpenFile(m, logs, at, p)
  BY <1>1, <1>2 DEF OpenFile
<1>6. ASSUME m[p].mode = "file" PROVE CmdStat(m, p) \in Stat(m, logs, at, p)
  <2>1. CmdStat(m, p) = "file"
    BY DEF CmdStat
  <2>. QED
    BY <1>1, <1>3, <1>6, <2>1 DEF Stat
<1>. QED
  BY <1>4, <1>5, <1>6

\* Of any history and whatever was pulled: the two implementations open the same
\* files with the same content whenever the record that the manifest names is among
\* those that hgo offers, and tell the same of every directory that has a file
\* within two levels of it.
THEOREM ImplementationsTellTheSame == Spec => []ImplementationsAgree
<1>1. HistoryInv /\ SnapshotInv => ImplementationsAgree
  <2>. SUFFICES ASSUME HistoryInv, SnapshotInv, NEW r \in 0 .. cl - 1
       PROVE  LET m == manifest[r] IN
                /\ \A p \in DOMAIN m :
                     /\ CmdOpen(m, p) \in OpenAt(r, p)
                     /\ \A maybe \in MaybeAncestors(Logs(onDisk)[p], r) :
                          (\E x \in maybe : x.id = m[p].id) =>
                            {OpenOf(e) : e \in GetEntry(m, Logs(onDisk), maybe, p)} = {CmdOpen(m, p)}
                     /\ m[p].mode = "file" => CmdStat(m, p) \in StatAt(r, p)
                /\ \A d \in {x \in Dirs(m) \ {<< >>} : Near(m, x, 2)} :
                     LET names  == {e.name : e \in ReadDir(m, d)}
                         listed == CmdReadDir(m, d)
                     IN  /\ CmdStat(m, d) = "dir"
                         /\ d \notin FileLogs(onDisk) => CmdStat(m, d) \in StatAt(r, d)
                         /\ listed.err = "none"
                         /\ {e.name : e \in listed.list} \subseteq names
                         /\ \A x \in names :
                              Append(d, x) \in DOMAIN m \/ Near(m, Append(d, x), 1) =>
                                x \in {e.name : e \in listed.list}
    BY DEF ImplementationsAgree
  <2>. DEFINE m == manifest[r]
  <2>1. r \in 0 .. onDisk - 1 /\ onDisk \in Nat /\ IsManifest(m)
    BY LogAssumption DEF HistoryInv, SnapshotInv, Rev
  <2>2. Recorded(m, Logs(onDisk), r)
    BY <2>1, RecordsExist
  <2>3. ASSUME NEW p \in DOMAIN m
        PROVE  /\ CmdOpen(m, p) \in OpenAt(r, p)
               /\ \A maybe \in MaybeAncestors(Logs(onDisk)[p], r) :
                    (\E x \in maybe : x.id = m[p].id) =>
                      {OpenOf(e) : e \in GetEntry(m, Logs(onDisk), maybe, p)} = {CmdOpen(m, p)}
               /\ m[p].mode = "file" => CmdStat(m, p) \in StatAt(r, p)
    BY <2>2, FilesAgree DEF OpenAt, StatAt
  <2>4. ASSUME NEW d \in {x \in Dirs(m) \ {<< >>} : Near(m, x, 2)}
        PROVE  /\ CmdStat(m, d) = "dir"
               /\ d \notin FileLogs(onDisk) => CmdStat(m, d) \in StatAt(r, d)
               /\ CmdReadDir(m, d).err = "none"
               /\ {e.name : e \in CmdReadDir(m, d).list} =
                    {x \in {e.name : e \in ReadDir(m, d)} :
                       Append(d, x) \in DOMAIN m \/ Near(m, Append(d, x), 1)}
    <3>1. d \in Dirs(m) /\ d # << >> /\ Near(m, d, 2)
      OBVIOUS
    <3>2. d \notin DOMAIN m /\ FilesBelow(m, d) # {}
      BY <2>1, <3>1, DirIs
    <3>. HIDE DEF m
    <3>3. CmdStat(m, d) = "dir" /\ CmdReadDir(m, d).err = "none"
      BY <2>1, <3>1, CmdListsNear
    <3>4. {e.name : e \in CmdReadDir(m, d).list} =
            {x \in {e.name : e \in ReadDir(m, d)} :
               Append(d, x) \in DOMAIN m \/ Near(m, Append(d, x), 1)}
      BY <2>1, <3>1, <3>3, CmdListsNear
    <3>5. ASSUME d \notin FileLogs(onDisk) PROVE CmdStat(m, d) \in StatAt(r, d)
      <4>1. DirStat(m, d) = "dir"
        BY <3>2 DEF DirStat
      <4>2. DirStat(m, d) \in Stat(m, Logs(onDisk), r, d)
        BY <3>2, <3>5, OtherStat, LogsDomain
      <4>. QED
        BY <3>3, <4>1, <4>2 DEF StatAt, m
    <3>. QED
      BY <3>3, <3>4, <3>5
  <2>. QED
    BY <2>3, <2>4
<1>. QED
  BY <1>1, HistoryAlways, SnapshotAlways, PTL
=============================================================================
