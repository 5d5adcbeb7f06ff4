-------------------------- MODULE GitcmdCross_proof --------------------------
(***************************************************************************)
(* Proof that a cross-repository call finds the commit it asks about, with  *)
(* any number of goroutines, handles and directories, whether or not some  *)
(* of the handles share a directory.                                       *)
(***************************************************************************)
EXTENDS GitcmdRepo_proof

Crossing(p) == call[p] # NoCall /\ call[p].op \in CrossOps

CommitAsked(p) == Crossing(p) => call[p].c \in Commit

\* The branches that have pointed to the commit ever since the call began.
KeptPoint(p) == Crossing(p) => \A r \in kept[p] : refs[OtherD(p)][r] = call[p].c

\* Each of them is still to be fetched, or the commit is here.
KeptComes(p) ==
  Crossing(p) => \A r \in kept[p] :
    (Top(p) = "fetchRemote" /\ r \in todo[p]) \/ call[p].c \in objs[D(p)]

\* A fetch that has ended well has fetched all branches.
FetchedAll(p) ==
  Top(p) = "fetchRemote" /\ pc[p] = "exit" /\ res[p] = "ok" => todo[p] = {}

Finds(p) ==
  pc[p] = "exit" /\ Top(p) # "fetchRemote" /\ Crossing(p) /\ kept[p] # {}
    => res[p] # "notfound"

CrossInv(p) == CommitAsked(p) /\ KeptPoint(p) /\ KeptComes(p) /\ FetchedAll(p) /\ Finds(p)

CInv == Shape /\ RefsReadable /\ \A p \in Proc : CrossInv(p)

LEMMA CrossTypes ==
  ASSUME Shape, NEW p \in Proc, call[p] # NoCall
  PROVE  /\ call[p] \in Call /\ OtherD(p) \in Dir /\ D(p) \in Dir
         /\ objs[D(p)] \in SUBSET Commit /\ refs[OtherD(p)] \in RefMap
         /\ kept[p] \in SUBSET Ref /\ todo[p] \in SUBSET Ref
BY DirOfAssumption DEF Shape, TypeOK, Call, OtherD, D

\* While a call goes on, branches are only ever dropped from kept, and one that
\* is moved away is.
LEMMA KeptStep ==
  ASSUME Shape, NEW p \in Proc, Step(p), NEW q \in Proc, KeptPoint(q),
         call[q] # NoCall, call'[q] = call[q]
  PROVE  KeptPoint(q)' /\ kept'[q] \subseteq kept[q]
<1>1. CASE UpdateRef(p)
  <2>1. PICK r \in todo[p], c \in Commit \cup {NoCommit} :
          /\ refs' = [refs EXCEPT ![D(p)][r] = c]
          /\ kept' = [x \in Proc |->
                        IF call[x] # NoCall /\ OtherD(x) = D(p) /\ call[x].c # c
                        THEN kept[x] \ {r} ELSE kept[x]]
    BY <1>1 DEF UpdateRef
  <2>5. r \in Ref
    BY <2>1 DEF Shape, TypeOK
  <2>2. OtherD(q)' = OtherD(q) /\ (Crossing(q)' <=> Crossing(q))
    BY DEF OtherD, Crossing
  <2>3. kept'[q] = IF OtherD(q) = D(p) /\ call[q].c # c THEN kept[q] \ {r} ELSE kept[q]
    BY <2>1
  <2>4. ASSUME Crossing(q), NEW b \in kept'[q] PROVE refs'[OtherD(q)][b] = call[q].c
    <3>1. b \in kept[q] /\ b \in Ref /\ refs[OtherD(q)][b] = call[q].c
      BY <2>3, <2>4, CrossTypes DEF KeptPoint
    <3>2. OtherD(q) \in Dir /\ refs[OtherD(q)] \in RefMap
      BY CrossTypes
    <3>3. CASE OtherD(q) = D(p) /\ b = r
      <4>1. call[q].c = c
        BY <2>3, <2>4, <3>3
      <4>. QED
        BY <2>1, <2>5, <3>1, <3>2, <3>3, <4>1 DEF Shape, TypeOK, RefMap
    <3>4. CASE OtherD(q) # D(p) \/ b # r
      BY <2>1, <2>5, <3>1, <3>2, <3>4 DEF Shape, TypeOK, RefMap
    <3>. QED
      BY <3>3, <3>4
  <2>. QED
    BY <2>2, <2>3, <2>4 DEF KeptPoint
<1>2. CASE ~UpdateRef(p)
  <2>1. UNCHANGED refs
    BY <1>2, DataStep
  <2>2. kept'[q] = kept[q]
    <3>1. CASE Locking(p)
      BY <3>1 DEF Locking, EnterUnlocked, EnterRead, EnterBlocked, WokenReader, EnterWrite,
         AcquireWrite
    <3>2. CASE Reading(p)
      BY <3>2 DEF Reading, ResolveRevision, Tags, Committers, ListFiles, Diff, BlameFile,
         MergeBase, Search, GetCommit, CommitsLog, CommitsCount, BranchesFilter, BranchesList,
         BranchesDetail, BranchesReturn, Lstat, ReadDir, Open, OpenBadObject, OpenSubmodule,
         Stat, StatRegular, StatSymlink, CommandFails, OneRefCommand, OneObjectCommand, FsLeaf,
         FsNest
    <3>3. CASE Editing(p)
      BY <1>2, <3>3 DEF Editing, UpdateReturn, FetchRef, FetchDone
    <3>4. CASE ReturnToCaller(p) \/ FetchReturns(p)
      BY <3>4 DEF ReturnToCaller, FetchReturns
    <3>5. CASE ReturnToClient(p)
      <4>1. p # q
        BY <3>5 DEF ReturnToClient, Shape, TypeOK
      <4>. QED
        BY <3>5, <4>1 DEF ReturnToClient, Shape, TypeOK
    <3>. QED
      BY <3>1, <3>2, <3>3, <3>4, <3>5 DEF Step, Returning
  <2>. QED
    BY <2>1, <2>2 DEF KeptPoint, Crossing, OtherD
<1>. QED
  BY <1>1, <1>2

-----------------------------------------------------------------------------
(* The call's own steps.                                                   *)

\* Without a fetch the two repositories are one directory.
LEMMA InvokeFinds ==
  ASSUME Shape, RefsReadable, NEW p \in Proc, Invoke(p)
  PROVE  CrossInv(p)'
<1>1. PICK k \in Call :
        /\ call' = [call EXCEPT ![p] = k]
        /\ stack' = [stack EXCEPT ![p] = <<FirstFrame(k)>>]
        /\ todo' = [todo EXCEPT ![p] = IF FirstFrame(k) \in Editors THEN Ref ELSE {}]
        /\ kept' = [kept EXCEPT ![p] =
                      IF k.op \in CrossOps
                      THEN {r \in Ref : refs[DirOf[k.other]][r] = k.c} ELSE {}]
        /\ (k.op \in ObjectReaders \cup CrossOps) = (k.c \in Commit)
  BY DEF Invoke, Calls
<1>2. /\ call'[p] = k /\ Top(p)' = FirstFrame(k) /\ pc'[p] = "enter" /\ UNCHANGED <<refs, objs>>
      /\ todo'[p] = (IF FirstFrame(k) \in Editors THEN Ref ELSE {})
      /\ kept'[p] = (IF k.op \in CrossOps
                     THEN {r \in Ref : refs[DirOf[k.other]][r] = k.c} ELSE {})
  <2>1. call'[p] = k /\ stack'[p] = <<FirstFrame(k)>>
    BY <1>1 DEF Shape, TypeOK
  <2>2. Top(p)' = FirstFrame(k)
    BY <2>1 DEF Top
  <2>3. pc'[p] = "enter" /\ UNCHANGED <<refs, objs>>
    BY DEF Invoke, dataVars, Shape, TypeOK
  <2>4. todo'[p] = (IF FirstFrame(k) \in Editors THEN Ref ELSE {})
    BY <1>1 DEF Shape, TypeOK
  <2>5. kept'[p] = (IF k.op \in CrossOps
                   THEN {r \in Ref : refs[DirOf[k.other]][r] = k.c} ELSE {})
    BY <1>1 DEF Shape, TypeOK
  <2>. QED
    BY <2>1, <2>2, <2>3, <2>4, <2>5
<1>3. OtherD(p)' = DirOf[k.other] /\ D(p)' = DirOf[k.h] /\ (Crossing(p)' => k.op \in CrossOps)
      /\ DirOf[k.other] \in Dir
  BY <1>2, DirOfAssumption DEF OtherD, D, Crossing, Call
<1>4. KeptPoint(p)'
  BY <1>2, <1>3 DEF KeptPoint
<1>5. KeptComes(p)'
  <2>. SUFFICES ASSUME k.op \in CrossOps, NEW r \in kept'[p]
       PROVE  (FirstFrame(k) = "fetchRemote" /\ r \in todo'[p]) \/ k.c \in objs[DirOf[k.h]]
    BY <1>2, <1>3 DEF KeptComes
  <2>1. r \in Ref /\ refs[DirOf[k.other]][r] = k.c
    BY <1>2
  <2>2. CASE DirOf[k.other] # DirOf[k.h]
    BY <1>2, <2>1, <2>2 DEF FirstFrame, Editors
  <2>3. CASE DirOf[k.other] = DirOf[k.h]
    <3>1. k.c \in Commit
      BY <1>1
    <3>. QED
      BY <1>3, <2>1, <2>3, <3>1, NoCommitAssumption DEF RefsReadable
  <2>. QED
    BY <2>2, <2>3
<1>6. FetchedAll(p)' /\ Finds(p)' /\ CommitAsked(p)'
  BY <1>1, <1>2, <1>3 DEF FetchedAll, Finds, CommitAsked
<1>. QED
  BY <1>4, <1>5, <1>6 DEF CrossInv

\* A command of the call: a fetch brings what its branches point to, and a reader
\* finds what is here.
LEMMA CommandFinds ==
  ASSUME Shape, NEW p \in Proc, CrossInv(p), Reading(p) \/ Editing(p)
  PROVE  CrossInv(p)'
<1>1. /\ call[p] # NoCall /\ call' = call /\ pc[p] \in {"body", "detail"}
      /\ D(p)' = D(p) /\ OtherD(p)' = OtherD(p) /\ (Crossing(p)' <=> Crossing(p))
  <2>1. call' = call /\ pc[p] \in {"body", "detail"}
    BY CommandStep DEF Shape, Command, NestedCall
  <2>. QED
    BY <2>1 DEF Shape, CallShape, D, OtherD, Crossing
<1>2. CommitAsked(p)' /\ KeptPoint(p)' /\ kept'[p] \subseteq kept[p] /\ objs[D(p)] \subseteq objs'[D(p)]
  BY <1>1, KeptStep, DataStep, CrossTypes DEF CrossInv, CommitAsked, Step
<1>3. CASE Top(p) = "fetchRemote"
  <2>1. UNCHANGED stack
    BY <1>3, CommandStep DEF Shape, Command, NestedCall
  <2>2. Top(p)' = "fetchRemote"
    BY <1>3, <2>1 DEF Top
  <2>3. CASE FetchRef(p)
    <3>1. PICK b \in todo[p] :
            /\ objs' = [objs EXCEPT ![D(p)] = @ \cup ({refs[OtherD(p)][b]} \ {NoCommit})]
            /\ todo' = [todo EXCEPT ![p] = @ \ {b}]
      BY <2>3 DEF FetchRef
    <3>2. todo'[p] = todo[p] \ {b}
          /\ objs'[D(p)] = objs[D(p)] \cup ({refs[OtherD(p)][b]} \ {NoCommit})
      BY <1>1, <3>1, CrossTypes DEF Shape, TypeOK
    <3>3. ASSUME Crossing(p), NEW r \in kept'[p]
          PROVE  r \in todo'[p] \/ call[p].c \in objs'[D(p)]
      <4>1. r \in kept[p] /\ (r \in todo[p] \/ call[p].c \in objs[D(p)])
        BY <1>2, <3>3 DEF CrossInv, KeptComes
      <4>2. CASE r = b
        <5>1. refs[OtherD(p)][b] = call[p].c
          BY <3>3, <4>1, <4>2 DEF CrossInv, KeptPoint
        <5>2. call[p].c # NoCommit
          BY <3>3, NoCommitAssumption DEF CrossInv, CommitAsked
        <5>. QED
          BY <3>2, <5>1, <5>2
      <4>. QED
        BY <3>2, <4>1, <4>2
    <3>4. pc' = pc
      BY <2>3 DEF FetchRef
    <3>. QED
      BY <1>1, <1>2, <2>2, <3>3, <3>4 DEF CrossInv, KeptComes, FetchedAll, Finds
  <2>4. CASE FetchDone(p)
    <3>1. todo[p] = {} /\ UNCHANGED <<todo, dataVars>>
      BY <2>4 DEF FetchDone
    <3>. QED
      BY <1>1, <1>2, <1>3, <2>2, <3>1 DEF CrossInv, KeptComes, FetchedAll, Finds
  <2>5. CASE CommandFails(p)
    <3>1. res'[p] = "failed" /\ UNCHANGED todo
      BY <2>5 DEF CommandFails, Finish, Shape, TypeOK
    <3>. QED
      BY <1>1, <1>2, <1>3, <2>2, <3>1 DEF CrossInv, KeptComes, FetchedAll, Finds
  <2>. QED
    BY <1>3, <2>3, <2>4, <2>5 DEF Reading, Editing, ResolveRevision, Tags, Committers,
       ListFiles, Diff, BlameFile, MergeBase, Search, GetCommit, CommitsLog, CommitsCount,
       BranchesFilter, BranchesList, BranchesDetail, BranchesReturn, Lstat, ReadDir, Open,
       OpenBadObject, OpenSubmodule, Stat, StatRegular, StatSymlink, UpdateRef, UpdateReturn,
       At, AtDetail
<1>4. CASE Top(p) # "fetchRemote"
  <2>1. Top(p)' # "fetchRemote"
    <3>1. CASE Command(p)
      BY <1>4, <3>1 DEF Command, Top
    <3>2. CASE NestedCall(p)
      <4>1. PICK f \in {"Stat", "Lstat", "LstatDest"} : Nest(p, f)
        BY <3>2 DEF NestedCall
      <4>2. stack'[p] = <<f>> \o stack[p] /\ f \in Frame /\ stack[p] \in Seq(Frame)
        BY <4>1 DEF Nest, Shape, TypeOK, Frame, FsReaders
      <4>3. Top(p)' = f
        BY <4>2, Prepend DEF Top
      <4>. QED
        BY <4>3
    <3>. QED
      BY <3>1, <3>2, CommandStep DEF Shape
  <2>2. Crossing(p) /\ kept'[p] # {} => call[p].c \in objs[D(p)]
    BY <1>2, <1>4 DEF CrossInv, KeptComes
  <2>3. KeptComes(p)' /\ FetchedAll(p)'
    BY <1>1, <1>2, <2>1, <2>2 DEF KeptComes, FetchedAll
  <2>4. Finds(p)'
    <3>. SUFFICES ASSUME pc'[p] = "exit", call[p].c \in objs[D(p)] PROVE res'[p] # "notfound"
      BY <1>1, <2>2 DEF Finds
    <3>1. CASE Diff(p) \/ BlameFile(p) \/ MergeBase(p) \/ Search(p) \/ GetCommit(p)
              \/ CommitsCount(p) \/ CommitsLog(p)
      <4>1. FinishFinding(p) \/ pc'[p] = "detail"
        BY <3>1 DEF Diff, BlameFile, MergeBase, Search, GetCommit, CommitsCount, CommitsLog,
           OneObjectCommand, GoTo, Shape, TypeOK
      <4>2. FinishFinding(p)
        BY <4>1
      <4>. QED
        BY <4>2 DEF FinishFinding, Finish, Shape, TypeOK
    <3>2. CASE ResolveRevision(p) \/ Tags(p) \/ Committers(p) \/ ListFiles(p)
              \/ BranchesReturn(p) \/ Lstat(p) \/ ReadDir(p) \/ Open(p) \/ OpenSubmodule(p)
              \/ StatRegular(p) \/ CommandFails(p) \/ UpdateReturn(p) \/ FetchDone(p)
      <4>1. Finish(p, "ok") \/ Finish(p, "failed")
        BY <3>2 DEF ResolveRevision, Tags, Committers, ListFiles, BranchesReturn, Lstat,
           ReadDir, Open, OpenSubmodule, StatRegular, CommandFails, UpdateReturn, FetchDone,
           OneRefCommand, FsLeaf
      <4>. QED
        BY <4>1 DEF Finish, Shape, TypeOK
    <3>3. CASE BranchesDetail(p)
      <4>1. pc' = pc \/ Finish(p, "failed")
        BY <3>3 DEF BranchesDetail
      <4>. QED
        BY <1>1, <4>1 DEF Finish, Shape, TypeOK
    <3>4. CASE BranchesFilter(p) \/ BranchesList(p) \/ UpdateRef(p) \/ FetchRef(p)
              \/ OpenBadObject(p) \/ Stat(p) \/ StatSymlink(p)
      <4>1. pc'[p] = pc[p] \/ pc'[p] \in {"detail", "enter"}
        BY <3>4 DEF BranchesFilter, BranchesList, UpdateRef, FetchRef, OpenBadObject, Stat,
           StatSymlink, FsNest, Nest, GoTo, Shape, TypeOK
      <4>. QED
        BY <1>1, <4>1
    <3>. QED
      BY <3>1, <3>2, <3>3, <3>4 DEF Reading, Editing
  <2>. QED
    BY <1>2, <2>3, <2>4 DEF CrossInv
<1>. QED
  BY <1>3, <1>4

\* Taking the lock.
LEMMA LockingFinds ==
  ASSUME Shape, NEW p \in Proc, CrossInv(p), Locking(p)
  PROVE  CrossInv(p)'
<1>1. /\ call[p] # NoCall /\ UNCHANGED <<refs, objs, call, stack, todo>>
      /\ pc'[p] \in {"body", "wait"}
  BY DEF Locking, EnterUnlocked, EnterRead, EnterBlocked, WokenReader, EnterWrite,
     AcquireWrite, GoTo, dataVars, Shape, TypeOK, CallShape
<1>2. Top(p)' = Top(p) /\ D(p)' = D(p) /\ (Crossing(p)' <=> Crossing(p))
  BY <1>1 DEF Top, D, Crossing
<1>3. KeptPoint(p)' /\ kept'[p] \subseteq kept[p]
  BY <1>1, KeptStep DEF CrossInv, Step
<1>. QED
  BY <1>1, <1>2, <1>3 DEF CrossInv, CommitAsked, KeptComes, FetchedAll, Finds

\* The return of a nested function: its caller, too, is one of the file system.
LEMMA NestedFinds ==
  ASSUME Shape, NEW p \in Proc, CrossInv(p), ReturnToCaller(p)
  PROVE  CrossInv(p)'
<1>1. /\ Len(stack[p]) > 1 /\ stack'[p] = Tail(stack[p]) /\ stack[p] \in Seq(Frame)
      /\ UNCHANGED <<refs, objs, call, todo, res>> /\ pc[p] = "exit"
  BY DEF ReturnToCaller, dataVars, Shape, TypeOK
<1>2. Top(p) = stack[p][1] /\ Top(p)' = stack[p][2]
      /\ 1 \in 1 .. Len(stack[p]) /\ 2 \in 1 .. Len(stack[p])
  BY <1>1 DEF Top
<1>3. Top(p) # "fetchRemote" /\ Top(p)' # "fetchRemote"
  <2>1. Top(p) \in NestedFrame /\ Top(p)' \in NestedFrame
    BY <1>1, <1>2 DEF Shape, CallShape
  <2>. QED
    BY <2>1 DEF NestedFrame, FsReaders
<1>4. call[p] # NoCall /\ D(p)' = D(p) /\ (Crossing(p)' <=> Crossing(p))
  BY <1>1 DEF D, Crossing, Shape, CallShape
<1>5. KeptPoint(p)' /\ kept'[p] \subseteq kept[p]
  BY <1>1, <1>4, KeptStep DEF CrossInv, Step, Returning
<1>. QED
  BY <1>1, <1>3, <1>4, <1>5 DEF CrossInv, CommitAsked, KeptComes, FetchedAll, Finds

\* The fetch is over: what its branches pointed to is here, and Diff or
\* MergeBase comes next.
LEMMA FetchedFinds ==
  ASSUME Shape, NEW p \in Proc, CrossInv(p), FetchReturns(p)
  PROVE  CrossInv(p)'
<1>1. /\ Top(p) = "fetchRemote" /\ pc[p] = "exit" /\ res[p] = "ok"
      /\ UNCHANGED <<refs, objs, call, todo>> /\ pc'[p] = "enter"
      /\ stack'[p] = <<CrossReader(call[p].op)>>
  BY DEF FetchReturns, GoTo, dataVars, Shape, TypeOK
<1>2. Top(p)' # "fetchRemote"
  BY <1>1 DEF Top, CrossReader
<1>3. call[p] # NoCall /\ D(p)' = D(p) /\ (Crossing(p)' <=> Crossing(p))
  BY <1>1 DEF D, Crossing, Shape, CallShape
<1>4. KeptPoint(p)' /\ kept'[p] \subseteq kept[p]
  BY <1>1, <1>3, KeptStep DEF CrossInv, Step, Returning
<1>5. KeptComes(p)'
  BY <1>1, <1>2, <1>3, <1>4 DEF CrossInv, KeptComes, FetchedAll
<1>. QED
  BY <1>1, <1>2, <1>3, <1>4, <1>5 DEF CrossInv, CommitAsked, FetchedAll, Finds

LEMMA ClientFinds ==
  ASSUME Shape, NEW p \in Proc, ReturnToClient(p)
  PROVE  CrossInv(p)'
<1>1. call'[p] = NoCall /\ pc'[p] = "idle"
  BY DEF ReturnToClient, GoTo, Shape, TypeOK
<1>. QED
  BY <1>1 DEF CrossInv, CommitAsked, KeptPoint, KeptComes, FetchedAll, Finds, Crossing

-----------------------------------------------------------------------------
(* The steps of the others, and the theorem.                               *)

LEMMA OthersResult ==
  ASSUME Shape, NEW p \in Proc, NEW q \in Proc, p # q, Invoke(p) \/ Step(p)
  PROVE  res'[q] = res[q]
<1>1. CASE Invoke(p) \/ Locking(p) \/ Returning(p)
  BY <1>1 DEF Invoke, Locking, EnterUnlocked, EnterRead, EnterBlocked, WokenReader,
     EnterWrite, AcquireWrite, Returning, ReturnToCaller, FetchReturns, ReturnToClient,
     Shape, TypeOK
<1>2. CASE Reading(p)
  BY <1>2 DEF Reading, ResolveRevision, Tags, Committers, ListFiles, Diff, BlameFile,
     MergeBase, Search, GetCommit, CommitsLog, CommitsCount, BranchesFilter, BranchesList,
     BranchesDetail, BranchesReturn, Lstat, ReadDir, Open, OpenBadObject, OpenSubmodule,
     Stat, StatRegular, StatSymlink, CommandFails, OneRefCommand, OneObjectCommand, FsLeaf,
     FsNest, Finish, FinishFinding, Shape, TypeOK
<1>3. CASE Editing(p)
  BY <1>3 DEF Editing, UpdateRef, UpdateReturn, FetchRef, FetchDone, Finish, Shape, TypeOK
<1>. QED
  BY <1>1, <1>2, <1>3 DEF Step

LEMMA OthersFind ==
  ASSUME Shape, NEW p \in Proc, NEW q \in Proc, p # q, Invoke(p) \/ Step(p), CrossInv(q)
  PROVE  CrossInv(q)'
<1>1. /\ call'[q] = call[q] /\ stack'[q] = stack[q] /\ pc'[q] = pc[q]
      /\ todo'[q] = todo[q] /\ res'[q] = res[q]
  BY OthersStay, OthersReads, OthersResult
<1>2. /\ Top(q)' = Top(q) /\ D(q)' = D(q) /\ OtherD(q)' = OtherD(q)
      /\ (Crossing(q)' <=> Crossing(q))
  BY <1>1 DEF Top, D, OtherD, Crossing
<1>3. CASE call[q] = NoCall
  BY <1>1, <1>2, <1>3 DEF CrossInv, CommitAsked, KeptPoint, KeptComes, FetchedAll, Finds, Crossing
<1>4. CASE call[q] # NoCall
  <2>1. KeptPoint(q)' /\ kept'[q] \subseteq kept[q]
    <3>1. CASE Step(p)
      BY <1>1, <1>4, <3>1, KeptStep DEF CrossInv
    <3>2. CASE Invoke(p)
      <4>1. UNCHANGED refs /\ kept'[q] = kept[q]
        BY <3>2 DEF Invoke, dataVars, Shape, TypeOK
      <4>. QED
        BY <1>1, <1>2, <4>1 DEF CrossInv, KeptPoint
    <3>. QED
      BY <3>1, <3>2
  <2>2. objs[D(q)] \subseteq objs'[D(q)]
    BY <1>4, CrossTypes, DataStep
  <2>. QED
    BY <1>1, <1>2, <2>1, <2>2 DEF CrossInv, CommitAsked, KeptComes, FetchedAll, Finds
<1>. QED
  BY <1>3, <1>4

LEMMA CrossInit == Init => CInv
<1>. SUFFICES ASSUME Init PROVE CInv
  OBVIOUS
<1>1. Shape /\ RefsReadable
  BY ShapeInit DEF Init, RefsReadable
<1>. QED
  BY <1>1 DEF Init, CInv, CrossInv, CommitAsked, KeptPoint, KeptComes, FetchedAll, Finds,
     Crossing

LEMMA CrossStep ==
  ASSUME CInv, [Next]_vars
  PROVE  CInv'
<1>1. Shape'
  BY ShapeStep DEF CInv
<1>2. CASE UNCHANGED vars
  BY <1>1, <1>2 DEF vars, dataVars, callVars, CInv, CrossInv, CommitAsked, KeptPoint,
     KeptComes, FetchedAll, Finds, Crossing, RefsReadable, Top, D, OtherD
<1>3. ASSUME NEW p \in Proc, Invoke(p) \/ Step(p) PROVE CInv'
  <2>1. RefsReadable'
    BY <1>3, RefsReadableStep DEF CInv
  <2>2. CrossInv(p)'
    <3>1. CASE Invoke(p)
      BY <3>1, InvokeFinds DEF CInv
    <3>2. CASE Step(p)
      BY <3>2, LockingFinds, CommandFinds, NestedFinds, FetchedFinds, ClientFinds
         DEF CInv, Step, Returning
    <3>. QED
      BY <1>3, <3>1, <3>2
  <2>3. ASSUME NEW q \in Proc, q # p PROVE CrossInv(q)'
    BY <1>3, <2>3, OthersFind DEF CInv
  <2>. QED
    BY <1>1, <2>1, <2>2, <2>3 DEF CInv
<1>. QED
  BY <1>2, <1>3 DEF Next

\* CrossRepoDiff and CrossRepoMergeBase do not miss a commit that a branch of
\* the other repository pointed to all along: fetchRemote has copied it by the
\* time Diff or MergeBase asks for it, whatever updates and fetches go on in
\* either directory, through any handles.
THEOREM CrossFindsHead == Spec => []CrossRepoFindsHead
<1>1. Init => CInv
  BY CrossInit
<1>2. CInv /\ [Next]_vars => CInv'
  BY CrossStep
<1>3. CInv => CrossRepoFindsHead
  BY DEF CInv, CrossInv, Finds, Crossing, CrossRepoFindsHead, Shape, CallShape
<1>. QED
  BY <1>1, <1>2, <1>3, PTL DEF Spec
=============================================================================
