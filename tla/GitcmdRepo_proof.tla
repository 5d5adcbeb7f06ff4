-------------------------- MODULE GitcmdRepo_proof --------------------------
(***************************************************************************)
(* Proofs about GitcmdRepo, for every set of goroutines, handles,          *)
(* directories, branches and commits, and every choice of methods.         *)
(*                                                                         *)
(* The argument, bottom up:                                                *)
(*   Shape     what a call's stack looks like, with the types;             *)
(*   LockInv   how many read locks each goroutine holds, read off its      *)
(*             stack and pc, and which goroutine is the writer;            *)
(*   SeenInv   nothing that a call has read changes while it can still     *)
(*             read, if no two handles share a directory.                  *)
(***************************************************************************)
EXTENDS GitcmdRepo, TLAPS

NestedFrame == FsReaders \cup {"LstatDest"}

\* A goroutine in a call has a stack, and only the functions of the file
\* system ever stand on top of one another.
CallShape(p) ==
  /\ pc[p] = "idle" <=> call[p] = NoCall
  /\ call[p] = NoCall <=> Len(stack[p]) = 0
  /\ \A i \in 1 .. Len(stack[p]) : Len(stack[p]) > 1 => stack[p][i] \in NestedFrame

Shape == TypeOK /\ \A p \in Proc : CallShape(p)

\* The read locks of its handle that a goroutine holds: one for each function
\* on its stack, less the innermost while that is still asking for it.
LocksHeld(p) ==
  IF call[p] = NoCall \/ LockMode(Top(p)) # "read" THEN 0
  ELSE IF Inside(p) \/ (pc[p] = "wait" /\ p \notin blocked[H(p)]) THEN Len(stack[p])
  ELSE Len(stack[p]) - 1

\* The lock's own record of its readers agrees with the calls.
ReaderCount(p, h) ==
  readers[h][p] = IF call[p] # NoCall /\ H(p) = h THEN LocksHeld(p) ELSE 0

\* Only goroutines waiting in RLock are blocked, and only behind a writer.
BlockedReader(p, h) ==
  p \in blocked[h] =>
    /\ call[p] # NoCall /\ H(p) = h /\ pc[p] = "wait" /\ LockMode(Top(p)) = "read"
    /\ writer[h] # NoProc

\* The writer is the goroutine past the first half of Lock, and it has the lock
\* once it is past the second half; ...
Writing(p) == call[p] # NoCall /\ LockMode(Top(p)) = "write" /\ pc[p] # "enter"

WriterIs(p, h) == writer[h] = p <=> Writing(p) /\ H(p) = h

\* ... while it has, there are no readers.
ActiveWriter(p, h) ==
  /\ writer[h] = p => (active[h] <=> Inside(p))
  /\ active[h] => writer[h] # NoProc /\ readers[h][p] = 0

LockInv ==
  \A p \in Proc, h \in Handle :
    ReaderCount(p, h) /\ BlockedReader(p, h) /\ WriterIs(p, h) /\ ActiveWriter(p, h)

\* Only a call that holds the read lock has read anything, and what it has read
\* has not changed.
Seen(p) ==
  seen[p] # {} => Inside(p) /\ Top(p) \in RefReaders /\ seen[p] = {refs[D(p)]}

\* A branch points to a commit that is there, and so does each branch that
\* Branches has listed and not come to.
RefsReadable == \A d \in Dir, r \in Ref : refs[d][r] \in objs[d] \cup {NoCommit}

Listed(p) == AtDetail(p, "Branches") => \A r \in todo[p] : refs[D(p)][r] \in objs[D(p)]

SeenInv == RefsReadable /\ \A p \in Proc : Seen(p) /\ Listed(p)

IInv == Shape /\ LockInv /\ (OneHandlePerDir => SeenInv)

-----------------------------------------------------------------------------
(* Steps by their effect on the locks and the stack: all the git commands  *)
(* look alike from there.                                                  *)

\* A command, or the return of a result: the call stays where it is.
Command(p) ==
  /\ pc[p] \in {"body", "detail"}
  /\ \E l \in {"body", "detail", "exit"} : GoTo(p, l)
  /\ UNCHANGED <<lockVars, call, stack>>

\* A nested call of Stat or Lstat.
NestedCall(p) ==
  /\ pc[p] \in {"body", "detail"}
  /\ Top(p) \in {"Open", "Stat"}
  /\ \E f \in {"Stat", "Lstat", "LstatDest"} : Nest(p, f)
  /\ UNCHANGED <<lockVars, call>>

LEMMA CallNotNoCall == \A k \in Call : k # NoCall
  BY DEF Call, NoCall, Method, RefReaders, ObjectReaders, FsReaders, CrossOps

LEMMA CallTypes ==
  ASSUME TypeOK, NEW p \in Proc, call[p] # NoCall
  PROVE  call[p] \in Call /\ H(p) \in Handle /\ D(p) \in Dir
  BY DirOfAssumption DEF TypeOK, Call, H, D

LEMMA LockModes ==
  /\ \A f \in NestedFrame : LockMode(f) = "read"
  /\ \A f \in Frame : LockMode(f) \in {"read", "write", "none"}
  /\ \A f \in Frame : LockMode(f) = "none" => f = "Search"
  /\ \A f \in Editors : LockMode(f) = "write"
  /\ \A o : LockMode(CrossReader(o)) = "read"
  BY DEF NestedFrame, LockMode, Frame, Editors, FsReaders, CrossReader

LEMMA CommandStep ==
  ASSUME TypeOK, NEW p \in Proc, Reading(p) \/ Editing(p)
  PROVE  Command(p) \/ NestedCall(p)
  <1>1. ASSUME Editing(p) PROVE Command(p)
    <2> pc' = pc => GoTo(p, pc[p])
      BY DEF GoTo, TypeOK
    <2> QED
      BY <1>1 DEF Editing, UpdateRef, UpdateReturn, FetchRef, FetchDone, At, Finish,
         GoTo, Command, dataVars
  <1>2. ASSUME OpenBadObject(p) \/ Stat(p) \/ StatSymlink(p) PROVE NestedCall(p)
    BY <1>2 DEF OpenBadObject, Stat, StatSymlink, At, AtDetail, FsNest, NestedCall
  <1>3. ASSUME BranchesFilter(p) \/ BranchesList(p) \/ BranchesDetail(p) \/ BranchesReturn(p)
               \/ CommitsLog(p) \/ CommitsCount(p)
        PROVE Command(p)
    <2> pc' = pc => GoTo(p, pc[p])
      BY DEF GoTo, TypeOK
    <2> QED
      BY <1>3 DEF BranchesFilter, BranchesList, BranchesDetail, BranchesReturn, CommitsLog,
         CommitsCount, At, AtDetail, FinishFinding, Finish, OneObjectCommand, GoTo, Command
  <1>4. ASSUME ResolveRevision(p) \/ Tags(p) \/ Committers(p) \/ ListFiles(p) \/ Diff(p)
               \/ BlameFile(p) \/ MergeBase(p) \/ Search(p) \/ GetCommit(p)
               \/ Lstat(p) \/ ReadDir(p) \/ Open(p) \/ OpenSubmodule(p) \/ StatRegular(p)
               \/ CommandFails(p)
        PROVE Command(p)
    BY <1>4 DEF ResolveRevision, Tags, Committers, ListFiles, Diff, BlameFile, MergeBase,
       Search, GetCommit, Lstat, ReadDir, Open, OpenSubmodule, StatRegular, CommandFails,
       At, AtDetail, OneRefCommand, OneObjectCommand, FinishFinding, FsLeaf, Finish, Command
  <1> QED BY <1>1, <1>2, <1>3, <1>4 DEF Reading

-----------------------------------------------------------------------------
(* Types and shape.                                                        *)

LEMMA Prepend ==
  ASSUME NEW S, NEW s \in Seq(S), NEW f \in S
  PROVE  /\ <<f>> \o s \in Seq(S)
         /\ Len(<<f>> \o s) = Len(s) + 1
         /\ Head(<<f>> \o s) = f
         /\ (<<f>> \o s)[1] = f
         /\ \A i \in 1 .. Len(s) : (<<f>> \o s)[i + 1] = s[i]
  OBVIOUS

LEMMA FirstFrames ==
  ASSUME NEW k \in Call
  PROVE  FirstFrame(k) \in Frame
  BY DEF FirstFrame, CrossReader, Frame, Call, Method, RefReaders, ObjectReaders, FsReaders,
     CrossOps, Editors

LEMMA TypeStep ==
  ASSUME Shape, [Next]_vars
  PROVE  TypeOK'
  <1>1. CASE UNCHANGED vars
    BY <1>1 DEF Shape, TypeOK, LockTypeOK, vars, lockVars, dataVars, callVars
  <1>2. ASSUME NEW p \in Proc, Invoke(p) PROVE TypeOK'
    <2>1. PICK k \in Call :
            /\ call' = [call EXCEPT ![p] = k]
            /\ stack' = [stack EXCEPT ![p] = <<FirstFrame(k)>>]
            /\ todo' = [todo EXCEPT ![p] = IF FirstFrame(k) \in Editors THEN Ref ELSE {}]
            /\ kept' = [kept EXCEPT ![p] =
                          IF k.op \in CrossOps
                          THEN {r \in Ref : refs[DirOf[k.other]][r] = k.c} ELSE {}]
      BY <1>2 DEF Invoke, Calls
    <2>2. <<FirstFrame(k)>> \in Seq(Frame)
      BY FirstFrames
    <2> QED
      BY <1>2, <2>1, <2>2 DEF Invoke, Shape, TypeOK, LockTypeOK, PC, lockVars, dataVars
  <1>3. ASSUME NEW p \in Proc, Locking(p) PROVE TypeOK'
    <2>1. call[p] # NoCall
      BY <1>3 DEF Locking, EnterUnlocked, EnterRead, EnterBlocked, WokenReader, EnterWrite,
         AcquireWrite, Shape, CallShape
    <2>2. H(p) \in Handle /\ D(p) \in Dir
      BY <2>1, CallTypes DEF Shape
    <2>3. LockTypeOK'
      <3>1. CASE RLock(p, H(p))
        <4>1. readers[H(p)] \in [Proc -> Nat] /\ readers[H(p)][p] + 1 \in Nat
          BY <2>2 DEF Shape, TypeOK, LockTypeOK
        <4>2. readers' \in [Handle -> [Proc -> Nat]]
          BY <2>2, <3>1, <4>1 DEF RLock, Shape, TypeOK, LockTypeOK
        <4>3. UNCHANGED <<blocked, writer, active>>
          BY <3>1 DEF RLock
        <4> QED BY <4>2, <4>3 DEF Shape, TypeOK, LockTypeOK
      <3>2. CASE RLockBlocks(p, H(p))
        <4>1. blocked' \in [Handle -> SUBSET Proc]
          BY <2>2, <3>2 DEF RLockBlocks, Shape, TypeOK, LockTypeOK
        <4> QED BY <3>2, <4>1 DEF RLockBlocks, Shape, TypeOK, LockTypeOK
      <3>4. CASE LockAnnounce(p, H(p))
        BY <2>2, <3>4 DEF LockAnnounce, Shape, TypeOK, LockTypeOK
      <3>5. CASE LockAcquire(p, H(p))
        <4>1. active' \in [Handle -> BOOLEAN]
          BY <2>2, <3>5 DEF LockAcquire, Shape, TypeOK, LockTypeOK
        <4> QED BY <3>5, <4>1 DEF LockAcquire, Shape, TypeOK, LockTypeOK
      <3>3. CASE UNCHANGED lockVars
        BY <3>3 DEF Shape, TypeOK, LockTypeOK, lockVars
      <3> QED
        BY <1>3, <3>1, <3>2, <3>3, <3>4, <3>5 DEF Locking, EnterUnlocked, EnterRead,
           EnterBlocked, WokenReader, EnterWrite, AcquireWrite
    <2>4. before' \in [Handle -> RefMap] /\ pc' \in [Proc -> PC]
      BY <1>3, <2>2 DEF Locking, EnterUnlocked, EnterRead, EnterBlocked, WokenReader,
         EnterWrite, AcquireWrite, Shape, TypeOK, GoTo, PC
    <2> QED
      BY <1>3, <2>3, <2>4 DEF Locking, EnterUnlocked, EnterRead, EnterBlocked, WokenReader,
         EnterWrite, AcquireWrite, Shape, TypeOK, dataVars
  <1>4. ASSUME NEW p \in Proc, Reading(p) PROVE TypeOK'
    <2>1. call[p] # NoCall /\ D(p) \in Dir
      BY <1>4, CommandStep, CallTypes DEF Shape, CallShape, Command, NestedCall
    <2>2. refs[D(p)] \in RefMap
      BY <2>1 DEF Shape, TypeOK
    <2>3. UNCHANGED <<lockVars, dataVars, before, call, kept>>
      BY <1>4 DEF Reading, ResolveRevision, Tags, Committers, ListFiles, Diff, BlameFile,
         MergeBase, Search, GetCommit, CommitsLog, CommitsCount, BranchesFilter, BranchesList,
         BranchesDetail, BranchesReturn, Lstat, ReadDir, Open, OpenBadObject, OpenSubmodule,
         Stat, StatRegular, StatSymlink, CommandFails, OneRefCommand, OneObjectCommand, FsLeaf,
         FsNest
    <2>4. seen' \in [Proc -> SUBSET RefMap]
      BY <1>4, <2>2 DEF Shape, TypeOK, Reading, ResolveRevision, Tags, Committers, ListFiles,
         Diff, BlameFile, MergeBase, Search, GetCommit, CommitsLog, CommitsCount,
         BranchesFilter, BranchesList, BranchesDetail, BranchesReturn, Lstat, ReadDir, Open,
         OpenBadObject, OpenSubmodule, Stat, StatRegular, StatSymlink, CommandFails,
         OneRefCommand, OneObjectCommand, FsLeaf, FsNest, SeeRefs
    <2>5. todo' \in [Proc -> SUBSET Ref]
      BY <1>4 DEF Shape, TypeOK, Reading, ResolveRevision, Tags, Committers, ListFiles,
         Diff, BlameFile, MergeBase, Search, GetCommit, CommitsLog, CommitsCount,
         BranchesFilter, BranchesList, BranchesDetail, BranchesReturn, Lstat, ReadDir, Open,
         OpenBadObject, OpenSubmodule, Stat, StatRegular, StatSymlink, CommandFails,
         OneRefCommand, OneObjectCommand, FsLeaf, FsNest
    <2>6. res' \in [Proc -> {"none", "ok", "notfound", "failed"}]
      BY <1>4 DEF Shape, TypeOK, Reading, ResolveRevision, Tags, Committers, ListFiles,
         Diff, BlameFile, MergeBase, Search, GetCommit, CommitsLog, CommitsCount,
         BranchesFilter, BranchesList, BranchesDetail, BranchesReturn, Lstat, ReadDir, Open,
         OpenBadObject, OpenSubmodule, Stat, StatRegular, StatSymlink, CommandFails,
         OneRefCommand, OneObjectCommand, FsLeaf, FsNest, Finish, FinishFinding
    <2>7. pc' \in [Proc -> PC] /\ stack' \in [Proc -> Seq(Frame)]
      <3>1. CASE Command(p)
        BY <3>1 DEF Shape, TypeOK, Command, GoTo, PC
      <3>2. CASE NestedCall(p)
        <4>1. PICK f \in {"Stat", "Lstat", "LstatDest"} : Nest(p, f)
          BY <3>2 DEF NestedCall
        <4>2. <<f>> \o stack[p] \in Seq(Frame)
          BY Prepend DEF Shape, TypeOK, Frame, FsReaders
        <4> QED BY <4>1, <4>2 DEF Nest, GoTo, Shape, TypeOK, PC
      <3> QED BY <1>4, <3>1, <3>2, CommandStep DEF Shape
    <2> QED BY <2>3, <2>4, <2>5, <2>6, <2>7 DEF Shape, TypeOK, LockTypeOK, lockVars, dataVars
  <1>5. ASSUME NEW p \in Proc, Editing(p) PROVE TypeOK'
    <2>1. call[p] # NoCall /\ D(p) \in Dir /\ OtherD(p) \in Dir
      BY <1>5, CommandStep, CallTypes, DirOfAssumption
         DEF Shape, CallShape, Command, NestedCall, OtherD, Call
    <2>2. CASE UpdateRef(p)
      BY <2>1, <2>2 DEF UpdateRef, Shape, TypeOK, LockTypeOK, RefMap, lockVars
    <2>3. CASE FetchRef(p)
      BY <2>1, <2>3 DEF FetchRef, Shape, TypeOK, LockTypeOK, RefMap, lockVars
    <2>4. CASE UpdateReturn(p) \/ FetchDone(p)
      BY <2>4 DEF UpdateReturn, FetchDone, Finish, GoTo, Shape, TypeOK, LockTypeOK, PC,
         lockVars, dataVars
    <2> QED BY <1>5, <2>2, <2>3, <2>4 DEF Editing
  <1>6. ASSUME NEW p \in Proc, Returning(p) PROVE TypeOK'
    <2>1. LockTypeOK' /\ before' \in [Handle -> RefMap]
      <3>1. Release(p)
        BY <1>6 DEF Returning, ReturnToCaller, FetchReturns, ReturnToClient
      <3>2. NoRefs \in RefMap
        BY DEF NoRefs, RefMap
      <3>5. H(p) \in Handle
        <4>1. pc[p] = "exit"
          BY <1>6 DEF Returning, ReturnToCaller, FetchReturns, ReturnToClient
        <4> QED BY <4>1, CallTypes DEF Shape, CallShape
      <3>3. CASE RUnlock(p, H(p)) /\ UNCHANGED before
        <4>1. readers[H(p)][p] - 1 \in Nat
          BY <3>3, <3>5 DEF RUnlock, Shape, TypeOK, LockTypeOK
        <4>2. readers' \in [Handle -> [Proc -> Nat]]
          BY <3>3, <3>5, <4>1 DEF RUnlock, Shape, TypeOK, LockTypeOK
        <4> QED BY <3>3, <4>2 DEF RUnlock, Shape, TypeOK, LockTypeOK
      <3>4. CASE Unlock(p, H(p)) /\ before' = [before EXCEPT ![H(p)] = NoRefs]
        <4>1. [q \in Proc |-> IF q \in blocked[H(p)] THEN readers[H(p)][q] + 1
                              ELSE readers[H(p)][q]] \in [Proc -> Nat]
          BY <3>5 DEF Shape, TypeOK, LockTypeOK
        <4>2. readers' \in [Handle -> [Proc -> Nat]]
          BY <3>4, <3>5, <4>1 DEF Unlock, Shape, TypeOK, LockTypeOK
        <4>3. before' \in [Handle -> RefMap]
          BY <3>2, <3>4 DEF Shape, TypeOK
        <4> QED BY <3>4, <4>2, <4>3 DEF Unlock, Shape, TypeOK, LockTypeOK
      <3> QED
        BY <3>1, <3>3, <3>4 DEF Release, Shape, TypeOK, LockTypeOK, lockVars
    <2>2. stack' \in [Proc -> Seq(Frame)]
      <3>1. \A o : CrossReader(o) \in Frame
        BY DEF CrossReader, Frame, ObjectReaders
      <3>2. Len(stack[p]) > 1 => Tail(stack[p]) \in Seq(Frame)
        BY DEF Shape, TypeOK
      <3>3. \A f \in Frame : <<f>> \in Seq(Frame)
        OBVIOUS
      <3>4. << >> \in Seq(Frame)
        OBVIOUS
      <3>5. PICK s \in Seq(Frame) : stack' = [stack EXCEPT ![p] = s]
        BY <1>6, <3>1, <3>2, <3>3, <3>4
           DEF Returning, ReturnToCaller, FetchReturns, ReturnToClient
      <3> QED BY <3>5 DEF Shape, TypeOK
    <2>3. pc' \in [Proc -> PC]
      BY <1>6 DEF Returning, ReturnToCaller, FetchReturns, ReturnToClient, GoTo, PC, Shape,
         TypeOK
    <2> QED
      BY <1>6, <2>1, <2>2, <2>3 DEF Returning, ReturnToCaller, FetchReturns, ReturnToClient,
         Shape, TypeOK, dataVars
  <1> QED BY <1>1, <1>2, <1>3, <1>4, <1>5, <1>6 DEF Next, Step

LEMMA ShapeInit == Init => Shape
  <1> SUFFICES ASSUME Init PROVE Shape
    OBVIOUS
  <1>1. LockTypeOK
    BY DEF Init, LockInit, LockTypeOK
  <1>2. NoRefs \in RefMap /\ << >> \in Seq(Frame)
    BY DEF NoRefs, RefMap
  <1>3. objs \in [Dir -> SUBSET Commit]
    BY DEF Init, RefMap
  <1>4. TypeOK
    BY <1>1, <1>2, <1>3 DEF Init, TypeOK, PC
  <1> QED BY <1>4 DEF Init, Shape, CallShape

LEMMA OthersStay ==
  ASSUME Shape, NEW p \in Proc, NEW q \in Proc, p # q, Invoke(p) \/ Step(p)
  PROVE  call'[q] = call[q] /\ stack'[q] = stack[q] /\ pc'[q] = pc[q]
  <1>1. CASE Invoke(p)
    BY <1>1 DEF Invoke, Shape, TypeOK
  <1>2. CASE Locking(p)
    BY <1>2 DEF Locking, EnterUnlocked, EnterRead, EnterBlocked, WokenReader,
       EnterWrite, AcquireWrite, GoTo, Shape, TypeOK
  <1>3. CASE Reading(p) \/ Editing(p)
    BY <1>3, CommandStep DEF Command, NestedCall, Nest, GoTo, Shape, TypeOK
  <1>4. CASE Returning(p)
    BY <1>4 DEF Returning, ReturnToCaller, FetchReturns, ReturnToClient, GoTo,
       Shape, TypeOK
  <1> QED BY <1>1, <1>2, <1>3, <1>4 DEF Step

LEMMA ShapeStep ==
  ASSUME Shape, [Next]_vars
  PROVE  Shape'
  <1> SUFFICES ASSUME NEW q \in Proc PROVE CallShape(q)'
    BY TypeStep DEF Shape
  <1>1. CASE UNCHANGED <<call, stack, pc>>
    BY <1>1 DEF Shape, CallShape
  <1>2. CASE UNCHANGED vars
    BY <1>1, <1>2 DEF vars, callVars
  <1>3. ASSUME NEW p \in Proc, p # q, Invoke(p) \/ Step(p) PROVE CallShape(q)'
    <2>1. call'[q] = call[q] /\ stack'[q] = stack[q] /\ pc'[q] = pc[q]
      BY <1>3, OthersStay
    <2> QED BY <2>1 DEF Shape, CallShape
  <1>4. CASE Invoke(q)
    <2>1. PICK k \in Call : /\ call' = [call EXCEPT ![q] = k]
                            /\ stack' = [stack EXCEPT ![q] = <<FirstFrame(k)>>]
      BY <1>4 DEF Invoke, Calls
    <2>2. call'[q] # NoCall /\ Len(stack'[q]) = 1
      BY <2>1, CallNotNoCall DEF Shape, TypeOK
    <2>3. pc'[q] = "enter"
      BY <1>4 DEF Invoke, Shape, TypeOK
    <2> QED BY <2>2, <2>3 DEF CallShape
  <1>5. CASE Locking(q)
    <2>1. pc[q] # "idle" /\ pc'[q] # "idle" /\ UNCHANGED <<call, stack>>
      BY <1>5 DEF Locking, EnterUnlocked, EnterRead, EnterBlocked, WokenReader, EnterWrite,
         AcquireWrite, GoTo, Shape, TypeOK
    <2> QED BY <2>1 DEF Shape, CallShape
  <1>6. CASE Reading(q) \/ Editing(q)
    <2>1. CASE Command(q)
      BY <2>1 DEF Command, GoTo, Shape, TypeOK, CallShape
    <2>2. CASE NestedCall(q)
      <3>1. PICK f \in {"Stat", "Lstat", "LstatDest"} : Nest(q, f)
        BY <2>2 DEF NestedCall
      <3>2. f \in NestedFrame /\ f \in Frame /\ stack[q] \in Seq(Frame)
        BY DEF NestedFrame, FsReaders, Shape, TypeOK, Frame
      <3>3. stack'[q] = <<f>> \o stack[q] /\ pc'[q] = "enter"
        BY <3>1 DEF Nest, GoTo, Shape, TypeOK
      <3>4. call'[q] # NoCall
        BY <2>2 DEF NestedCall, Shape, CallShape
      <3>7. Len(stack[q]) > 0
        BY <2>2, <3>2 DEF NestedCall, Shape, CallShape
      <3>5. \A i \in 1 .. Len(stack[q]) : stack[q][i] \in NestedFrame
        <4>1. CASE Len(stack[q]) > 1
          BY <4>1 DEF Shape, CallShape
        <4>2. CASE Len(stack[q]) = 1
          <5>1. stack[q][1] = Top(q)
            BY <4>2, <3>2 DEF Top
          <5> QED BY <5>1, <4>2, <2>2 DEF NestedCall, NestedFrame, FsReaders
        <4>3. \A n \in Nat : n > 0 => n = 1 \/ n > 1
          OBVIOUS
        <4>5. Len(stack[q]) \in Nat
          BY <3>2
        <4>4. Len(stack[q]) = 1 \/ Len(stack[q]) > 1
          BY <3>7, <4>3, <4>5
        <4> QED BY <4>1, <4>2, <4>4
      <3>6. \A i \in 1 .. Len(stack'[q]) : stack'[q][i] \in NestedFrame
        <4> SUFFICES ASSUME NEW i \in 1 .. Len(stack[q]) + 1
                     PROVE  (<<f>> \o stack[q])[i] \in NestedFrame
          BY <3>2, <3>3, Prepend
        <4>1. CASE i = 1
          BY <4>1, <3>2, Prepend
        <4>2. CASE i # 1
          <5>1. i - 1 \in 1 .. Len(stack[q]) /\ i = (i - 1) + 1
            BY <4>2, <3>2
          <5> QED BY <5>1, <3>2, <3>5, Prepend
        <4> QED BY <4>1, <4>2
      <3> QED BY <3>2, <3>3, <3>4, <3>6, Prepend DEF CallShape
    <2> QED BY <1>6, <2>1, <2>2, CommandStep DEF Shape
  <1>7. CASE Returning(q)
    <2>1. CASE ReturnToCaller(q)
      <3>1. stack[q] \in Seq(Frame) /\ Len(stack[q]) > 1 /\ stack'[q] = Tail(stack[q])
        BY <2>1 DEF ReturnToCaller, Shape, TypeOK
      <3>2. Len(stack'[q]) = Len(stack[q]) - 1
            /\ \A i \in 1 .. Len(stack'[q]) : stack'[q][i] = stack[q][i + 1]
        BY <3>1
      <3>3. pc[q] # "idle" /\ pc'[q] # "idle" /\ call' = call
        BY <2>1 DEF ReturnToCaller, GoTo, Shape, TypeOK
      <3> QED BY <3>1, <3>2, <3>3 DEF Shape, CallShape
    <2>2. CASE FetchReturns(q)
      BY <2>2 DEF FetchReturns, GoTo, Shape, TypeOK, CallShape
    <2>3. CASE ReturnToClient(q)
      BY <2>3 DEF ReturnToClient, GoTo, Shape, TypeOK, CallShape
    <2> QED BY <1>7, <2>1, <2>2, <2>3 DEF Returning
  <1> QED BY <1>2, <1>3, <1>4, <1>5, <1>6, <1>7 DEF Next, Step

\* The types of the state, through every interleaving of the calls.
THEOREM TypeCorrect == Spec => []TypeOK
  <1>1. Init => Shape
    BY ShapeInit
  <1>2. Shape /\ [Next]_vars => Shape'
    BY ShapeStep
  <1>3. Shape => TypeOK
    BY DEF Shape
  <1> QED BY <1>1, <1>2, <1>3, PTL DEF Spec
-----------------------------------------------------------------------------
(* The lock and the calls agree.                                           *)

LEMMA LockInvInit == Init => LockInv
  BY NoProcAssumption DEF Init, LockInit, LockInv, ReaderCount, BlockedReader, WriterIs,
     ActiveWriter, Writing

\* What is read off a goroutine's call, stack and pc stays as they do.
LEMMA SameGoroutine ==
  ASSUME NEW q, call'[q] = call[q], stack'[q] = stack[q], pc'[q] = pc[q]
  PROVE  /\ H(q)' = H(q) /\ Top(q)' = Top(q) /\ Inside(q)' = Inside(q)
         /\ Writing(q)' = Writing(q)
         /\ (q \in blocked[H(q)])' = (q \in blocked[H(q)]) => LocksHeld(q)' = LocksHeld(q)
  BY DEF H, Top, Inside, Writing, LocksHeld

\* A step of p that leaves the lock alone, and p's place in it.
LEMMA LockUntouched ==
  ASSUME Shape, LockInv, NEW p \in Proc, UNCHANGED lockVars,
         \A q \in Proc \ {p} : call'[q] = call[q] /\ stack'[q] = stack[q] /\ pc'[q] = pc[q],
         \A h \in Handle : ReaderCount(p, h) => ReaderCount(p, h)',
         \A h \in Handle : p \notin blocked[h],
         Writing(p)' <=> Writing(p),
         Writing(p) => H(p)' = H(p) /\ (Inside(p)' <=> Inside(p))
  PROVE  LockInv'
  <1> SUFFICES ASSUME NEW q \in Proc, NEW h \in Handle
               PROVE  (ReaderCount(q, h) /\ BlockedReader(q, h) /\ WriterIs(q, h)
                       /\ ActiveWriter(q, h))'
    BY DEF LockInv
  <1>1. ReaderCount(q, h) /\ BlockedReader(q, h) /\ WriterIs(q, h) /\ ActiveWriter(q, h)
    BY DEF LockInv
  <1>2. readers' = readers /\ blocked' = blocked /\ writer' = writer /\ active' = active
    BY DEF lockVars
  <1>3. CASE q = p
    BY <1>1, <1>2, <1>3 DEF BlockedReader, WriterIs, ActiveWriter
  <1>4. CASE q # p
    <2>1. call'[q] = call[q] /\ stack'[q] = stack[q] /\ pc'[q] = pc[q]
      BY <1>4
    <2>2. /\ H(q)' = H(q) /\ Top(q)' = Top(q) /\ Inside(q)' = Inside(q)
          /\ Writing(q)' = Writing(q)
      BY <2>1, SameGoroutine
    <2>3. LocksHeld(q)' = LocksHeld(q)
      BY <1>2, <2>1, <2>2 DEF LocksHeld
    <2>4. ReaderCount(q, h)'
      BY <1>1, <1>2, <2>1, <2>2, <2>3 DEF ReaderCount
    <2>5. (BlockedReader(q, h) /\ WriterIs(q, h) /\ ActiveWriter(q, h))'
      BY <1>1, <1>2, <2>1, <2>2 DEF BlockedReader, WriterIs, ActiveWriter
    <2> QED BY <2>4, <2>5
  <1> QED BY <1>3, <1>4

LEMMA LockingStep ==
  ASSUME Shape, LockInv, NEW p \in Proc, Locking(p)
  PROVE  LockInv'
  <1>1. \A q \in Proc \ {p} : call'[q] = call[q] /\ stack'[q] = stack[q] /\ pc'[q] = pc[q]
    BY OthersStay DEF Step
  <1>2. call[p] # NoCall /\ H(p) \in Handle /\ call' = call /\ stack' = stack
        /\ H(p)' = H(p) /\ Top(p)' = Top(p)
    <2>1. call[p] # NoCall
      BY DEF Locking, EnterUnlocked, EnterRead, EnterBlocked, WokenReader, EnterWrite,
         AcquireWrite, Shape, CallShape
    <2>2. call' = call /\ stack' = stack
      BY DEF Locking, EnterUnlocked, EnterRead, EnterBlocked, WokenReader, EnterWrite,
         AcquireWrite
    <2> QED BY <2>1, <2>2, CallTypes DEF Shape, H, Top
  <1>3. CASE EnterUnlocked(p) \/ WokenReader(p)
    <2>1. UNCHANGED lockVars /\ pc'[p] = "body" /\ LockMode(Top(p)) # "write"
      BY <1>3 DEF EnterUnlocked, WokenReader, GoTo, Shape, TypeOK
    <2>2. \A h \in Handle : p \notin blocked[h]
      BY <1>3 DEF EnterUnlocked, WokenReader, LockInv, BlockedReader
    <2>3. LocksHeld(p)' = LocksHeld(p)
      BY <1>2, <1>3, <2>1 DEF EnterUnlocked, WokenReader, LocksHeld, Inside
    <2>4. \A h \in Handle : ReaderCount(p, h) => ReaderCount(p, h)'
      BY <1>2, <2>1, <2>3 DEF ReaderCount, lockVars
    <2>5. ~Writing(p) /\ ~Writing(p)'
      BY <1>2, <2>1 DEF Writing
    <2> QED BY <1>1, <2>1, <2>2, <2>4, <2>5, LockUntouched
  <1>4. CASE EnterRead(p) \/ EnterBlocked(p) \/ EnterWrite(p) \/ AcquireWrite(p)
    <2> SUFFICES ASSUME NEW q \in Proc, NEW h \in Handle
                 PROVE  (ReaderCount(q, h) /\ BlockedReader(q, h) /\ WriterIs(q, h)
                         /\ ActiveWriter(q, h))'
      BY DEF LockInv
    <2>1. /\ ReaderCount(q, h) /\ BlockedReader(q, h) /\ WriterIs(q, h) /\ ActiveWriter(q, h)
          /\ ReaderCount(p, h) /\ BlockedReader(p, h) /\ WriterIs(p, h) /\ ActiveWriter(p, h)
          /\ WriterIs(q, H(p)) /\ ActiveWriter(q, H(p)) /\ BlockedReader(q, H(p))
      BY <1>2 DEF LockInv
    <2>2. q # p => /\ H(q)' = H(q) /\ Top(q)' = Top(q) /\ Inside(q)' = Inside(q)
                   /\ Writing(q)' = Writing(q) /\ (call[q] = NoCall)' = (call[q] = NoCall)
                   /\ pc'[q] = pc[q]
      BY <1>1, SameGoroutine
    <2>3. Len(stack[p]) \in Nat /\ LockTypeOK
      BY DEF Shape, TypeOK
    <2>4. CASE EnterRead(p)
      <3>1. /\ pc[p] = "enter" /\ pc'[p] = "body" /\ LockMode(Top(p)) = "read"
            /\ writer[H(p)] = NoProc /\ UNCHANGED <<blocked, writer, active>>
            /\ readers' = [readers EXCEPT ![H(p)][p] = @ + 1]
        BY <2>4 DEF EnterRead, RLock, GoTo, Shape, TypeOK
      <3>2. LocksHeld(p) = Len(stack[p]) - 1 /\ LocksHeld(p)' = Len(stack[p])
        BY <1>2, <3>1 DEF LocksHeld, Inside
      <3>3. /\ q # p \/ h # H(p) => readers'[h][q] = readers[h][q]
            /\ q = p /\ h = H(p) => readers'[h][q] = readers[h][q] + 1
        BY <1>2, <2>3, <3>1 DEF LockTypeOK
      <3>4. q # p => LocksHeld(q)' = LocksHeld(q)
        BY <1>1, <3>1, SameGoroutine
      <3>5. ReaderCount(q, h)'
        BY <1>2, <2>1, <2>2, <2>3, <3>2, <3>3, <3>4 DEF ReaderCount
      <3>6. ~Writing(p) /\ ~Writing(p)'
        BY <1>2, <3>1 DEF Writing
      <3>7. WriterIs(q, h)'
        BY <1>2, <2>1, <2>2, <3>1, <3>6 DEF WriterIs
      <3>8. BlockedReader(q, h)'
        BY <1>2, <2>1, <2>2, <3>1 DEF BlockedReader
      <3>9. ActiveWriter(q, h)'
        BY <1>2, <2>1, <2>2, <3>1, <3>3, <3>6, NoProcAssumption DEF ActiveWriter, WriterIs
      <3> QED BY <3>5, <3>7, <3>8, <3>9
    <2>5. CASE EnterBlocked(p)
      <3>1. /\ pc[p] = "enter" /\ pc'[p] = "wait" /\ LockMode(Top(p)) = "read"
            /\ writer[H(p)] # NoProc /\ UNCHANGED <<readers, writer, active>>
            /\ blocked' = [blocked EXCEPT ![H(p)] = @ \cup {p}]
        BY <2>5 DEF EnterBlocked, RLockBlocks, GoTo, Shape, TypeOK
      <3>2. p \in blocked'[H(p)] /\ (q # p => (q \in blocked'[h] <=> q \in blocked[h]))
            /\ (h # H(p) => blocked'[h] = blocked[h])
            /\ (q # p => \A g \in Handle : q \in blocked'[g] <=> q \in blocked[g])
        BY <1>2, <2>3, <3>1 DEF LockTypeOK
      <3>3. LocksHeld(p) = Len(stack[p]) - 1 /\ LocksHeld(p)' = Len(stack[p]) - 1
        BY <1>2, <3>1, <3>2 DEF LocksHeld, Inside
      <3>4. q # p /\ call[q] # NoCall => LocksHeld(q)' = LocksHeld(q)
        <4>1. ASSUME q # p, call[q] # NoCall PROVE H(q) \in Handle
          BY <4>1, CallTypes DEF Shape
        <4> QED BY <1>1, <2>2, <3>2, <4>1, SameGoroutine
      <3>5. ReaderCount(q, h)'
        BY <1>2, <2>1, <2>2, <3>1, <3>3, <3>4 DEF ReaderCount
      <3>6. ~Writing(p) /\ ~Writing(p)'
        BY <1>2, <3>1 DEF Writing
      <3>7. WriterIs(q, h)'
        BY <1>2, <2>1, <2>2, <3>1, <3>6 DEF WriterIs
      <3>8. BlockedReader(q, h)'
        BY <1>2, <2>1, <2>2, <3>1, <3>2 DEF BlockedReader
      <3>9. ActiveWriter(q, h)'
        BY <1>2, <2>1, <2>2, <3>1, <3>6 DEF ActiveWriter, WriterIs
      <3> QED BY <3>5, <3>7, <3>8, <3>9
    <2>6. CASE EnterWrite(p)
      <3>1. /\ pc[p] = "enter" /\ pc'[p] = "wait" /\ LockMode(Top(p)) = "write"
            /\ writer[H(p)] = NoProc /\ UNCHANGED <<readers, blocked, active>>
            /\ writer' = [writer EXCEPT ![H(p)] = p]
        BY <2>6 DEF EnterWrite, LockAnnounce, GoTo, Shape, TypeOK
      <3>2. LocksHeld(p) = 0 /\ LocksHeld(p)' = 0
        BY <1>2, <3>1 DEF LocksHeld
      <3>3. q # p => LocksHeld(q)' = LocksHeld(q)
        BY <1>1, <2>2, <3>1, SameGoroutine
      <3>4. ReaderCount(q, h)'
        BY <1>2, <2>1, <2>2, <3>1, <3>2, <3>3 DEF ReaderCount
      <3>5. Writing(p)' /\ ~Inside(p)'
        BY <1>2, <3>1 DEF Writing, Inside
      <3>6. writer'[H(p)] = p /\ (h # H(p) => writer'[h] = writer[h])
        BY <1>2, <2>3, <3>1 DEF LockTypeOK
      <3>7. WriterIs(q, h)'
        <4>1. CASE q = p
          BY <1>2, <2>1, <3>1, <3>5, <3>6, <4>1 DEF WriterIs, Writing
        <4>2. CASE q # p
          BY <1>2, <2>1, <2>2, <3>1, <3>5, <3>6, <4>2, NoProcAssumption DEF WriterIs
        <4> QED BY <4>1, <4>2
      <3>8. BlockedReader(q, h)'
        BY <1>2, <2>1, <2>2, <3>1, <3>6, NoProcAssumption DEF BlockedReader
      <3>9. ActiveWriter(q, h)'
        <4>1. ~active[H(p)]
          BY <2>1, <3>1 DEF ActiveWriter
        <4>2. CASE h = H(p)
          BY <2>1, <2>2, <3>1, <3>5, <3>6, <4>1, <4>2 DEF ActiveWriter
        <4>3. CASE h # H(p)
          BY <2>1, <2>2, <3>1, <3>6, <4>3 DEF ActiveWriter, WriterIs
        <4> QED BY <4>2, <4>3
      <3> QED BY <3>4, <3>7, <3>8, <3>9
    <2>7. CASE AcquireWrite(p)
      <3>1. /\ pc[p] = "wait" /\ pc'[p] = "body" /\ LockMode(Top(p)) = "write"
            /\ writer[H(p)] = p /\ \A r \in Proc : readers[H(p)][r] = 0
            /\ UNCHANGED <<readers, blocked, writer>>
            /\ active' = [active EXCEPT ![H(p)] = TRUE]
        BY <2>7 DEF AcquireWrite, LockAcquire, GoTo, Shape, TypeOK
      <3>2. LocksHeld(p) = 0 /\ LocksHeld(p)' = 0
        BY <1>2, <3>1 DEF LocksHeld
      <3>3. q # p => LocksHeld(q)' = LocksHeld(q)
        BY <1>1, <2>2, <3>1, SameGoroutine
      <3>4. ReaderCount(q, h)'
        BY <1>2, <2>1, <2>2, <3>1, <3>2, <3>3 DEF ReaderCount
      <3>5. Writing(p) /\ Writing(p)' /\ Inside(p)'
        BY <1>2, <3>1 DEF Writing, Inside
      <3>6. active'[H(p)] /\ (h # H(p) => active'[h] = active[h])
        BY <1>2, <2>3, <3>1 DEF LockTypeOK
      <3>7. WriterIs(q, h)'
        BY <1>2, <2>1, <2>2, <3>1, <3>5 DEF WriterIs
      <3>8. BlockedReader(q, h)'
        BY <1>2, <2>1, <2>2, <3>1 DEF BlockedReader
      <3>9. ActiveWriter(q, h)'
        BY <1>2, <2>1, <2>2, <3>1, <3>5, <3>6, NoProcAssumption DEF ActiveWriter, WriterIs
      <3> QED BY <3>4, <3>7, <3>8, <3>9
    <2> QED BY <1>4, <2>4, <2>5, <2>6, <2>7
  <1> QED BY <1>3, <1>4 DEF Locking

\* A git command or a nested call: only the caller's place in the stack moves.
LEMMA WorkingStep ==
  ASSUME Shape, LockInv, NEW p \in Proc, Reading(p) \/ Editing(p)
  PROVE  LockInv'
  <1>1. \A q \in Proc \ {p} : call'[q] = call[q] /\ stack'[q] = stack[q] /\ pc'[q] = pc[q]
    BY OthersStay DEF Step
  <1>2. UNCHANGED lockVars /\ call' = call /\ pc[p] \in {"body", "detail"} /\ H(p)' = H(p)
    BY CommandStep DEF Command, NestedCall, Shape, H
  <1>3. \A h \in Handle : p \notin blocked[h]
    BY <1>2 DEF LockInv, BlockedReader
  <1>4. stack[p] \in Seq(Frame) /\ Inside(p)
    BY <1>2 DEF Shape, TypeOK, Inside
  <1>5. CASE Command(p)
    <2>1. stack' = stack /\ Inside(p)' /\ Top(p)' = Top(p) /\ pc'[p] # "enter"
      BY <1>5 DEF Command, GoTo, Shape, TypeOK, Inside, Top
    <2>2. LocksHeld(p)' = LocksHeld(p)
      BY <1>2, <1>4, <2>1 DEF LocksHeld
    <2>3. \A h \in Handle : ReaderCount(p, h) => ReaderCount(p, h)'
      BY <1>2, <2>2 DEF ReaderCount, lockVars
    <2>4. Writing(p)' <=> Writing(p)
      BY <1>2, <2>1 DEF Writing
    <2> QED BY <1>1, <1>2, <1>3, <1>4, <2>1, <2>3, <2>4, LockUntouched
  <1>6. CASE NestedCall(p)
    <2>1. PICK f \in {"Stat", "Lstat", "LstatDest"} : Nest(p, f)
      BY <1>6 DEF NestedCall
    <2>2. stack'[p] = <<f>> \o stack[p] /\ pc'[p] = "enter" /\ f \in Frame
      BY <2>1 DEF Nest, GoTo, Shape, TypeOK, Frame, FsReaders
    <2>3. Top(p)' = f /\ Len(stack'[p]) = Len(stack[p]) + 1
      BY <1>4, <2>2, Prepend DEF Top
    <2>4. LockMode(f) = "read" /\ LockMode(Top(p)) = "read"
      BY <1>6 DEF NestedCall, LockMode, Editors
    <2>5. LocksHeld(p)' = LocksHeld(p)
      BY <1>2, <1>4, <2>2, <2>3, <2>4 DEF LocksHeld, Inside
    <2>6. \A h \in Handle : ReaderCount(p, h) => ReaderCount(p, h)'
      BY <1>2, <2>5 DEF ReaderCount, lockVars
    <2>7. ~Writing(p) /\ ~Writing(p)'
      BY <2>3, <2>4 DEF Writing
    <2> QED BY <1>1, <1>2, <1>3, <2>6, <2>7, LockUntouched
  <1> QED BY <1>5, <1>6, CommandStep DEF Shape

\* After a return p is in the caller, or has asked for the lock again, or is
\* out of the call.
LEMMA AfterReturn ==
  ASSUME Shape, NEW p \in Proc, Returning(p)
  PROVE  /\ pc[p] = "exit" /\ call[p] # NoCall /\ H(p) \in Handle /\ Release(p)
         /\ \/ /\ pc'[p] \in {"detail", "exit"} /\ call'[p] = call[p]
               /\ Len(stack'[p]) = Len(stack[p]) - 1 /\ Len(stack[p]) > 1
               /\ LockMode(Top(p)) = "read" /\ LockMode(Top(p)') = "read"
            \/ /\ pc'[p] = "enter" /\ call'[p] = call[p]
               /\ LockMode(Top(p)) = "write" /\ LockMode(Top(p)') = "read"
               /\ Len(stack'[p]) = 1
            \/ call'[p] = NoCall /\ Len(stack[p]) = 1
  <1>1. pc[p] = "exit" /\ Release(p)
    BY DEF Returning, ReturnToCaller, FetchReturns, ReturnToClient
  <1>2. call[p] # NoCall /\ H(p) \in Handle
    BY <1>1, CallTypes DEF Shape, CallShape
  <1>3. CASE ReturnToCaller(p)
    <2>1. stack[p] \in Seq(Frame) /\ Len(stack[p]) > 1 /\ stack'[p] = Tail(stack[p])
          /\ call'[p] = call[p] /\ pc'[p] \in {"detail", "exit"}
      BY <1>3 DEF ReturnToCaller, GoTo, Shape, TypeOK
    <2>2. Top(p) = stack[p][1] /\ Top(p)' = stack[p][2] /\ Len(stack'[p]) = Len(stack[p]) - 1
      BY <2>1 DEF Top
    <2>3. 1 \in 1 .. Len(stack[p]) /\ 2 \in 1 .. Len(stack[p])
      BY <2>1
    <2>4. stack[p][1] \in NestedFrame /\ stack[p][2] \in NestedFrame
      BY <2>1, <2>3 DEF Shape, CallShape
    <2> QED BY <1>1, <1>2, <2>1, <2>2, <2>4, LockModes
  <1>4. CASE FetchReturns(p)
    <2>1. stack'[p] = <<CrossReader(call[p].op)>> /\ pc'[p] = "enter" /\ call'[p] = call[p]
      BY <1>4 DEF FetchReturns, GoTo, Shape, TypeOK
    <2>2. Len(stack'[p]) = 1 /\ Top(p)' = CrossReader(call[p].op)
      BY <2>1 DEF Top
    <2>3. LockMode(Top(p)) = "write"
      BY <1>4 DEF FetchReturns, LockMode, Editors
    <2> QED BY <1>1, <1>2, <2>1, <2>2, <2>3, LockModes
  <1>5. CASE ReturnToClient(p)
    BY <1>1, <1>2, <1>5 DEF ReturnToClient, Shape, TypeOK
  <1> QED BY <1>3, <1>4, <1>5 DEF Returning

LEMMA ReturningStep ==
  ASSUME Shape, LockInv, NEW p \in Proc, Returning(p)
  PROVE  LockInv'
  <1>1. \A q \in Proc \ {p} : call'[q] = call[q] /\ stack'[q] = stack[q] /\ pc'[q] = pc[q]
    BY OthersStay DEF Step
  <1>2. pc[p] = "exit" /\ call[p] # NoCall /\ H(p) \in Handle /\ Release(p)
        /\ stack[p] \in Seq(Frame) /\ Len(stack[p]) \in Nat /\ Inside(p)
    BY AfterReturn DEF Shape, TypeOK, Inside
  <1>3. ~Writing(p)' /\ (call'[p] # NoCall => H(p)' = H(p))
    BY <1>2, AfterReturn DEF Writing, H
  <1>4. \A h \in Handle : p \notin blocked[h]
    BY <1>2 DEF LockInv, BlockedReader
  <1>5. CASE LockMode(Top(p)) = "none" /\ UNCHANGED <<lockVars, before>>
    <2>1. call'[p] = NoCall
      BY <1>5, AfterReturn
    <2>2. LocksHeld(p) = 0 /\ ~Writing(p)
      BY <1>5 DEF LocksHeld, Writing
    <2>3. \A h \in Handle : ReaderCount(p, h) => ReaderCount(p, h)'
      BY <1>5, <2>1, <2>2 DEF ReaderCount, lockVars
    <2> QED BY <1>1, <1>3, <1>4, <1>5, <2>2, <2>3, LockUntouched
  <1>6. CASE LockMode(Top(p)) # "none"
    <2> SUFFICES ASSUME NEW q \in Proc, NEW h \in Handle
                 PROVE  (ReaderCount(q, h) /\ BlockedReader(q, h) /\ WriterIs(q, h)
                         /\ ActiveWriter(q, h))'
      BY DEF LockInv
    <2>1. /\ ReaderCount(q, h) /\ BlockedReader(q, h) /\ WriterIs(q, h) /\ ActiveWriter(q, h)
          /\ ReaderCount(p, H(p)) /\ WriterIs(p, h) /\ ActiveWriter(p, H(p))
          /\ WriterIs(q, H(p)) /\ BlockedReader(q, H(p)) /\ ActiveWriter(q, H(p))
          /\ ReaderCount(q, H(p))
      BY <1>2 DEF LockInv
    <2>2. q # p => /\ H(q)' = H(q) /\ Top(q)' = Top(q) /\ (Inside(q)' <=> Inside(q))
                   /\ (Writing(q)' <=> Writing(q)) /\ call'[q] = call[q]
                   /\ pc'[q] = pc[q] /\ stack'[q] = stack[q]
      BY <1>1, SameGoroutine
    <2>3. LockTypeOK
      BY DEF Shape, TypeOK
    <2>4. CASE LockMode(Top(p)) = "read" /\ RUnlock(p, H(p))
      <3>1. UNCHANGED <<blocked, writer, active>> /\ ~Writing(p)
            /\ readers' = [readers EXCEPT ![H(p)][p] = @ - 1]
        BY <2>4 DEF RUnlock, Writing
      <3>2. /\ q # p \/ h # H(p) => readers'[h][q] = readers[h][q]
            /\ readers'[H(p)][p] = readers[H(p)][p] - 1
        BY <1>2, <2>3, <3>1 DEF LockTypeOK
      <3>3. readers[H(p)][p] = Len(stack[p])
        BY <1>2, <2>1, <2>4 DEF ReaderCount, LocksHeld
      <3>4. call'[p] = NoCall => readers'[H(p)][p] = 0
        BY <1>2, <2>4, <3>2, <3>3, AfterReturn DEF Shape, CallShape
      <3>5. call'[p] # NoCall => LocksHeld(p)' = Len(stack[p]) - 1
        BY <1>2, <2>4, AfterReturn DEF LocksHeld, Inside
      <3>6. ReaderCount(q, h)'
        <4>1. CASE q # p
          <5>1. LocksHeld(q)' = LocksHeld(q)
            BY <1>1, <3>1, <4>1, SameGoroutine
          <5> QED BY <2>1, <2>2, <3>2, <4>1, <5>1 DEF ReaderCount
        <4>2. CASE q = p /\ h # H(p)
          BY <1>3, <2>1, <3>2, <4>2 DEF ReaderCount
        <4>3. CASE q = p /\ h = H(p)
          BY <1>3, <3>2, <3>3, <3>4, <3>5, <4>3 DEF ReaderCount
        <4> QED BY <4>1, <4>2, <4>3
      <3>7. WriterIs(q, h)'
        BY <1>3, <2>1, <2>2, <3>1 DEF WriterIs
      <3>8. BlockedReader(q, h)'
        BY <1>4, <2>1, <2>2, <3>1 DEF BlockedReader
      <3>9. ActiveWriter(q, h)'
        <4>1. writer[H(p)] # NoProc => ~active[H(p)]
          BY <1>2, <2>1, <3>3 DEF ActiveWriter, Shape, CallShape
        <4> QED BY <1>3, <2>1, <2>2, <3>1, <3>2, <4>1 DEF ActiveWriter, WriterIs
      <3> QED BY <3>6, <3>7, <3>8, <3>9
    <2>5. CASE LockMode(Top(p)) = "write" /\ Unlock(p, H(p))
      <3>1. /\ writer[H(p)] = p /\ active[H(p)] /\ Writing(p)
            /\ readers' = [readers EXCEPT ![H(p)] =
                 [r \in Proc |-> IF r \in blocked[H(p)] THEN @[r] + 1 ELSE @[r]]]
            /\ blocked' = [blocked EXCEPT ![H(p)] = {}]
            /\ writer' = [writer EXCEPT ![H(p)] = NoProc]
            /\ active' = [active EXCEPT ![H(p)] = FALSE]
        BY <1>2, <2>5 DEF Unlock, Writing
      <3>2. /\ blocked'[H(p)] = {} /\ writer'[H(p)] = NoProc /\ ~active'[H(p)]
            /\ h # H(p) => /\ blocked'[h] = blocked[h] /\ writer'[h] = writer[h]
                           /\ active'[h] = active[h] /\ readers'[h] = readers[h]
            /\ readers'[H(p)][q] = IF q \in blocked[H(p)] THEN readers[H(p)][q] + 1
                                   ELSE readers[H(p)][q]
        BY <1>2, <2>3, <3>1 DEF LockTypeOK
      <3>3. LocksHeld(p) = 0 /\ (call'[p] # NoCall => LocksHeld(p)' = 0)
        BY <1>2, <2>5, AfterReturn DEF LocksHeld, Inside
      <3>4. ReaderCount(q, h)'
        <4>1. CASE q = p
          BY <1>3, <1>4, <2>1, <3>2, <3>3, <4>1 DEF ReaderCount
        <4>2. CASE q # p /\ q \in blocked[H(p)]
          <5>1. call[q] # NoCall /\ H(q) = H(p) /\ pc[q] = "wait" /\ LockMode(Top(q)) = "read"
            BY <2>1, <4>2 DEF BlockedReader
          <5>2. LocksHeld(q) = Len(stack[q]) - 1
            BY <4>2, <5>1 DEF LocksHeld, Inside
          <5>3. LocksHeld(q)' = Len(stack[q])
            BY <2>2, <3>2, <4>2, <5>1 DEF LocksHeld, Inside
          <5>4. Len(stack[q]) \in Nat
            BY DEF Shape, TypeOK
          <5> QED BY <2>1, <2>2, <3>2, <4>2, <5>1, <5>2, <5>3, <5>4 DEF ReaderCount
        <4>3. CASE q # p /\ q \notin blocked[H(p)]
          <5>1. call[q] # NoCall => LocksHeld(q)' = LocksHeld(q)
            <6>1. ASSUME call[q] # NoCall PROVE H(q) \in Handle
              BY <6>1, CallTypes DEF Shape
            <6>2. ASSUME call[q] # NoCall
                  PROVE q \in blocked'[H(q)] <=> q \in blocked[H(q)]
              BY <3>1, <2>3, <4>3, <6>1, <6>2 DEF LockTypeOK
            <6> QED BY <2>2, <4>3, <6>2 DEF LocksHeld
          <5> QED BY <2>1, <2>2, <3>2, <4>3, <5>1 DEF ReaderCount
        <4> QED BY <4>1, <4>2, <4>3
      <3>5. WriterIs(q, h)'
        <4>1. CASE h = H(p)
          BY <1>3, <2>1, <2>2, <3>1, <3>2, <4>1, NoProcAssumption DEF WriterIs
        <4>2. CASE h # H(p)
          BY <1>3, <2>1, <2>2, <3>2, <4>2 DEF WriterIs
        <4> QED BY <4>1, <4>2
      <3>6. BlockedReader(q, h)'
        BY <1>4, <2>1, <2>2, <3>2 DEF BlockedReader
      <3>7. ActiveWriter(q, h)'
        <4>1. CASE h = H(p)
          BY <3>2, <4>1, NoProcAssumption DEF ActiveWriter
        <4>2. CASE h # H(p)
          BY <2>1, <2>2, <3>2, <4>2 DEF ActiveWriter, WriterIs
        <4> QED BY <4>1, <4>2
      <3> QED BY <3>4, <3>5, <3>6, <3>7
    <2> QED BY <1>2, <1>6, <2>4, <2>5 DEF Release
  <1> QED BY <1>2, <1>5, <1>6 DEF Release

LEMMA InvokeStep ==
  ASSUME Shape, LockInv, NEW p \in Proc, Invoke(p)
  PROVE  LockInv'
  <1>1. \A q \in Proc \ {p} : call'[q] = call[q] /\ stack'[q] = stack[q] /\ pc'[q] = pc[q]
    BY OthersStay
  <1>2. UNCHANGED lockVars /\ pc[p] = "idle" /\ call[p] = NoCall /\ pc'[p] = "enter"
    BY DEF Invoke, Shape, TypeOK, CallShape
  <1>3. Len(stack'[p]) = 1
    BY DEF Invoke, Shape, TypeOK
  <1>4. \A h \in Handle : p \notin blocked[h]
    BY <1>2 DEF LockInv, BlockedReader
  <1>5. LocksHeld(p)' = 0
    BY <1>2, <1>3 DEF LocksHeld, Inside
  <1>6. \A h \in Handle : ReaderCount(p, h) => ReaderCount(p, h)'
    BY <1>2, <1>5 DEF ReaderCount, lockVars
  <1>7. ~Writing(p) /\ ~Writing(p)'
    BY <1>2 DEF Writing
  <1> QED BY <1>1, <1>2, <1>4, <1>6, <1>7, LockUntouched

LEMMA LockStep ==
  ASSUME Shape, LockInv, [Next]_vars
  PROVE  LockInv'
  <1>1. CASE UNCHANGED vars
    BY <1>1 DEF vars, lockVars, callVars, LockInv, ReaderCount, BlockedReader, WriterIs,
       ActiveWriter, Writing, LocksHeld, Inside, Top, H
  <1> QED BY <1>1, InvokeStep, LockingStep, WorkingStep, ReturningStep DEF Next, Step
-----------------------------------------------------------------------------
(* What the lock is for.                                                   *)

LEMMA LockInvariant == Spec => [](Shape /\ LockInv)
  <1>1. Init => Shape /\ LockInv
    BY ShapeInit, LockInvInit
  <1>2. Shape /\ LockInv /\ [Next]_vars => (Shape /\ LockInv)'
    BY ShapeStep, LockStep
  <1> QED BY <1>1, <1>2, PTL DEF Spec

LEMMA ExclusionHolds ==
  ASSUME Shape, LockInv
  PROVE  EditExcludesOthers
  <1> SUFFICES ASSUME NEW p \in Proc, NEW q \in Proc,
                      Inside(p), Top(p) \in Editors,
                      q # p, call[q] # NoCall, H(q) = H(p)
               PROVE  ~(Inside(q) /\ Top(q) # "Search") /\ Len(stack[q]) <= 1
    BY DEF EditExcludesOthers
  <1>1. H(q) \in Handle /\ Len(stack[q]) \in Nat /\ Len(stack[q]) # 0
        /\ stack[q] \in Seq(Frame)
    BY CallTypes DEF Shape, TypeOK, CallShape
  <1>2. Writing(p)
    BY LockModes DEF Inside, Writing, Shape, CallShape
  <1>3. writer[H(q)] = p /\ active[H(q)] /\ readers[H(q)][q] = 0
    BY <1>1, <1>2 DEF LockInv, WriterIs, ActiveWriter
  <1>4. LocksHeld(q) = 0 /\ ~Writing(q)
    BY <1>1, <1>3 DEF LockInv, ReaderCount, WriterIs
  <1>5. Top(q) \in Frame
    BY <1>1 DEF Top
  <1>6. ~(Inside(q) /\ Top(q) # "Search")
    BY <1>1, <1>4, <1>5, LockModes DEF LocksHeld, Writing, Inside
  <1>7. Len(stack[q]) <= 1
    <2> SUFFICES ASSUME Len(stack[q]) > 1 PROVE FALSE
      BY <1>1
    <2>1. Top(q) = stack[q][1] /\ 1 \in 1 .. Len(stack[q])
      BY <1>1 DEF Top
    <2>2. LockMode(Top(q)) = "read"
      BY <2>1, LockModes DEF Shape, CallShape
    <2>3. LocksHeld(q) = Len(stack[q]) \/ LocksHeld(q) = Len(stack[q]) - 1
      BY <2>2 DEF LocksHeld
    <2>4. \A n \in Nat : n > 1 => n # 0 /\ n - 1 # 0
      OBVIOUS
    <2> QED BY <1>1, <1>4, <2>3, <2>4
  <1> QED BY <1>6, <1>7

\* A function that edits the repository has its handle to itself, whatever the
\* other goroutines do with the same handle: the deferred unlocks, the nested
\* read locks and the hand-over of the lock leave no gap.
THEOREM ExclusiveEdits == Spec => []EditExcludesOthers
  BY LockInvariant, ExclusionHolds, PTL

LEMMA DeadlockShape ==
  ASSUME Shape, LockInv
  PROVE  OnlyNestedReadsDeadlock
  <1> SUFFICES ASSUME NEW p \in Proc, Stuck(p),
                      \A q \in Proc : pc[q] = "idle" \/ Stuck(q)
               PROVE  \E q \in Proc : Len(stack[q]) > 1 /\ q \in blocked[H(q)]
    BY DEF OnlyNestedReadsDeadlock
  <1> DEFINE h == H(p)
  <1>1. call[p] # NoCall /\ h \in Handle
    <2>1. call[p] # NoCall
      BY DEF Stuck, Shape, CallShape
    <2> QED BY <2>1, CallTypes DEF Shape
  <1>2. writer[h] \in Proc
    <2>1. writer[h] # NoProc
      BY <1>1, NoProcAssumption DEF Stuck, LockInv, BlockedReader
    <2> QED BY <1>1, <2>1 DEF Shape, TypeOK, LockTypeOK
  <1> DEFINE w == writer[h]
  <1>3. Writing(w) /\ H(w) = h /\ pc[w] # "idle"
    BY <1>1, <1>2 DEF LockInv, WriterIs, Writing, Shape, CallShape
  <1>4. PICK q \in Proc : readers[h][q] > 0
    <2>1. w \notin blocked[h]
      BY <1>1, <1>2, <1>3 DEF LockInv, BlockedReader, Writing
    <2> QED BY <1>2, <1>3, <2>1 DEF Stuck, Writing
  <1>5. call[q] # NoCall /\ H(q) = h /\ LocksHeld(q) > 0
    BY <1>1, <1>4 DEF LockInv, ReaderCount
  <1>6. LockMode(Top(q)) = "read" /\ pc[q] # "idle"
    BY <1>5 DEF LocksHeld, Shape, CallShape
  <1>7. q \in blocked[h] /\ pc[q] = "wait"
    <2>1. ~Writing(q)
      BY <1>6 DEF Writing
    <2>2. writer[h] # q
      BY <1>1, <2>1 DEF LockInv, WriterIs
    <2> QED BY <1>5, <1>6, <2>2 DEF Stuck
  <1>8. LocksHeld(q) = Len(stack[q]) - 1
    BY <1>5, <1>6, <1>7 DEF LocksHeld, Inside
  <1>9. Len(stack[q]) \in Nat
    BY DEF Shape, TypeOK
  <1> QED BY <1>5, <1>7, <1>8, <1>9

\* The methods of gitcmd's Repository block each other for good only through
\* the nested read locks of the file system, for any number of goroutines,
\* handles and directories.
THEOREM DeadlockOnlyFromNesting == Spec => []OnlyNestedReadsDeadlock
  BY LockInvariant, DeadlockShape, PTL
-----------------------------------------------------------------------------
(* What one call reads.                                                    *)

\* Only an edit touches the repository, and the object store only grows.
LEMMA DataStep ==
  ASSUME Shape, NEW p \in Proc, Invoke(p) \/ Step(p)
  PROVE  /\ UNCHANGED refs \/ UpdateRef(p)
         /\ \A d \in Dir : objs[d] \subseteq objs'[d]
  <1>1. CASE Invoke(p) \/ Locking(p) \/ Returning(p)
    BY <1>1 DEF Invoke, Locking, EnterUnlocked, EnterRead, EnterBlocked, WokenReader,
       EnterWrite, AcquireWrite, Returning, ReturnToCaller, FetchReturns, ReturnToClient,
       dataVars
  <1>2. CASE Reading(p)
    BY <1>2 DEF Reading, ResolveRevision, Tags, Committers, ListFiles, Diff, BlameFile,
       MergeBase, Search, GetCommit, CommitsLog, CommitsCount, BranchesFilter, BranchesList,
       BranchesDetail, BranchesReturn, Lstat, ReadDir, Open, OpenBadObject, OpenSubmodule,
       Stat, StatRegular, StatSymlink, CommandFails, OneRefCommand, OneObjectCommand, FsLeaf,
       FsNest, dataVars
  <1>3. CASE Editing(p)
    <2>1. UNCHANGED refs \/ UpdateRef(p)
      BY <1>3 DEF Editing, UpdateReturn, FetchRef, FetchDone, dataVars
    <2>2. UNCHANGED objs \/ \E more : objs' = [objs EXCEPT ![D(p)] = @ \cup more]
      BY <1>3 DEF Editing, UpdateRef, UpdateReturn, FetchRef, FetchDone, dataVars
    <2>3. objs \in [Dir -> SUBSET Commit]
      BY DEF Shape, TypeOK
    <2> QED BY <2>1, <2>2, <2>3
  <1> QED BY <1>1, <1>2, <1>3 DEF Step

LEMMA OthersReads ==
  ASSUME Shape, NEW p \in Proc, NEW q \in Proc, p # q, Invoke(p) \/ Step(p)
  PROVE  seen'[q] = seen[q] /\ todo'[q] = todo[q]
  <1>1. CASE Invoke(p) \/ Locking(p) \/ Returning(p)
    BY <1>1 DEF Invoke, Locking, EnterUnlocked, EnterRead, EnterBlocked, WokenReader,
       EnterWrite, AcquireWrite, Returning, ReturnToCaller, FetchReturns, ReturnToClient,
       Shape, TypeOK
  <1>2. CASE Reading(p)
    BY <1>2 DEF Reading, ResolveRevision, Tags, Committers, ListFiles, Diff, BlameFile,
       MergeBase, Search, GetCommit, CommitsLog, CommitsCount, BranchesFilter, BranchesList,
       BranchesDetail, BranchesReturn, Lstat, ReadDir, Open, OpenBadObject, OpenSubmodule,
       Stat, StatRegular, StatSymlink, CommandFails, OneRefCommand, OneObjectCommand, FsLeaf,
       FsNest, SeeRefs, Shape, TypeOK
  <1>3. CASE Editing(p)
    BY <1>3 DEF Editing, UpdateRef, UpdateReturn, FetchRef, FetchDone, Shape, TypeOK
  <1> QED BY <1>1, <1>2, <1>3 DEF Step

\* A git command that reads the branch heads runs in a function that holds the
\* read lock; no other command adds to what has been read.
LEMMA ReadingSees ==
  ASSUME Shape, NEW p \in Proc, Reading(p)
  PROVE  \/ SeeRefs(p) /\ Top(p) \in RefReaders /\ Command(p)
         \/ UNCHANGED seen
  <1>1. CASE ResolveRevision(p) \/ Tags(p) \/ Committers(p) \/ ListFiles(p)
            \/ BranchesFilter(p) \/ BranchesList(p) \/ BranchesDetail(p)
    <2>1. SeeRefs(p) /\ Top(p) \in RefReaders
      BY <1>1 DEF ResolveRevision, Tags, Committers, ListFiles, BranchesFilter, BranchesList,
         BranchesDetail, OneRefCommand, At, AtDetail, RefReaders
    <2>2. ~NestedCall(p)
      BY <2>1 DEF NestedCall, RefReaders
    <2> QED BY <2>1, <2>2, CommandStep DEF Shape
  <1>2. CASE ~(ResolveRevision(p) \/ Tags(p) \/ Committers(p) \/ ListFiles(p)
               \/ BranchesFilter(p) \/ BranchesList(p) \/ BranchesDetail(p))
    BY <1>2 DEF Reading, Diff, BlameFile, MergeBase, Search, GetCommit, CommitsLog,
       CommitsCount, BranchesReturn, Lstat, ReadDir, Open, OpenBadObject, OpenSubmodule,
       Stat, StatRegular, StatSymlink, CommandFails, OneObjectCommand, FsLeaf, FsNest
  <1> QED BY <1>1, <1>2

\* While a call may use what it has read, no edit of its directory goes on.
LEMMA NoEditUnderReader ==
  ASSUME Shape, LockInv, OneHandlePerDir, NEW p \in Proc, NEW q \in Proc, p # q,
         UpdateRef(p), Inside(q), Top(q) \in RefReaders
  PROVE  refs'[D(q)] = refs[D(q)]
  <1>1. Inside(p) /\ Top(p) \in Editors
    BY DEF UpdateRef, At, Inside, Editors
  <1>2. Top(q) # "Search"
    BY DEF RefReaders
  <1>3. call[p] # NoCall /\ call[q] # NoCall
    BY <1>1 DEF Inside, Shape, CallShape
  <1>4. H(p) # H(q)
    BY <1>1, <1>2, <1>3, ExclusionHolds DEF EditExcludesOthers
  <1>5. D(p) # D(q) /\ D(p) \in Dir /\ D(q) \in Dir
    BY <1>3, <1>4, CallTypes DEF Shape, OneHandlePerDir, H, D
  <1> QED BY <1>5 DEF UpdateRef, Shape, TypeOK

LEMMA SeenInit == Init => SeenInv
  <1> SUFFICES ASSUME Init PROVE SeenInv
    OBVIOUS
  <1>1. RefsReadable
    BY DEF Init, RefsReadable
  <1> QED BY <1>1 DEF Init, SeenInv, Seen, Listed, AtDetail

\* The step, for the goroutine that takes it.
LEMMA OwnReads ==
  ASSUME Shape, LockInv, SeenInv, NEW p \in Proc, Invoke(p) \/ Step(p)
  PROVE  Seen(p)' /\ Listed(p)'
  <1>1. Seen(p) /\ Listed(p) /\ seen[p] \in SUBSET RefMap /\ todo[p] \in SUBSET Ref
    BY DEF SeenInv, Shape, TypeOK
  <1>2. CASE Invoke(p) \/ Locking(p)
    <2>1. UNCHANGED seen /\ seen[p] = {}
      BY <1>1, <1>2 DEF Invoke, Locking, EnterUnlocked, EnterRead, EnterBlocked, WokenReader,
         EnterWrite, AcquireWrite, Seen, Inside
    <2>2. pc'[p] # "detail"
      BY <1>2 DEF Invoke, Locking, EnterUnlocked, EnterRead, EnterBlocked, WokenReader,
         EnterWrite, AcquireWrite, GoTo, Shape, TypeOK
    <2> QED BY <2>1, <2>2 DEF Seen, Listed, AtDetail
  <1>3. CASE Reading(p)
    <2>1. UNCHANGED <<refs, objs, call>> /\ D(p)' = D(p) /\ D(p) \in Dir
      <3>1. UNCHANGED <<refs, objs, call>>
        BY <1>3 DEF Reading, ResolveRevision, Tags, Committers, ListFiles, Diff, BlameFile,
           MergeBase, Search, GetCommit, CommitsLog, CommitsCount, BranchesFilter,
           BranchesList, BranchesDetail, BranchesReturn, Lstat, ReadDir, Open, OpenBadObject,
           OpenSubmodule, Stat, StatRegular, StatSymlink, CommandFails, OneRefCommand,
           OneObjectCommand, FsLeaf, FsNest, dataVars
      <3>2. call[p] # NoCall
        BY <1>3, CommandStep DEF Command, NestedCall, Shape, CallShape
      <3> QED BY <3>1, <3>2, CallTypes DEF Shape, D
    <2>2. ASSUME Command(p) PROVE Inside(p) /\ Inside(p)' /\ Top(p)' = Top(p)
      BY <2>2 DEF Command, GoTo, Inside, Top, Shape, TypeOK
    <2>3. Seen(p)'
      <3>1. CASE SeeRefs(p) /\ Top(p) \in RefReaders /\ Command(p)
        <4>1. seen'[p] = seen[p] \cup {refs[D(p)]}
          BY <3>1 DEF SeeRefs, Shape, TypeOK
        <4>2. seen'[p] = {refs[D(p)]}
          BY <1>1, <4>1 DEF Seen
        <4> QED BY <2>1, <2>2, <3>1, <4>2 DEF Seen
      <3>2. CASE UNCHANGED seen /\ Command(p)
        BY <1>1, <2>1, <2>2, <3>2 DEF Seen
      <3>3. CASE UNCHANGED seen /\ NestedCall(p)
        <4>1. seen[p] = {}
          BY <1>1, <3>3 DEF Seen, NestedCall, RefReaders
        <4> QED BY <3>3, <4>1 DEF Seen
      <3>4. (SeeRefs(p) /\ Top(p) \in RefReaders /\ Command(p)) \/ UNCHANGED seen
        BY <1>3, ReadingSees
      <3>5. Command(p) \/ NestedCall(p)
        BY <1>3, CommandStep DEF Shape
      <3> QED BY <3>1, <3>2, <3>3, <3>4, <3>5
    <2>4. Listed(p)'
      <3> SUFFICES ASSUME AtDetail(p, "Branches")', NEW r \in todo'[p]
                   PROVE  refs[D(p)][r] \in objs[D(p)]
        BY <2>1 DEF Listed
      <3>1. Command(p)
        BY <1>3, CommandStep DEF NestedCall, Nest, GoTo, AtDetail, Shape, TypeOK
      <3>2. Top(p) = "Branches" /\ pc'[p] = "detail"
        BY <2>2, <3>1 DEF AtDetail
      <3>3. BranchesList(p) \/ BranchesDetail(p)
        BY <1>3, <3>2 DEF Reading, ResolveRevision, Tags, Committers, ListFiles, Diff,
           BlameFile, MergeBase, Search, GetCommit, CommitsLog, CommitsCount, BranchesFilter,
           BranchesReturn, Lstat, ReadDir, Open, OpenBadObject, OpenSubmodule, Stat,
           StatRegular, StatSymlink, CommandFails, OneRefCommand, OneObjectCommand, FsLeaf,
           At, AtDetail, Finish, FinishFinding, FsNest, Nest, GoTo, Shape, TypeOK
      <3>4. CASE BranchesList(p)
        <4>1. r \in Ref /\ refs[D(p)][r] # NoCommit
          BY <3>4 DEF BranchesList, Shape, TypeOK
        <4> QED BY <2>1, <4>1 DEF SeenInv, RefsReadable
      <3>5. CASE BranchesDetail(p)
        <4>1. r \in todo[p] /\ AtDetail(p, "Branches")
          BY <3>5 DEF BranchesDetail, Shape, TypeOK
        <4> QED BY <1>1, <4>1 DEF Listed
      <3> QED BY <3>3, <3>4, <3>5
    <2> QED BY <2>3, <2>4
  <1>4. CASE Editing(p)
    <2>1. Top(p) \in Editors /\ UNCHANGED <<seen, stack>>
      BY <1>4 DEF Editing, UpdateRef, UpdateReturn, FetchRef, FetchDone, At, Editors
    <2>2. seen[p] = {} /\ Top(p)' \in Editors
      BY <1>1, <2>1 DEF Seen, Editors, RefReaders, Top
    <2> QED BY <2>1, <2>2 DEF Seen, Listed, AtDetail, Editors
  <1>5. CASE Returning(p)
    <2>1. stack[p] \in Seq(Frame)
      BY DEF Shape, TypeOK
    <2>2. CASE ReturnToCaller(p)
      <3>1. Len(stack[p]) > 1 /\ stack'[p] = Tail(stack[p]) /\ UNCHANGED seen
        BY <2>2 DEF ReturnToCaller, Shape, TypeOK
      <3>2. Top(p) = stack[p][1] /\ Top(p)' = stack[p][2]
            /\ 1 \in 1 .. Len(stack[p]) /\ 2 \in 1 .. Len(stack[p])
        BY <2>1, <3>1 DEF Top
      <3>3. Top(p) \in NestedFrame /\ Top(p)' \in NestedFrame
        BY <3>1, <3>2 DEF Shape, CallShape
      <3>4. seen[p] = {} /\ Top(p)' # "Branches"
        BY <1>1, <3>3 DEF Seen, NestedFrame, FsReaders, RefReaders
      <3> QED BY <3>1, <3>4 DEF Seen, Listed, AtDetail
    <2>3. CASE FetchReturns(p)
      <3>1. seen[p] = {} /\ UNCHANGED seen /\ pc'[p] = "enter"
        BY <1>1, <2>3 DEF FetchReturns, Seen, RefReaders, GoTo, Shape, TypeOK
      <3> QED BY <3>1 DEF Seen, Listed, AtDetail
    <2>4. CASE ReturnToClient(p)
      BY <2>4 DEF ReturnToClient, GoTo, Seen, Listed, AtDetail, Shape, TypeOK
    <2> QED BY <1>5, <2>2, <2>3, <2>4 DEF Returning
  <1> QED BY <1>2, <1>3, <1>4, <1>5 DEF Step

\* A commit is in the object store before a branch points to it.
LEMMA RefsReadableStep ==
  ASSUME Shape, RefsReadable, NEW p \in Proc, Invoke(p) \/ Step(p)
  PROVE  RefsReadable'
  <1>1. UNCHANGED refs \/ UpdateRef(p)
    BY DataStep
  <1>2. \A d \in Dir : objs[d] \subseteq objs'[d]
    BY DataStep
  <1>3. CASE UNCHANGED refs
    BY <1>2, <1>3 DEF RefsReadable
  <1>4. CASE UpdateRef(p)
    <2>1. PICK r \in Ref, c \in Commit \cup {NoCommit} :
            /\ refs' = [refs EXCEPT ![D(p)][r] = c]
            /\ objs' = [objs EXCEPT ![D(p)] = @ \cup ({c} \ {NoCommit})]
      BY <1>4 DEF UpdateRef, Shape, TypeOK
    <2> SUFFICES ASSUME NEW d \in Dir, NEW s \in Ref
                 PROVE  refs'[d][s] \in objs'[d] \cup {NoCommit}
      BY DEF RefsReadable
    <2>2. refs[d] \in RefMap /\ objs[d] \in SUBSET Commit
      BY DEF Shape, TypeOK
    <2>3. refs'[d][s] = refs[d][s] \/ (d = D(p) /\ refs'[d][s] = c)
      BY <2>1, <2>2 DEF Shape, TypeOK, RefMap
    <2>4. d = D(p) => c \in objs'[d] \cup {NoCommit}
      BY <2>1 DEF Shape, TypeOK
    <2> QED BY <1>2, <2>3, <2>4 DEF RefsReadable
  <1> QED BY <1>1, <1>3, <1>4

LEMMA SeenStep ==
  ASSUME OneHandlePerDir, Shape, LockInv, SeenInv, [Next]_vars
  PROVE  SeenInv'
  <1>1. CASE UNCHANGED vars
    BY <1>1 DEF vars, dataVars, callVars, SeenInv, RefsReadable, Seen, Listed, AtDetail,
       Inside, Top, D
  <1>2. ASSUME NEW p \in Proc, Invoke(p) \/ Step(p) PROVE SeenInv'
    <2>1. UNCHANGED refs \/ UpdateRef(p)
      BY <1>2, DataStep
    <2>2. \A d \in Dir : objs[d] \subseteq objs'[d]
      BY <1>2, DataStep
    <2>3. RefsReadable'
      BY <1>2, RefsReadableStep DEF SeenInv
    <2>4. ASSUME NEW q \in Proc PROVE Seen(q)' /\ Listed(q)'
      <3>1. CASE q = p
        BY <1>2, <3>1, OwnReads
      <3>2. CASE q # p
        <4>1. /\ call'[q] = call[q] /\ stack'[q] = stack[q] /\ pc'[q] = pc[q]
              /\ seen'[q] = seen[q] /\ todo'[q] = todo[q]
          BY <1>2, <3>2, OthersStay, OthersReads
        <4>2. D(q)' = D(q) /\ Top(q)' = Top(q) /\ (Inside(q)' <=> Inside(q))
              /\ (AtDetail(q, "Branches")' <=> AtDetail(q, "Branches"))
          BY <4>1 DEF D, Top, Inside, AtDetail
        <4>3. Inside(q) /\ Top(q) \in RefReaders => refs'[D(q)] = refs[D(q)]
          BY <2>1, <3>2, NoEditUnderReader
        <4>4. Seen(q)'
          BY <4>1, <4>2, <4>3 DEF SeenInv, Seen
        <4>5. ASSUME AtDetail(q, "Branches"), NEW r \in todo[q]
              PROVE  refs'[D(q)][r] \in objs'[D(q)]
          <5>1. Inside(q) /\ Top(q) \in RefReaders /\ call[q] # NoCall
            BY <4>5 DEF AtDetail, Inside, RefReaders, Shape, CallShape
          <5>2. D(q) \in Dir /\ refs[D(q)][r] \in objs[D(q)]
            BY <4>5, <5>1, CallTypes DEF Shape, SeenInv, Listed
          <5> QED BY <2>2, <4>3, <5>1, <5>2
        <4> QED BY <4>1, <4>2, <4>4, <4>5 DEF Listed
      <3> QED BY <3>1, <3>2
    <2> QED BY <2>3, <2>4 DEF SeenInv
  <1> QED BY <1>1, <1>2 DEF Next

LEMMA SeenInvariant ==
  ASSUME OneHandlePerDir
  PROVE  Spec => []IInv
  <1>1. Init => IInv
    BY ShapeInit, LockInvInit, SeenInit DEF IInv
  <1>2. IInv /\ [Next]_vars => IInv'
    BY ShapeStep, LockStep, SeenStep DEF IInv, OneHandlePerDir
  <1> QED BY <1>1, <1>2, PTL DEF Spec

\* All the git commands of one call of Branches, Tags, ResolveRevision,
\* Committers or ListFiles see the same branch heads, provided each directory
\* is open through one handle: editLock is a handle's own, and nothing else
\* keeps an update by another handle out.
THEOREM OneSnapshotPerCall ==
  ASSUME OneHandlePerDir
  PROVE  Spec => []ReadsOneSnapshot
  <1>1. IInv => ReadsOneSnapshot
    BY DEF IInv, SeenInv, Seen, ReadsOneSnapshot
  <1> QED BY <1>1, SeenInvariant, PTL

\* Under the same condition the branches that Branches has listed do not go
\* away before it has asked git for each one's commit and counts.
THEOREM ListedBranchesReadable ==
  ASSUME OneHandlePerDir
  PROVE  Spec => []ListedBranchesStay
  <1>1. IInv => ListedBranchesStay
    BY DEF IInv, SeenInv, Listed, ListedBranchesStay
  <1> QED BY <1>1, SeenInvariant, PTL
=============================================================================
