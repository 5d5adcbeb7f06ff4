------------------------- MODULE GitcmdAtomic_proof -------------------------
(***************************************************************************)
(* Proof that GitcmdRepo implements AtomicRepo, where no two handles have   *)
(* one directory: for every set of goroutines, handles, directories,       *)
(* branches and commits, and every choice of methods.                      *)
(***************************************************************************)
EXTENDS GitcmdRepo_proof

-----------------------------------------------------------------------------
(* The branch heads that locked reads can see.                             *)

\* VisibleRefs, of any lock state a, heads b from before the edits and heads r.
Visible(a, b, r) ==
  [d \in Dir |-> IF \E h \in Handle : a[h] /\ DirOf[h] = d
                 THEN b[CHOOSE h \in Handle : a[h] /\ DirOf[h] = d]
                 ELSE r[d]]

LEMMA VisibleAt ==
  ASSUME OneHandlePerDir, NEW a, NEW b, NEW r, NEW h \in Handle
  PROVE  /\ a[h] => Visible(a, b, r)[DirOf[h]] = b[h]
         /\ ~a[h] => Visible(a, b, r)[DirOf[h]] = r[DirOf[h]]
<1>1. DirOf[h] \in Dir
  BY DirOfAssumption
<1>2. \A g \in Handle : DirOf[g] = DirOf[h] => g = h
  BY DEF OneHandlePerDir
<1>3. ASSUME a[h] PROVE Visible(a, b, r)[DirOf[h]] = b[h]
  <2>. DEFINE g == CHOOSE g \in Handle : a[g] /\ DirOf[g] = DirOf[h]
  <2>1. Visible(a, b, r)[DirOf[h]] = b[g]
    BY <1>1, <1>3 DEF Visible
  <2>2. g \in Handle /\ a[g] /\ DirOf[g] = DirOf[h]
    BY <1>3
  <2>3. g = h
    BY <1>2, <2>2
  <2>. QED
    BY <2>1, <2>3
<1>4. ASSUME ~a[h] PROVE Visible(a, b, r)[DirOf[h]] = r[DirOf[h]]
  BY <1>1, <1>2, <1>4 DEF Visible
<1>. QED
  BY <1>3, <1>4

\* What becomes of one handle matters to its own directory only.
LEMMA VisibleElsewhere ==
  ASSUME OneHandlePerDir, NEW a, NEW b, NEW r, NEW a2, NEW b2, NEW r2,
         NEW h \in Handle, \A g \in Handle : g # h => a2[g] = a[g] /\ b2[g] = b[g],
         NEW d \in Dir, d # DirOf[h], r2[d] = r[d]
  PROVE  Visible(a2, b2, r2)[d] = Visible(a, b, r)[d]
<1>1. CASE \E g \in Handle : DirOf[g] = d
  <2>1. PICK g \in Handle : DirOf[g] = d
    BY <1>1
  <2>2. a2[g] = a[g] /\ b2[g] = b[g]
    BY <2>1
  <2>. QED
    BY <2>1, <2>2, VisibleAt
<1>2. CASE ~\E g \in Handle : DirOf[g] = d
  <2>1. Visible(a2, b2, r2)[d] = r2[d] /\ Visible(a, b, r)[d] = r[d]
    BY <1>2 DEF Visible
  <2>. QED
    BY <2>1
<1>. QED
  BY <1>1, <1>2

LEMMA VisibleNow ==
  /\ VisibleRefs = Visible(active, before, refs)
  /\ VisibleRefs' = Visible(active', before', refs')
BY DEF VisibleRefs, Visible

\* So a step on one handle's lock and directory changes what is seen there, if
\* anything.
LEMMA VisibleChange ==
  ASSUME OneHandlePerDir, NEW h \in Handle,
         \A g \in Handle : g # h => active'[g] = active[g] /\ before'[g] = before[g],
         \A d \in Dir : d # DirOf[h] => refs'[d] = refs[d]
  PROVE  VisibleRefs' = [VisibleRefs EXCEPT ![DirOf[h]] = VisibleRefs'[DirOf[h]]]
<1>1. ASSUME NEW d \in Dir, d # DirOf[h] PROVE VisibleRefs'[d] = VisibleRefs[d]
  <2>1. refs'[d] = refs[d]
    BY <1>1
  <2>2. Visible(active', before', refs')[d] = Visible(active, before, refs)[d]
    BY <1>1, <2>1, VisibleElsewhere
  <2>. QED
    BY <2>2, VisibleNow
<1>2. /\ VisibleRefs = [d \in Dir |-> VisibleRefs[d]]
      /\ VisibleRefs' = [d \in Dir |-> VisibleRefs'[d]]
  BY DEF VisibleRefs
<1>3. DirOf[h] \in Dir
  BY DirOfAssumption
<1>. QED
  BY <1>1, <1>2, <1>3

-----------------------------------------------------------------------------
(* Steps by what they do to what can be seen.                              *)

\* A step that shows to nobody.
Quiet == UNCHANGED <<active, before, refs, call, seen>>

\* A command that reads the branch heads, under the read lock.
Sees(p) ==
  /\ SeeRefs(p) /\ Inside(p) /\ Top(p) \in RefReaders
  /\ UNCHANGED <<active, before, refs, call>>

LEMMA StepKinds ==
  ASSUME Shape, NEW p \in Proc, Step(p)
  PROVE  Quiet \/ Sees(p) \/ AcquireWrite(p) \/ UpdateRef(p) \/ FetchReturns(p)
           \/ ReturnToClient(p)
<1>1. CASE Locking(p)
  BY <1>1 DEF Locking, EnterUnlocked, EnterRead, EnterBlocked, WokenReader, EnterWrite,
     RLock, RLockBlocks, LockAnnounce, lockVars, dataVars, Quiet
<1>2. CASE Reading(p)
  <2>1. UNCHANGED <<lockVars, dataVars, before, call>>
    BY <1>2 DEF Reading, ResolveRevision, Tags, Committers, ListFiles, Diff, BlameFile,
       MergeBase, Search, GetCommit, CommitsLog, CommitsCount, BranchesFilter, BranchesList,
       BranchesDetail, BranchesReturn, Lstat, ReadDir, Open, OpenBadObject, OpenSubmodule,
       Stat, StatRegular, StatSymlink, CommandFails, OneRefCommand, OneObjectCommand, FsLeaf,
       FsNest
  <2>2. UNCHANGED <<active, before, refs, call>>
    BY <2>1 DEF lockVars, dataVars
  <2>3. (SeeRefs(p) /\ Top(p) \in RefReaders /\ Command(p)) \/ UNCHANGED seen
    BY <1>2, ReadingSees
  <2>. QED
    BY <2>2, <2>3 DEF Sees, Quiet, Command, Inside
<1>3. CASE Editing(p)
  BY <1>3 DEF Editing, UpdateReturn, FetchRef, FetchDone, lockVars, dataVars, Quiet
<1>4. CASE ReturnToCaller(p)
  <2>1. LockMode(Top(p)) = "read"
    <3>1. stack[p] \in Seq(Frame) /\ Len(stack[p]) > 1
      BY <1>4 DEF ReturnToCaller, Shape, TypeOK
    <3>2. Top(p) = stack[p][1] /\ 1 \in 1 .. Len(stack[p])
      BY <3>1 DEF Top
    <3>. QED
      BY <3>1, <3>2, LockModes DEF Shape, CallShape
  <2>. QED
    BY <1>4, <2>1 DEF ReturnToCaller, Release, RUnlock, dataVars, Quiet
<1>. QED
  BY <1>1, <1>2, <1>3, <1>4 DEF Step, Returning

\* Who edits, holds the lock; who reads the branch heads, keeps writers out.
LEMMA EditorHolds ==
  ASSUME Shape, LockInv, NEW p \in Proc, Inside(p), Top(p) \in Editors
  PROVE  /\ call[p] # NoCall /\ H(p) \in Handle /\ DirOf[H(p)] = D(p) /\ D(p) \in Dir
         /\ writer[H(p)] = p /\ active[H(p)]
<1>1. call[p] # NoCall
  BY DEF Inside, Shape, CallShape
<1>2. H(p) \in Handle /\ D(p) \in Dir /\ DirOf[H(p)] = D(p)
  BY <1>1, CallTypes DEF Shape, H, D
<1>3. Writing(p)
  BY <1>1, LockModes DEF Writing, Inside
<1>. QED
  BY <1>1, <1>2, <1>3 DEF LockInv, WriterIs, ActiveWriter

LEMMA ReaderHolds ==
  ASSUME Shape, LockInv, NEW p \in Proc, Inside(p), Top(p) \in RefReaders
  PROVE  /\ call[p] # NoCall /\ H(p) \in Handle /\ DirOf[H(p)] = D(p) /\ D(p) \in Dir
         /\ ~active[H(p)]
<1>1. call[p] # NoCall /\ Len(stack[p]) # 0
  BY DEF Inside, Shape, CallShape
<1>2. H(p) \in Handle /\ D(p) \in Dir /\ DirOf[H(p)] = D(p)
  BY <1>1, CallTypes DEF Shape, H, D
<1>3. LockMode(Top(p)) = "read"
  BY DEF LockMode, RefReaders, Editors
<1>4. LocksHeld(p) # 0
  BY <1>1, <1>3 DEF LocksHeld
<1>. QED
  BY <1>1, <1>2, <1>4 DEF LockInv, ReaderCount, ActiveWriter

-----------------------------------------------------------------------------
(* A fetch moves no branch head.                                           *)

FetchMovesNothing(p) ==
  Inside(p) /\ Top(p) = "fetchRemote" => before[H(p)] = refs[D(p)]

LEMMA OwnFetch ==
  ASSUME Shape, NEW p \in Proc, FetchMovesNothing(p), Invoke(p) \/ Step(p)
  PROVE  FetchMovesNothing(p)'
<1>1. CASE Invoke(p)
  <2>1. pc'[p] = "enter"
    BY <1>1 DEF Invoke, Shape, TypeOK
  <2>. QED
    BY <2>1 DEF FetchMovesNothing, Inside
<1>2. CASE Locking(p)
  <2>1. UNCHANGED <<call, stack, refs>> /\ call[p] # NoCall
    BY <1>2 DEF Locking, EnterUnlocked, EnterRead, EnterBlocked, WokenReader, EnterWrite,
       AcquireWrite, dataVars, Shape, CallShape
  <2>2. H(p)' = H(p) /\ D(p)' = D(p) /\ Top(p)' = Top(p)
    BY <2>1 DEF H, D, Top
  <2>3. LockMode("fetchRemote") = "write"
    BY DEF LockMode, Editors
  <2>4. CASE AcquireWrite(p)
    <3>1. H(p) \in Handle
      BY <2>1, CallTypes DEF Shape
    <3>2. before'[H(p)] = refs[D(p)]
      BY <2>4, <3>1 DEF AcquireWrite, Shape, TypeOK
    <3>. QED
      BY <2>1, <2>2, <3>2 DEF FetchMovesNothing
  <2>5. CASE EnterBlocked(p) \/ EnterWrite(p)
    <3>1. pc'[p] = "wait"
      BY <2>5 DEF EnterBlocked, EnterWrite, GoTo, Shape, TypeOK
    <3>. QED
      BY <3>1 DEF FetchMovesNothing, Inside
  <2>6. CASE EnterUnlocked(p) \/ EnterRead(p) \/ WokenReader(p)
    <3>1. Top(p)' # "fetchRemote"
      BY <2>2, <2>3, <2>6 DEF EnterUnlocked, EnterRead, WokenReader
    <3>. QED
      BY <3>1 DEF FetchMovesNothing
  <2>. QED
    BY <1>2, <2>4, <2>5, <2>6 DEF Locking
<1>3. CASE Reading(p) \/ Editing(p)
  <2>1. CASE NestedCall(p)
    <3>1. pc'[p] = "enter"
      BY <2>1 DEF NestedCall, Nest, GoTo, Shape, TypeOK
    <3>. QED
      BY <3>1 DEF FetchMovesNothing, Inside
  <2>2. CASE Command(p) /\ ~UpdateRef(p)
    <3>1. UNCHANGED <<call, stack>> /\ Inside(p)
      BY <2>2 DEF Command, Inside
    <3>2. UNCHANGED <<before, refs>>
      <4>1. ~Locking(p) /\ ~Returning(p)
        BY <2>2 DEF Command, Locking, EnterUnlocked, EnterRead, EnterBlocked, WokenReader,
           EnterWrite, AcquireWrite, Returning, ReturnToCaller, FetchReturns, ReturnToClient
      <4>2. ~AcquireWrite(p) /\ ~FetchReturns(p) /\ ~ReturnToClient(p)
        BY <4>1 DEF Locking, Returning
      <4>. QED
        BY <1>3, <2>2, <4>2, StepKinds DEF Step, Quiet, Sees
    <3>3. H(p)' = H(p) /\ D(p)' = D(p) /\ Top(p)' = Top(p)
      BY <3>1 DEF H, D, Top
    <3>. QED
      BY <3>1, <3>2, <3>3 DEF FetchMovesNothing
  <2>3. CASE UpdateRef(p)
    <3>1. Top(p)' = "UpdateEverything"
      BY <2>3 DEF UpdateRef, At, Top
    <3>. QED
      BY <3>1 DEF FetchMovesNothing
  <2>. QED
    BY <1>3, <2>1, <2>2, <2>3, CommandStep DEF Shape
<1>4. CASE Returning(p)
  <2>1. CASE pc'[p] \in {"detail", "exit"} /\ LockMode(Top(p)') = "read"
    <3>1. LockMode("fetchRemote") = "write"
      BY DEF LockMode, Editors
    <3>. QED
      BY <2>1, <3>1 DEF FetchMovesNothing
  <2>2. CASE pc'[p] = "enter"
    BY <2>2 DEF FetchMovesNothing, Inside
  <2>3. CASE call'[p] = NoCall
    <3>1. pc'[p] = "idle"
      BY <1>4, <2>3, ShapeStep DEF Next, Step, Shape, CallShape
    <3>. QED
      BY <3>1 DEF FetchMovesNothing, Inside
  <2>. QED
    BY <1>4, <2>1, <2>2, <2>3, AfterReturn
<1>. QED
  BY <1>1, <1>2, <1>3, <1>4 DEF Step

LEMMA OthersFetch ==
  ASSUME OneHandlePerDir, Shape, LockInv, NEW p \in Proc, NEW q \in Proc, p # q,
         FetchMovesNothing(q), Invoke(p) \/ Step(p)
  PROVE  FetchMovesNothing(q)'
<1>1. /\ call'[q] = call[q] /\ stack'[q] = stack[q] /\ pc'[q] = pc[q]
  BY OthersStay
<1>2. H(q)' = H(q) /\ D(q)' = D(q) /\ Top(q)' = Top(q) /\ (Inside(q)' <=> Inside(q))
  BY <1>1 DEF H, D, Top, Inside
<1>. SUFFICES ASSUME Inside(q), Top(q) = "fetchRemote"
     PROVE  before'[H(q)] = before[H(q)] /\ refs'[D(q)] = refs[D(q)]
  BY <1>2 DEF FetchMovesNothing
<1>3. /\ call[q] # NoCall /\ H(q) \in Handle /\ DirOf[H(q)] = D(q)
      /\ writer[H(q)] = q /\ active[H(q)]
  BY EditorHolds DEF Editors
<1>4. CASE Invoke(p) \/ Quiet \/ Sees(p)
  BY <1>4 DEF Invoke, Quiet, Sees, dataVars
<1>5. CASE AcquireWrite(p)
  <2>1. writer[H(p)] = p /\ UNCHANGED refs /\ before' = [before EXCEPT ![H(p)] = refs[D(p)]]
    BY <1>5 DEF AcquireWrite, LockAcquire, dataVars
  <2>. QED
    BY <1>3, <2>1 DEF Shape, TypeOK
<1>6. CASE UpdateRef(p)
  <2>1. Inside(p) /\ Top(p) \in Editors /\ UNCHANGED before
    BY <1>6 DEF UpdateRef, At, Inside, Editors
  <2>2. writer[H(p)] = p /\ H(p) \in Handle /\ DirOf[H(p)] = D(p)
    BY <2>1, EditorHolds
  <2>3. D(p) # D(q)
    BY <1>3, <2>2 DEF OneHandlePerDir
  <2>4. refs'[D(q)] = refs[D(q)]
    BY <1>6, <2>3 DEF UpdateRef, Shape, TypeOK
  <2>. QED
    BY <2>1, <2>4
<1>7. CASE FetchReturns(p) \/ ReturnToClient(p)
  <2>1. Release(p) /\ UNCHANGED refs
    BY <1>7 DEF FetchReturns, ReturnToClient, dataVars
  <2>2. CASE UNCHANGED before
    BY <2>1, <2>2
  <2>3. CASE Unlock(p, H(p)) /\ before' = [before EXCEPT ![H(p)] = NoRefs]
    <3>1. writer[H(p)] = p
      BY <2>3 DEF Unlock
    <3>. QED
      BY <1>3, <2>1, <2>3, <3>1 DEF Shape, TypeOK
  <2>. QED
    BY <2>1, <2>2, <2>3 DEF Release
<1>. QED
  BY <1>4, <1>5, <1>6, <1>7, StepKinds

AInv == IInv /\ \A p \in Proc : FetchMovesNothing(p)

LEMMA AInvInit == Init => AInv
<1>1. Init => \A p \in Proc : FetchMovesNothing(p)
  BY DEF Init, FetchMovesNothing, Inside
<1>. QED
  BY <1>1, ShapeInit, LockInvInit, SeenInit DEF AInv, IInv

LEMMA AInvStep ==
  ASSUME OneHandlePerDir, AInv, [Next]_vars
  PROVE  AInv'
<1>1. IInv'
  BY ShapeStep, LockStep, SeenStep DEF AInv, IInv, OneHandlePerDir
<1>2. CASE UNCHANGED vars
  BY <1>1, <1>2
     DEF AInv, vars, callVars, dataVars, FetchMovesNothing, Inside, Top, H, D
<1>3. ASSUME NEW p \in Proc, Invoke(p) \/ Step(p), NEW q \in Proc
      PROVE  FetchMovesNothing(q)'
  BY <1>3, OwnFetch, OthersFetch DEF AInv, IInv
<1>. QED
  BY <1>1, <1>2, <1>3 DEF AInv, Next

-----------------------------------------------------------------------------
(* The refinement.                                                         *)

\* The writer gets the lock: from now on the heads of this moment are seen.
LEMMA AcquireShowsNothing ==
  ASSUME OneHandlePerDir, Shape, NEW p \in Proc, AcquireWrite(p)
  PROVE  VisibleRefs' = VisibleRefs /\ UNCHANGED <<call, seen>>
<1>. DEFINE h == H(p)
<1>1. h \in Handle /\ DirOf[h] = D(p) /\ D(p) \in Dir
  <2>1. call[p] # NoCall
    BY DEF AcquireWrite, Shape, CallShape
  <2>. QED
    BY <2>1, CallTypes DEF Shape, H, D
<1>2. /\ ~active[h] /\ active' = [active EXCEPT ![h] = TRUE]
      /\ before' = [before EXCEPT ![h] = refs[D(p)]] /\ UNCHANGED <<refs, call, seen>>
  BY DEF AcquireWrite, LockAcquire, dataVars
<1>3. /\ active'[h] /\ before'[h] = refs[D(p)]
      /\ \A g \in Handle : g # h => active'[g] = active[g] /\ before'[g] = before[g]
  BY <1>1, <1>2 DEF Shape, TypeOK, LockTypeOK
<1>4. Visible(active', before', refs')[DirOf[h]] = refs[D(p)]
  BY <1>1, <1>3, VisibleAt
<1>5. Visible(active, before, refs)[DirOf[h]] = refs[D(p)]
  BY <1>1, <1>2, VisibleAt
<1>6. VisibleRefs' = [VisibleRefs EXCEPT ![DirOf[h]] = refs[D(p)]]
  <2>. HIDE DEF h
  <2>. QED
    BY <1>1, <1>2, <1>3, <1>4, VisibleChange, VisibleNow
<1>7. VisibleRefs = [d \in Dir |-> VisibleRefs[d]] /\ VisibleRefs[DirOf[h]] = refs[D(p)]
  BY <1>5, VisibleNow DEF VisibleRefs
<1>8. VisibleRefs' = VisibleRefs
  <2>. HIDE DEF h
  <2>. QED
    BY <1>6, <1>7
<1>. QED
  BY <1>2, <1>8

\* An edit in progress does not show.
LEMMA UpdateShowsNothing ==
  ASSUME OneHandlePerDir, Shape, LockInv, NEW p \in Proc, UpdateRef(p)
  PROVE  VisibleRefs' = VisibleRefs /\ UNCHANGED <<call, seen>>
<1>. DEFINE h == H(p)
<1>1. Inside(p) /\ Top(p) \in Editors
  BY DEF UpdateRef, At, Inside, Editors
<1>2. h \in Handle /\ DirOf[h] = D(p) /\ D(p) \in Dir /\ active[h]
  BY <1>1, EditorHolds
<1>3. UNCHANGED <<active, before, call, seen>> /\ \A d \in Dir : d # D(p) => refs'[d] = refs[d]
  BY DEF UpdateRef, lockVars, Shape, TypeOK
<1>4. /\ Visible(active', before', refs')[DirOf[h]] = before[h]
      /\ Visible(active, before, refs)[DirOf[h]] = before[h]
  BY <1>2, <1>3, VisibleAt
<1>5. VisibleRefs' = [VisibleRefs EXCEPT ![DirOf[h]] = before[h]]
  <2>. HIDE DEF h
  <2>. QED
    BY <1>2, <1>3, <1>4, VisibleChange, VisibleNow
<1>6. VisibleRefs = [d \in Dir |-> VisibleRefs[d]] /\ VisibleRefs[DirOf[h]] = before[h]
  BY <1>4, VisibleNow DEF VisibleRefs
<1>7. VisibleRefs' = VisibleRefs
  <2>. HIDE DEF h
  <2>. QED
    BY <1>5, <1>6
<1>. QED
  BY <1>3, <1>7

\* The writer lets go: its whole edit shows at once.
LEMMA UnlockShowsEdit ==
  ASSUME OneHandlePerDir, Shape, NEW p \in Proc, call[p] # NoCall, UNCHANGED refs,
         Unlock(p, H(p)), before' = [before EXCEPT ![H(p)] = NoRefs]
  PROVE  VisibleRefs' = [VisibleRefs EXCEPT ![D(p)] = refs[D(p)]]
<1>. DEFINE h == H(p)
<1>1. h \in Handle /\ DirOf[h] = D(p) /\ D(p) \in Dir
  BY CallTypes DEF Shape, H, D
<1>2. /\ ~active'[h]
      /\ \A g \in Handle : g # h => active'[g] = active[g] /\ before'[g] = before[g]
  BY <1>1 DEF Unlock, Shape, TypeOK, LockTypeOK
<1>3. Visible(active', before', refs')[DirOf[h]] = refs[D(p)]
  BY <1>1, <1>2, VisibleAt
<1>4. VisibleRefs' = [VisibleRefs EXCEPT ![DirOf[h]] = refs[D(p)]]
  <2>. HIDE DEF h
  <2>. QED
    BY <1>1, <1>2, <1>3, VisibleChange, VisibleNow
<1>. QED
  BY <1>1, <1>4

\* A fetch is no edit of the branch heads.
LEMMA FetchShowsNothing ==
  ASSUME OneHandlePerDir, Shape, LockInv, NEW p \in Proc, FetchMovesNothing(p), FetchReturns(p)
  PROVE  VisibleRefs' = VisibleRefs /\ UNCHANGED <<call, seen>>
<1>1. Inside(p) /\ Top(p) = "fetchRemote" /\ Release(p) /\ UNCHANGED <<refs, call, seen>>
  BY DEF FetchReturns, Inside, dataVars
<1>2. /\ call[p] # NoCall /\ H(p) \in Handle /\ DirOf[H(p)] = D(p) /\ D(p) \in Dir
      /\ active[H(p)]
  BY <1>1, EditorHolds DEF Editors
<1>3. Unlock(p, H(p)) /\ before' = [before EXCEPT ![H(p)] = NoRefs]
  BY <1>1 DEF Release, LockMode, Editors
<1>4. VisibleRefs' = [VisibleRefs EXCEPT ![D(p)] = refs[D(p)]]
  BY <1>1, <1>2, <1>3, UnlockShowsEdit
<1>5. VisibleRefs = [d \in Dir |-> VisibleRefs[d]] /\ VisibleRefs[D(p)] = refs[D(p)]
  <2>1. Visible(active, before, refs)[DirOf[H(p)]] = before[H(p)]
    BY <1>2, VisibleAt
  <2>2. before[H(p)] = refs[D(p)]
    BY <1>1 DEF FetchMovesNothing
  <2>. QED
    BY <1>2, <2>1, <2>2, VisibleNow DEF VisibleRefs
<1>. QED
  BY <1>1, <1>4, <1>5

\* A step that leaves all that shows, or one of the atomic steps of p.
LEMMA RefinesStep ==
  ASSUME OneHandlePerDir, AInv, NEW p \in Proc, Invoke(p) \/ Step(p)
  PROVE  Atomic!ANext \/ UNCHANGED Atomic!aVars
<1>. USE DEF AInv, IInv
<1>1. SeenInv
  BY DEF OneHandlePerDir
<1>2. ASSUME VisibleRefs' = VisibleRefs, UNCHANGED <<call, seen>>
      PROVE  UNCHANGED Atomic!aVars
  BY <1>2 DEF Atomic!aVars, Where, D
<1>3. CASE Invoke(p)
  <2>1. VisibleRefs' = VisibleRefs /\ UNCHANGED seen
    BY <1>3, VisibleNow DEF Invoke, lockVars, dataVars
  <2>2. PICK k \in Call : call' = [call EXCEPT ![p] = k]
    BY <1>3 DEF Invoke, Calls
  <2>3. call[p] = NoCall /\ k # NoCall /\ DirOf[k.h] \in Dir
    BY <1>3, CallNotNoCall, DirOfAssumption DEF Invoke, Shape, CallShape, Call
  <2>4. Where[p] = NoDir /\ Where' = [Where EXCEPT ![p] = DirOf[k.h]]
    BY <2>2, <2>3 DEF Where, D, Shape, TypeOK
  <2>5. Atomic!Begin(p)
    BY <2>1, <2>3, <2>4 DEF Atomic!Begin
  <2>. QED
    BY <2>5 DEF Atomic!ANext
<1>4. CASE Quiet
  <2>1. VisibleRefs' = VisibleRefs
    BY <1>4, VisibleNow DEF Quiet
  <2>. QED
    BY <1>2, <1>4, <2>1 DEF Quiet
<1>5. CASE Sees(p)
  <2>1. /\ call[p] # NoCall /\ H(p) \in Handle /\ DirOf[H(p)] = D(p) /\ D(p) \in Dir
        /\ ~active[H(p)]
    BY <1>5, ReaderHolds DEF Sees
  <2>2. VisibleRefs[D(p)] = refs[D(p)]
    BY <2>1, VisibleAt, VisibleNow
  <2>3. VisibleRefs' = VisibleRefs /\ UNCHANGED call
    BY <1>5, VisibleNow DEF Sees
  <2>4. Where' = Where /\ Where[p] = D(p) /\ D(p) # NoDir
    BY <2>1, <2>3, NoDirAssumption DEF Where, D
  <2>5. seen' = [seen EXCEPT ![p] = seen[p] \cup {refs[D(p)]}] /\ seen[p] \in SUBSET RefMap
    BY <1>5 DEF Sees, SeeRefs, Shape, TypeOK
  <2>6. CASE seen[p] = {}
    <3>1. seen' = [seen EXCEPT ![p] = {VisibleRefs[Where[p]]}]
      BY <2>2, <2>4, <2>5, <2>6
    <3>2. Atomic!Read(p)
      BY <2>3, <2>4, <2>6, <3>1 DEF Atomic!Read
    <3>. QED
      BY <3>2 DEF Atomic!ANext
  <2>7. CASE seen[p] # {}
    <3>1. seen[p] = {refs[D(p)]}
      BY <1>1, <2>7 DEF SeenInv, Seen
    <3>2. seen' = seen
      BY <2>5, <3>1 DEF Shape, TypeOK
    <3>. QED
      BY <1>2, <2>3, <3>2
  <2>. QED
    BY <2>6, <2>7
<1>6. CASE AcquireWrite(p) \/ UpdateRef(p) \/ FetchReturns(p)
  BY <1>2, <1>6, AcquireShowsNothing, UpdateShowsNothing, FetchShowsNothing
<1>7. CASE ReturnToClient(p)
  <2>1. /\ Inside(p) /\ Release(p) /\ UNCHANGED refs
        /\ call' = [call EXCEPT ![p] = NoCall] /\ seen' = [seen EXCEPT ![p] = {}]
    BY <1>7 DEF ReturnToClient, Inside, dataVars
  <2>2. call[p] # NoCall
    BY <2>1 DEF Inside, Shape, CallShape
  <2>3. D(p) \in Dir /\ refs[D(p)] \in RefMap
    BY <2>2, CallTypes DEF Shape, TypeOK
  <2>4. /\ Where[p] = D(p) /\ Where[p] # NoDir
        /\ Where' = [Where EXCEPT ![p] = NoDir]
    BY <2>1, <2>2, <2>3, NoDirAssumption DEF Where, D, Shape, TypeOK
  <2>5. CASE Unlock(p, H(p)) /\ before' = [before EXCEPT ![H(p)] = NoRefs]
            /\ LockMode(Top(p)) = "write"
    <3>1. VisibleRefs' = [VisibleRefs EXCEPT ![D(p)] = refs[D(p)]]
      BY <2>1, <2>2, <2>5, UnlockShowsEdit
    <3>2. seen[p] = {}
      BY <1>1, <2>5 DEF SeenInv, Seen, LockMode, Editors, RefReaders
    <3>3. seen' = seen
      BY <2>1, <3>2 DEF Shape, TypeOK
    <3>4. Atomic!Edit(p)
      BY <2>3, <2>4, <3>1, <3>3 DEF Atomic!Edit
    <3>. QED
      BY <3>4 DEF Atomic!ANext
  <2>6. CASE UNCHANGED <<active, before>>
    <3>1. VisibleRefs' = VisibleRefs
      BY <2>1, <2>6, VisibleNow
    <3>2. Atomic!End(p)
      BY <2>1, <2>4, <3>1 DEF Atomic!End
    <3>. QED
      BY <3>2 DEF Atomic!ANext
  <2>. QED
    BY <2>1, <2>5, <2>6 DEF Release, RUnlock, lockVars
<1>. QED
  BY <1>3, <1>4, <1>5, <1>6, <1>7, StepKinds

LEMMA RefinesInit == ASSUME OneHandlePerDir, Init PROVE Atomic!AInit
<1>1. \A h \in Handle : ~active[h]
  BY DEF Init, LockInit
<1>2. VisibleRefs = [d \in Dir |-> refs[d]] /\ refs \in [Dir -> RefMap]
  BY <1>1 DEF VisibleRefs, Init
<1>3. Where = [p \in Proc |-> NoDir]
  BY DEF Where, Init
<1>. QED
  BY <1>2, <1>3 DEF Atomic!AInit, Init

\* Calls on a handle run many git commands, and an update moves one branch after
\* another; yet its lock makes each edit happen at once and each call read the
\* heads of one moment, provided that no directory has two handles.
THEOREM HandleIsAtomic ==
  ASSUME OneHandlePerDir
  PROVE  Spec => ImplementsAtomicRepo
<1>1. Init => AInv /\ Atomic!AInit
  BY AInvInit, RefinesInit
<1>2. AInv /\ [Next]_vars => AInv'
  BY AInvStep
<1>3. AInv /\ [Next]_vars => [Atomic!ANext]_(Atomic!aVars)
  <2>1. CASE UNCHANGED vars
    <3>1. VisibleRefs' = VisibleRefs /\ Where' = Where
      BY <2>1, VisibleNow DEF vars, lockVars, dataVars, callVars, Where, D
    <3>. QED
      BY <2>1, <3>1 DEF Atomic!aVars, vars, callVars
  <2>. QED
    BY <2>1, RefinesStep DEF Next
<1>. QED
  BY <1>1, <1>2, <1>3, PTL DEF Spec, ImplementsAtomicRepo, Atomic!AtomicSpec
=============================================================================
