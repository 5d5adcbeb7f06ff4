--------------------------- MODULE Program_proof ---------------------------
(***************************************************************************)
(* Proofs about Program: for any callers, names, commits and trees, any     *)
(* number of updates and any calls, and whatever the programs import.      *)
(***************************************************************************)
EXTENDS Program, TLAPS

-----------------------------------------------------------------------------
(* Two file trees of a commit.                                             *)

\* What both say of a path that has no entry, or has one.
LEMMA LstatAgrees ==
  ASSUME NEW t, IsTree(t), NEW q
  PROVE  NativeLstat(t, q) = CmdLstat(t, q)
<1>1. CASE q = << >>
  BY <1>1 DEF NativeLstat, CmdLstat
<1>2. CASE q # << >> /\ q \notin DOMAIN t
  <2>1. {q} \cap DOMAIN t = {}
    BY <1>2
  <2>2. LsTree(t, q, "no") = NoList
    BY <2>1 DEF LsTree
  <2>3. LsTree(t, q, "no").err # "none"
    BY <2>2 DEF NoList
  <2>. QED
    BY <1>2, <2>3 DEF NativeLstat, CmdLstat
<1>3. CASE q # << >> /\ q \in DOMAIN t
  <2>. DEFINE fi == [name |-> Last(q), info |-> MakeFileInfo(t[q])]
  <2>1. {q} \cap DOMAIN t = {q}
    BY <1>3
  <2>2. {[name |-> Last(r), info |-> MakeFileInfo(t[r])] : r \in {q}} = {fi}
    OBVIOUS
  <2>3. LsTree(t, q, "no") = Listing({fi})
    BY <2>1, <2>2 DEF LsTree
  <2>. HIDE DEF fi
  <2>4. First({fi}) = fi
    BY DEF First
  <2>5. LsTree(t, q, "no").err = "none" /\ LsTree(t, q, "no").list = {fi}
    BY <2>3 DEF Listing
  <2>6. CmdLstat(t, q) = fi.info
    BY <1>3, <2>4, <2>5 DEF CmdLstat
  <2>7. fi.info = MakeFileInfo(t[q])
    BY DEF fi
  <2>. QED
    BY <1>3, <2>6, <2>7 DEF NativeLstat
<1>. QED
  BY <1>1, <1>2, <1>3

LEMMA StatAgrees ==
  ASSUME NEW t, IsTree(t), NEW q
  PROVE  NativeStat(t, q) = CmdStatAt(t, q)
<1>1. NativeLstat(t, q) = CmdLstat(t, q)
  BY LstatAgrees
<1>2. CASE q \in DOMAIN t /\ t[q].kind = "link"
  <2>1. q # << >>
    BY <1>2 DEF IsTree
  <2>2. CmdLstat(t, q) = [kind |-> "link", dest |-> t[q].data]
    BY <1>1, <1>2, <2>1 DEF NativeLstat, MakeFileInfo
  <2>3. NativeLstat(t, t[q].data) = CmdLstat(t, t[q].data)
    BY LstatAgrees
  <2>. QED
    BY <1>2, <2>2, <2>3 DEF NativeStat, CmdStatAt
<1>3. CASE ~(q \in DOMAIN t /\ t[q].kind = "link")
  <2>1. CmdLstat(t, q).kind # "link"
    BY <1>1, <1>3 DEF NativeLstat, MakeFileInfo, RootInfo, Missing
  <2>. QED
    BY <1>1, <1>3, <2>1 DEF NativeStat, CmdStatAt
<1>. QED
  BY <1>2, <1>3

LEMMA ReadDirAgrees ==
  ASSUME NEW t, IsTree(t), NEW q \in Seq(STRING)
  PROVE  NativeReadDir(t, q) = CmdReadDirAt(t, q) \/ NativeLstat(t, q).kind = "submodule"
<1>. DEFINE itself == {q} \cap DOMAIN t
            subs == {r \in itself : t[r].kind = "submodule"}
<1>1. CASE q \in DOMAIN t /\ t[q].kind = "submodule"
  <2>1. q # << >>
    BY <1>1 DEF IsTree
  <2>. QED
    BY <1>1, <2>1 DEF NativeLstat, MakeFileInfo
<1>2. CASE ~(q \in DOMAIN t /\ t[q].kind = "submodule")
  <2>1. subs = {}
    BY <1>2
  <2>2. EntriesIn(t, q) \cup subs = EntriesIn(t, q)
    BY <2>1
  <2>3. CASE q = << >> \/ (q \in DOMAIN t /\ t[q].kind = "tree")
    <3>1. EntriesIn(t, q) # {}
      BY <2>3 DEF IsTree
    <3>. QED
      BY <2>2, <2>3, <3>1 DEF NativeReadDir, CmdReadDirAt, LsTree
  <2>4. CASE ~(q = << >> \/ (q \in DOMAIN t /\ t[q].kind = "tree"))
    <3>1. NativeReadDir(t, q) = NoList
      BY <2>4 DEF NativeReadDir
    <3>2. CASE q \in DOMAIN t
      <4>1. EntriesIn(t, q) = {}
        BY <3>2, <2>4 DEF IsTree
      <4>. QED
        BY <2>2, <3>1, <4>1 DEF CmdReadDirAt, LsTree
    <3>3. CASE q \notin DOMAIN t
      <4>1. ASSUME NEW r \in EntriesIn(t, q) PROVE FALSE
        <5>1. r \in DOMAIN t /\ Len(r) = Len(q) + 1 /\ IsPrefix(q, r) /\ r \in Seq(STRING)
          BY DEF EntriesIn, IsTree
        <5>2. Len(q) \in Nat \ {0}
          BY <2>4
        <5>3. Front(r) \in DOMAIN t
          BY <5>1, <5>2 DEF IsTree
        <5>4. Front(r) = q
          BY <5>1, <5>2 DEF Front, IsPrefix
        <5>. QED
          BY <3>3, <5>3, <5>4
      <4>. QED
        BY <2>2, <3>1, <4>1 DEF CmdReadDirAt, LsTree
    <3>. QED
      BY <3>2, <3>3
  <2>. QED
    BY <2>3, <2>4
<1>. QED
  BY <1>1, <1>2

LEMMA OpenAgrees ==
  ASSUME NEW t, IsTree(t), NEW q
  PROVE  NativeOpen(t, q) = CmdOpenAt(t, q) \/ NativeLstat(t, q).kind = "tree"
<1>1. CASE q = << >> \/ q \notin DOMAIN t
  BY <1>1 DEF NativeOpen, CmdOpenAt, NativeLstat, RootInfo
<1>2. CASE q \in DOMAIN t
  <2>1. q # << >> /\ t[q].kind \in Blobs \cup {"tree", "submodule"}
    BY <1>2 DEF IsTree
  <2>2. NativeLstat(t, q) = MakeFileInfo(t[q])
    BY <1>2, <2>1 DEF NativeLstat
  <2>3. MakeFileInfo(t[q]).kind = t[q].kind
    BY DEF MakeFileInfo
  <2>4. CASE t[q].kind = "tree"
    BY <2>2, <2>3, <2>4
  <2>5. CASE t[q].kind \in Blobs
    <3>1. t[q].kind # "tree"
      BY <2>5 DEF Blobs
    <3>. QED
      BY <1>2, <2>1, <2>5, <3>1 DEF NativeOpen, CmdOpenAt
  <2>6. CASE t[q].kind = "submodule"
    <3>1. t[q].kind \notin Blobs
      BY <2>6 DEF Blobs
    <3>2. CmdStatAt(t, q).kind = "submodule"
      BY StatAgrees, <1>2, <2>2, <2>3, <2>6 DEF NativeStat
    <3>. QED
      BY <1>2, <2>1, <2>6, <3>1, <3>2 DEF NativeOpen, CmdOpenAt
  <2>. QED
    BY <2>1, <2>4, <2>5, <2>6
<1>. QED
  BY <1>1, <1>2

-----------------------------------------------------------------------------
(* The calls of a git handle.                                              *)

\* What ResolvesAtSomeMoment says of one call that has returned.
RightAnswer(p) ==
  /\ answer[p].err = "none" /\ answer[p].id # Empty => answer[p].id \in named[p]
  /\ answer[p].err # "none" => None \in named[p] \/ failed[p]
  /\ answer[p].err = "none" /\ quiet[p] /\ ~failed[p] /\ BranchHead(call[p].spec) # None =>
       answer[p].id = BranchHead(call[p].spec)

\* Whatever the specifier means now is among what it has meant; and a call that
\* has got past the branches with nothing moved or failed has seen no branch.
Resolving(p) ==
  /\ pc[p] # "idle" => Meanings(call[p].spec) \subseteq named[p]
  /\ pc[p] \in {"filter", "list", "listed", "update"} => call[p].op # "ResolveRevision"
  /\ call[p].op = "ResolveRevision" /\ pc[p] \in {"tag", "fallback"} /\ quiet[p] /\ ~failed[p] =>
       BranchHead(call[p].spec) = None
  /\ At(p, "ResolveRevision", "done") => RightAnswer(p)

Domains ==
  /\ DOMAIN pc = Callers /\ DOMAIN call = Callers /\ DOMAIN answer = Callers
  /\ DOMAIN named = Callers /\ DOMAIN failed = Callers /\ DOMAIN quiet = Callers
  /\ DOMAIN fsAt = Callers

GitInv ==
  /\ Domains
  /\ objs \subseteq Commits
  /\ \A p \in Callers : fsAt[p] \in Commits \cup {None} /\ Resolving(p)

LEMMA MeaningsNotEmpty == ASSUME NEW spec PROVE Meanings(spec) # {}
<1>. DEFINE found == CASE spec.kind = "id"        -> {spec.id} \cap objs
                     [] spec.kind = "dashed"    -> {}
                     [] spec = SpecName("HEAD") -> {heads[Main]} \ {None}
                     [] OTHER                   -> {heads[spec.name], tags[spec.name]} \ {None}
<1>1. Meanings(spec) = IF found = {} THEN {None} ELSE found
  BY DEF Meanings
<1>. HIDE DEF found
<1>. QED
  BY <1>1

\* What git and the library find of a specifier is one of its meanings.
LEMMA RevParseMeans == ASSUME NEW spec PROVE RevParse(spec) \in Meanings(spec)
<1>1. CASE spec.kind = "name" /\ spec.name \in Names /\ tags[spec.name] # None
  <2>1. spec # SpecName("HEAD")
    BY <1>1, GitRepoAssumption DEF SpecName
  <2>. QED
    BY <1>1, <2>1 DEF RevParse, Meanings
<1>2. CASE ~(spec.kind = "name" /\ spec.name \in Names /\ tags[spec.name] # None)
  <2>1. RevParse(spec) = CHOOSE id \in Meanings(spec) : TRUE
    BY <1>2 DEF RevParse
  <2>. QED
    BY <2>1, MeaningsNotEmpty
<1>. QED
  BY <1>1, <1>2

LEMMA BranchHeadMeans ==
  ASSUME NEW spec, BranchHead(spec) # None
  PROVE  BranchHead(spec) \in Meanings(spec)
<1>1. spec.kind = "name" /\ spec.name \in Names /\ heads[spec.name] # None
  BY DEF BranchHead
<1>2. spec # SpecName("HEAD")
  BY <1>1, GitRepoAssumption DEF SpecName
<1>3. BranchHead(spec) = heads[spec.name]
  BY <1>1 DEF BranchHead
<1>. QED
  BY <1>1, <1>2, <1>3 DEF Meanings

LEMMA IdMeans ==
  ASSUME NEW spec, spec.kind = "id", spec.id \in objs
  PROVE  spec.id \in Meanings(spec) /\ BranchHead(spec) = None
<1>1. spec.id \in Meanings(spec)
  BY DEF Meanings, SpecName
<1>2. BranchHead(spec) = None
  BY DEF BranchHead
<1>. QED
  BY <1>1, <1>2


\* The three things that resolving a revision can come to.
LEMMA AnswersMean ==
  ASSUME NEW spec, NEW a \in RevisionAnswers(spec)
  PROVE  \/ a.err = "failed" /\ a.id = Empty
         \/ a.err = "revisionNotFound" /\ a.id = Empty /\ None \in Meanings(spec)
         \/ a.err = "none" /\ a.id \in Meanings(spec)
<1>1. RevParse(spec) \in Meanings(spec)
  BY RevParseMeans
<1>2. CASE a = Answer("failed", Empty)
  BY <1>2 DEF Answer
<1>3. CASE a = Answer("revisionNotFound", Empty) /\ RevParse(spec) = None
  BY <1>1, <1>3 DEF Answer
<1>4. CASE a = Answer("none", RevParse(spec))
  BY <1>1, <1>4 DEF Answer
<1>. QED
  BY <1>2, <1>3, <1>4 DEF RevisionAnswers

\* A call that one goroutine goes on with leaves the others' calls as they are.
OnlyOf(p) ==
  /\ UNCHANGED <<refVars, call, named, quiet>>
  /\ \A q \in Callers \ {p} :
       pc'[q] = pc[q] /\ answer'[q] = answer[q] /\ failed'[q] = failed[q] /\ fsAt'[q] = fsAt[q]

LEMMA OthersStay ==
  ASSUME GitInv, NEW p \in Callers, OnlyOf(p), NEW q \in Callers \ {p}
  PROVE  Resolving(q)'
<1>1. Resolving(q)
  BY DEF GitInv
<1>2. call' = call /\ named' = named /\ quiet' = quiet /\ heads' = heads /\ tags' = tags /\ objs' = objs
  BY DEF OnlyOf, refVars
<1>3. pc'[q] = pc[q] /\ answer'[q] = answer[q] /\ failed'[q] = failed[q]
  BY DEF OnlyOf
<1>4. Meanings(call[q].spec)' = Meanings(call[q].spec)
  BY <1>2 DEF Meanings
<1>5. BranchHead(call[q].spec)' = BranchHead(call[q].spec)
  BY <1>2 DEF BranchHead
<1>. QED
  BY <1>1, <1>2, <1>3, <1>4, <1>5 DEF Resolving, RightAnswer, At

\* What is left to show of a step of p's.
LEMMA StepKeeps ==
  ASSUME GitInv, NEW p \in Callers, OnlyOf(p), Domains', Resolving(p)',
         fsAt'[p] \in Commits \cup {None}
  PROVE  GitInv'
<1>1. objs' \subseteq Commits
  BY DEF GitInv, OnlyOf, refVars
<1>2. ASSUME NEW q \in Callers PROVE fsAt'[q] \in Commits \cup {None} /\ Resolving(q)'
  <2>1. CASE q = p
    BY <2>1
  <2>2. CASE q # p
    BY <2>2, OthersStay DEF GitInv, OnlyOf
  <2>. QED
    BY <2>1, <2>2
<1>. QED
  BY <1>1, <1>2 DEF GitInv

LEMMA LookupCommitKeeps == ASSUME GitInv, NEW p \in Callers, LookupCommit(p) PROVE GitInv'
<1>1. OnlyOf(p) /\ Domains' /\ fsAt'[p] \in Commits \cup {None}
  BY DEF GitInv, Domains, OnlyOf, LookupCommit, Returns, history, refVars
<1>2. Resolving(p) /\ pc[p] = "commit" /\ call[p].op = "ResolveRevision"
  BY DEF GitInv, LookupCommit, At
<1>3. Meanings(call[p].spec)' = Meanings(call[p].spec) /\ BranchHead(call[p].spec)' = BranchHead(call[p].spec)
  BY DEF LookupCommit, refVars, Meanings, BranchHead
<1>4. call' = call /\ named' = named /\ failed' = failed /\ quiet' = quiet
  BY DEF LookupCommit, history
<1>5. Resolving(p)'
  <2>1. CASE pc'[p] = "branch"
    BY <1>2, <1>3, <1>4, <2>1 DEF Resolving, At
  <2>2. CASE /\ call[p].spec.kind = "id" /\ call[p].spec.id \in objs
             /\ pc'[p] = "done" /\ answer'[p] = Answer("none", call[p].spec.id)
    <3>1. call[p].spec.id \in Meanings(call[p].spec) /\ BranchHead(call[p].spec) = None
      BY <2>2, IdMeans
    <3>. QED
      BY <1>2, <1>3, <1>4, <2>2, <3>1 DEF Resolving, RightAnswer, At, Answer
  <2>. QED
    BY <2>1, <2>2 DEF LookupCommit, Returns, Finds, GitInv, Domains
<1>. QED
  BY <1>1, <1>5, StepKeeps


LEMMA LookupBranchKeeps == ASSUME GitInv, NEW p \in Callers, LookupBranch(p) PROVE GitInv'
<1>1. OnlyOf(p) /\ Domains' /\ fsAt'[p] \in Commits \cup {None}
  BY DEF GitInv, Domains, OnlyOf, LookupBranch, Returns, refVars
<1>2. Resolving(p) /\ pc[p] = "branch" /\ p \in DOMAIN pc /\ p \in DOMAIN answer /\ p \in DOMAIN failed
  BY DEF GitInv, Domains, LookupBranch
<1>3. Meanings(call[p].spec)' = Meanings(call[p].spec) /\ BranchHead(call[p].spec)' = BranchHead(call[p].spec)
  BY DEF LookupBranch, refVars, Meanings, BranchHead
<1>4. call' = call /\ named' = named /\ quiet' = quiet
  BY DEF LookupBranch
<1>5. PICK id \in {BranchHead(call[p].spec), None} :
        /\ failed'[p] = (failed[p] \/ id # BranchHead(call[p].spec))
        /\ \/ id # None /\ pc'[p] = "done" /\ answer'[p] = Answer("none", id)
           \/ id = None /\ pc'[p] = "done" /\ call[p].op = "ResolveBranch"
           \/ id = None /\ pc'[p] = "tag"
  BY <1>2 DEF LookupBranch, Returns
<1>6. Resolving(p)'
  <2>1. CASE id # None /\ pc'[p] = "done" /\ answer'[p] = Answer("none", id)
    <3>1. id = BranchHead(call[p].spec)
      BY <2>1
    <3>2. id \in named'[p]
      BY <1>2, <1>4, <2>1, <3>1, BranchHeadMeans DEF Resolving
    <3>. QED
      BY <1>2, <1>3, <1>4, <2>1, <3>1, <3>2 DEF Resolving, RightAnswer, At, Answer
  <2>2. CASE id = None /\ pc'[p] = "done" /\ call[p].op = "ResolveBranch"
    BY <1>2, <1>3, <1>4, <2>2 DEF Resolving, At
  <2>3. CASE id = None /\ pc'[p] = "tag"
    BY <1>2, <1>3, <1>4, <1>5, <2>3 DEF Resolving, At
  <2>. QED
    BY <1>5, <2>1, <2>2, <2>3
<1>. QED
  BY <1>1, <1>6, StepKeeps

LEMMA LookupTagKeeps == ASSUME GitInv, NEW p \in Callers, LookupTag(p) PROVE GitInv'
<1>1. OnlyOf(p) /\ Domains' /\ fsAt'[p] \in Commits \cup {None}
  BY DEF GitInv, Domains, OnlyOf, LookupTag, Returns, refVars
<1>2. Resolving(p) /\ pc[p] = "tag" /\ p \in DOMAIN pc /\ p \in DOMAIN answer /\ p \in DOMAIN failed
  BY DEF GitInv, Domains, LookupTag
<1>3. Meanings(call[p].spec)' = Meanings(call[p].spec) /\ BranchHead(call[p].spec)' = BranchHead(call[p].spec)
  BY DEF LookupTag, refVars, Meanings, BranchHead
<1>4. call' = call /\ named' = named /\ quiet' = quiet
  BY DEF LookupTag
<1>5. PICK a \in RevisionAnswers(call[p].spec) :
        /\ failed'[p] = (failed[p] \/ a.err = "failed")
        /\ \/ /\ call[p].op = "ResolveTag" \/ TagAnswer(a).err = "none"
              /\ pc'[p] = "done" /\ answer'[p] = TagAnswer(a)
           \/ pc'[p] = "fallback"
  BY <1>2 DEF LookupTag, Returns
<1>6. \/ a.err = "failed" /\ a.id = Empty
      \/ a.err = "revisionNotFound" /\ a.id = Empty /\ None \in Meanings(call[p].spec)
      \/ a.err = "none" /\ a.id \in Meanings(call[p].spec)
  BY AnswersMean
<1>7. Resolving(p)'
  <2>1. CASE pc'[p] = "fallback"
    BY <1>2, <1>3, <1>4, <1>5, <2>1 DEF Resolving, At
  <2>2. CASE call[p].op # "ResolveRevision" /\ pc'[p] = "done"
    BY <1>2, <1>3, <1>4, <2>2 DEF Resolving, At
  <2>3. CASE /\ call[p].op = "ResolveRevision" /\ TagAnswer(a).err = "none"
             /\ pc'[p] = "done" /\ answer'[p] = TagAnswer(a)
    <3>1. a.err # "revisionNotFound" /\ answer'[p].id = a.id /\ answer'[p].err = "none"
      BY <2>3 DEF TagAnswer, Answer
    <3>2. answer'[p].id # Empty => answer'[p].id \in named'[p]
      BY <1>2, <1>4, <1>6, <3>1 DEF Resolving
    <3>3. a.err = "failed" \/ a.id \in Meanings(call[p].spec)
      BY <1>6, <3>1
    <3>. QED
      BY <1>2, <1>3, <1>4, <1>5, <2>3, <3>1, <3>2, <3>3 DEF Resolving, RightAnswer, At
  <2>. QED
    BY <1>5, <2>1, <2>2, <2>3
<1>. QED
  BY <1>1, <1>7, StepKeeps

LEMMA FallbackKeeps == ASSUME GitInv, NEW p \in Callers, Fallback(p) PROVE GitInv'
<1>1. OnlyOf(p) /\ Domains' /\ fsAt'[p] \in Commits \cup {None}
  BY DEF GitInv, Domains, OnlyOf, Fallback, Returns, refVars
<1>2. Resolving(p) /\ pc[p] = "fallback" /\ p \in DOMAIN pc /\ p \in DOMAIN answer /\ p \in DOMAIN failed
  BY DEF GitInv, Domains, Fallback
<1>3. Meanings(call[p].spec)' = Meanings(call[p].spec) /\ BranchHead(call[p].spec)' = BranchHead(call[p].spec)
  BY DEF Fallback, refVars, Meanings, BranchHead
<1>4. call' = call /\ named' = named /\ quiet' = quiet
  BY DEF Fallback
<1>5. PICK a \in RevisionAnswers(call[p].spec) :
        /\ failed'[p] = (failed[p] \/ a.err = "failed")
        /\ pc'[p] = "done"
        /\ answer'[p] = IF a.err = "none" THEN a ELSE Answer("revisionNotFound", Empty)
  BY <1>2 DEF Fallback, Returns
<1>6. \/ a.err = "failed" /\ a.id = Empty
      \/ a.err = "revisionNotFound" /\ a.id = Empty /\ None \in Meanings(call[p].spec)
      \/ a.err = "none" /\ a.id \in Meanings(call[p].spec)
  BY AnswersMean
<1>7. Resolving(p)'
  <2>1. CASE a.err = "none"
    BY <1>2, <1>3, <1>4, <1>5, <1>6, <2>1 DEF Resolving, RightAnswer, At
  <2>2. CASE a.err # "none"
    <3>1. answer'[p].err = "revisionNotFound"
      BY <1>5, <2>2 DEF Answer
    <3>2. None \in named'[p] \/ failed'[p]
      BY <1>2, <1>4, <1>5, <1>6, <2>2 DEF Resolving
    <3>. QED
      BY <1>2, <1>3, <1>4, <1>5, <3>1, <3>2 DEF Resolving, RightAnswer, At
  <2>. QED
    BY <2>1, <2>2
<1>. QED
  BY <1>1, <1>7, StepKeeps


\* A step that is no step of ResolveRevision, and ends none.
LEMMA OtherOpKeeps ==
  ASSUME GitInv, NEW p \in Callers, OnlyOf(p), Domains', pc[p] # "idle",
         call[p].op # "ResolveRevision", fsAt'[p] \in Commits \cup {None}
  PROVE  GitInv'
<1>1. Resolving(p)
  BY DEF GitInv
<1>2. Meanings(call[p].spec)' = Meanings(call[p].spec) /\ BranchHead(call[p].spec)' = BranchHead(call[p].spec)
  BY DEF OnlyOf, refVars, Meanings, BranchHead
<1>3. Resolving(p)'
  BY <1>1, <1>2 DEF OnlyOf, Resolving, At
<1>. QED
  BY <1>3, StepKeeps

LEMMA ReadsKeep ==
  ASSUME GitInv, NEW p \in Callers, GetCommit(p) \/ FileSystem(p)
  PROVE  GitInv'
<1>1. OnlyOf(p) /\ Domains' /\ pc[p] # "idle" /\ call[p].op # "ResolveRevision"
  BY DEF GitInv, Domains, OnlyOf, GetCommit, FileSystem, Returns, At, refVars, history
<1>2. fsAt'[p] \in Commits \cup {None}
  <2>1. CASE GetCommit(p)
    BY <2>1 DEF GitInv, GetCommit
  <2>2. CASE FileSystem(p)
    BY <2>2 DEF GitInv, Domains, FileSystem, Finds
  <2>. QED
    BY <2>1, <2>2
<1>. QED
  BY <1>1, <1>2, OtherOpKeeps

LEMMA BranchesKeep ==
  ASSUME GitInv, NEW p \in Callers, BranchesFilter(p) \/ BranchesList(p) \/ BranchesReturn(p)
  PROVE  GitInv'
<1>1. pc[p] \in {"filter", "list", "listed"}
  BY DEF BranchesFilter, BranchesList, BranchesReturn
<1>2. call[p].op # "ResolveRevision"
  BY <1>1 DEF GitInv, Resolving
<1>3. OnlyOf(p) /\ Domains' /\ fsAt'[p] \in Commits \cup {None}
  BY DEF GitInv, Domains, OnlyOf, BranchesFilter, BranchesList, BranchesReturn, Returns, refVars, history
<1>. QED
  BY <1>1, <1>2, <1>3, OtherOpKeeps

LEMMA UpdateKeeps ==
  ASSUME GitInv, NEW p \in Callers, UpdateBegins(p) \/ UpdateReturns(p)
  PROVE  GitInv'
<1>1. pc[p] # "idle" /\ call[p].op # "ResolveRevision"
  BY DEF GitInv, Resolving, UpdateBegins, UpdateReturns, At
<1>2. OnlyOf(p) /\ Domains' /\ fsAt'[p] \in Commits \cup {None}
  BY DEF GitInv, Domains, OnlyOf, UpdateBegins, UpdateReturns, Returns, refVars, history
<1>. QED
  BY <1>1, <1>2, OtherOpKeeps

\* A ref that moves is noted for every call: what its specifier means from now on,
\* and that something has moved.
LEMMA UpdateRefKeeps == ASSUME GitInv, NEW p \in Callers, UpdateRef(p) PROVE GitInv'
<1>1. UNCHANGED <<call, pc, answer, fsAt, failed>>
  BY DEF UpdateRef
<1>2. named' = [q \in Callers |-> named[q] \cup Meanings(call[q].spec)'] /\ quiet' = [q \in Callers |-> FALSE]
  BY DEF UpdateRef
<1>3. objs' \subseteq Commits
  BY DEF UpdateRef, GitInv, Fetched
<1>4. Domains'
  BY <1>1, <1>2 DEF GitInv, Domains
<1>5. ASSUME NEW q \in Callers PROVE fsAt'[q] \in Commits \cup {None} /\ Resolving(q)'
  <2>1. Resolving(q) /\ fsAt[q] \in Commits \cup {None}
    BY DEF GitInv
  <2>2. named'[q] = named[q] \cup Meanings(call[q].spec)' /\ ~quiet'[q]
    BY <1>2
  <2>3. call'[q] = call[q]
    BY <1>1
  <2>4. Meanings(call[q].spec)' \subseteq named'[q] /\ named[q] \subseteq named'[q]
    BY <2>2
  <2>. QED
    BY <1>1, <2>1, <2>2, <2>3, <2>4 DEF Resolving, RightAnswer, At
<1>. QED
  BY <1>3, <1>4, <1>5 DEF GitInv

LEMMA GitStepKeeps == ASSUME GitInv, NEW p \in Callers, GitStep(p) PROVE GitInv'
BY LookupCommitKeeps, LookupBranchKeeps, LookupTagKeeps, FallbackKeeps, ReadsKeep, BranchesKeep,
   UpdateKeeps, UpdateRefKeeps DEF GitStep

LEMMA FirstPcOfResolve == FirstPc("ResolveRevision") = "commit"
BY DEF FirstPc

LEMMA AskKeeps == ASSUME GitInv, NEW p \in Callers, NEW k, Ask(p, k) PROVE GitInv'
<1>1. heads' = heads /\ tags' = tags /\ objs' = objs /\ fsAt' = fsAt
  BY DEF Ask, refVars
<1>2. Domains'
  BY DEF GitInv, Domains, Ask
<1>3. ASSUME NEW q \in Callers PROVE Resolving(q)'
  <2>1. CASE q = p
    <3>1. call'[p] = k /\ pc'[p] = FirstPc(k.op) /\ named'[p] = Meanings(k.spec)
      BY DEF GitInv, Domains, Ask
    <3>2. Meanings(k.spec)' = Meanings(k.spec)
      BY <1>1 DEF Meanings
    <3>3. k.op = "ResolveRevision" => FirstPc(k.op) = "commit"
      BY FirstPcOfResolve
    <3>4. (Meanings(call[p].spec) \subseteq named[p])'
      BY <1>1, <3>1, <3>2 DEF Meanings
    <3>. QED
      BY <2>1, <3>1, <3>3, <3>4 DEF Resolving, At
  <2>2. CASE q # p
    <3>1. call'[q] = call[q] /\ pc'[q] = pc[q] /\ answer'[q] = answer[q] /\ named'[q] = named[q]
          /\ failed'[q] = failed[q] /\ quiet'[q] = quiet[q]
      BY <2>2 DEF GitInv, Domains, Ask
    <3>2. Meanings(call[q].spec)' = Meanings(call[q].spec) /\ BranchHead(call[q].spec)' = BranchHead(call[q].spec)
      BY <1>1, <3>1 DEF Meanings, BranchHead
    <3>. QED
      BY <3>1, <3>2 DEF GitInv, Resolving, RightAnswer, At
  <2>. QED
    BY <2>1, <2>2
<1>. QED
  BY <1>1, <1>2, <1>3 DEF GitInv


LEMMA GitUnchangedKeeps == ASSUME GitInv, UNCHANGED gitVars PROVE GitInv'
BY DEF gitVars, refVars, history, GitInv, Domains, Resolving, RightAnswer, At, Meanings, BranchHead

LEMMA GitInvInit == Init => GitInv
<1>. SUFFICES ASSUME GitInit PROVE GitInv
  BY DEF Init
<1>1. Domains
  BY DEF GitInit, Domains
<1>2. objs \subseteq Commits
  BY GitRepoAssumption DEF GitInit, Commits
<1>3. ASSUME NEW p \in Callers PROVE fsAt[p] \in Commits \cup {None} /\ Resolving(p)
  <2>1. pc[p] = "idle" /\ fsAt[p] = None
    BY DEF GitInit
  <2>. QED
    BY <2>1 DEF Resolving, At
<1>. QED
  BY <1>1, <1>2, <1>3 DEF GitInv

LEMMA GitInvNext == GitInv /\ [Next]_vars => GitInv'
<1>. SUFFICES ASSUME GitInv, [Next]_vars PROVE GitInv'
  OBVIOUS
<1>1. CASE UNCHANGED gitVars
  BY <1>1, GitUnchangedKeeps
<1>2. CASE GitGoesOn
  BY <1>2, GitStepKeeps DEF GitGoesOn
<1>3. CASE LibraryAsks \/ ToolAsks
  BY <1>3, AskKeeps, ProgramAssumption DEF LibraryAsks, ToolAsks
<1>4. CASE OtherUpdates
  BY <1>4, AskKeeps DEF OtherUpdates, Others
<1>5. CASE StartUp \/ LibraryGets \/ LibraryTraces
  BY <1>1, <1>5 DEF StartUp, LibraryGets, LibraryTraces
<1>6. CASE \/ ToolOpens \/ ToolClones \/ ToolAsserts \/ ToolCalls \/ ToolIsAnswered
           \/ ToolAsksHg \/ ToolDone
  BY <1>1, <1>6 DEF ToolOpens, ToolClones, ToolAsserts, ToolCalls, ToolIsAnswered, ToolAsksHg, ToolDone
<1>7. CASE UNCHANGED vars
  BY <1>1, <1>7 DEF vars
<1>. QED
  BY <1>2, <1>3, <1>4, <1>5, <1>6, <1>7 DEF Next

LEMMA GitInvAlways == Spec => []GitInv
<1>. QED
  BY GitInvInit, GitInvNext, PTL DEF Spec

\* However many callers look up however many names, with lookups that fail and
\* updates that move every ref in between: a commit that the native ResolveRevision
\* returns is one that the specifier meant at a moment of the call, and it misses
\* nothing that was there all along.
THEOREM ResolutionCorrect == Spec => []ResolvesAtSomeMoment
<1>1. GitInv => ResolvesAtSomeMoment
  BY DEF GitInv, Resolving, RightAnswer, ResolvesAtSomeMoment
<1>. QED
  BY <1>1, GitInvAlways, PTL

\* For every tree, the file systems of git and gitcmd tell the same of every path
\* that is in some commit.
THEOREM FileSystemsAgree == Spec => []TreesAgree
<1>1. GitInv => TreesAgree
  <2>. SUFFICES ASSUME GitInv, NEW p \in Callers, fsAt[p] # None,
                       NEW c \in Commits, NEW q \in DOMAIN TreeOf[c] \cup {<< >>}
                PROVE  LET t == TreeOf[fsAt[p]] IN
                       /\ NativeLstat(t, q) = CmdLstat(t, q) /\ NativeStat(t, q) = CmdStatAt(t, q)
                       /\ NativeReadDir(t, q) = CmdReadDirAt(t, q) \/ NativeLstat(t, q).kind = "submodule"
                       /\ NativeOpen(t, q) = CmdOpenAt(t, q) \/ NativeLstat(t, q).kind = "tree"
    BY DEF TreesAgree
  <2>1. IsTree(TreeOf[fsAt[p]])
    BY GitRepoAssumption DEF GitInv
  <2>2. q \in Seq(STRING)
    <3>1. CASE q = << >>
      BY <3>1
    <3>2. CASE q # << >>
      BY <3>2, GitRepoAssumption DEF IsTree
    <3>. QED
      BY <3>1, <3>2
  <2>. QED
    BY <2>1, <2>2, LstatAgrees, StatAgrees, ReadDirAgrees, OpenAgrees
<1>. QED
  BY <1>1, GitInvAlways, PTL


-----------------------------------------------------------------------------
(* Branches under the lock.                                                *)

\* What the two commands that filter print now.
Met(k) ==
  (IF k.merged = "" THEN {} ELSE MergedInto(k.merged)) \cup
  (IF k.contains = None THEN {} ELSE Containing(k.contains))

\* What is listed of them now.
ListOf(s) ==
  {[name |-> b, head |-> heads[b]] : b \in {x \in Existing : s = {} \/ x \in s}}

LockDomains == DOMAIN pc = Callers /\ DOMAIN allowed = Callers /\ DOMAIN answer = Callers

\* Only the editor moves refs; on a shared handle nobody is then between the
\* filter and the list, so that what was filtered is still so.
LockInv ==
  /\ LockDomains
  /\ \A p \in Callers : pc[p] = "update" => editor = p
  /\ sameHandle /\ editor # Nobody => \A p \in Callers : ~InsideLock(p)
  /\ sameHandle => \A p \in Callers :
       /\ InsideLock(p) => allowed[p] = Met(call[p])
       /\ pc[p] = "listed" => answer[p].list = ListOf(allowed[p])

LEMMA LockInvInit == Init => LockInv
BY DEF Init, GitInit, LockInv, LockDomains, InsideLock

\* A step of p's outside the lock, that moves no ref.
LEMMA OutsideKeeps ==
  ASSUME LockInv, NEW p \in Callers,
         UNCHANGED <<heads, sameHandle, editor, call, allowed>>, LockDomains',
         pc'[p] \notin {"list", "listed", "update"},
         \A q \in Callers \ {p} : pc'[q] = pc[q] /\ answer'[q] = answer[q]
  PROVE  LockInv'
<1>1. ASSUME NEW q \in Callers, InsideLock(q)'
      PROVE  /\ q # p /\ InsideLock(q)
             /\ Met(call[q])' = Met(call[q]) /\ ListOf(allowed[q])' = ListOf(allowed[q])
  <2>1. q # p
    BY <1>1 DEF InsideLock
  <2>2. heads' = heads /\ call' = call /\ allowed' = allowed
    OBVIOUS
  <2>3. Met(call[q])' = Met(call[q])
    BY <2>2 DEF Met, MergedInto, Containing, Existing
  <2>4. ListOf(allowed[q])' = ListOf(allowed[q])
    BY <2>2 DEF ListOf, Existing
  <2>. QED
    BY <1>1, <2>1, <2>3, <2>4 DEF InsideLock
<1>2. (\A q \in Callers : pc[q] = "update" => editor = q)'
  BY DEF LockInv
<1>3. (sameHandle /\ editor # Nobody => \A q \in Callers : ~InsideLock(q))'
  BY <1>1 DEF LockInv
<1>4. (sameHandle => \A q \in Callers :
         /\ InsideLock(q) => allowed[q] = Met(call[q])
         /\ pc[q] = "listed" => answer[q].list = ListOf(allowed[q]))'
  <2>. SUFFICES ASSUME sameHandle', NEW q \in Callers, InsideLock(q)'
       PROVE  /\ allowed'[q] = Met(call[q])'
              /\ pc'[q] = "listed" => answer'[q].list = ListOf(allowed[q])'
    BY DEF InsideLock
  <2>. QED
    BY <1>1 DEF LockInv
<1>. QED
  BY <1>2, <1>3, <1>4 DEF LockInv

LEMMA LookupsOutside ==
  ASSUME LockInv, NEW p \in Callers,
         \/ LookupCommit(p) \/ LookupBranch(p) \/ LookupTag(p) \/ Fallback(p)
         \/ GetCommit(p) \/ FileSystem(p) \/ BranchesReturn(p)
  PROVE  LockInv'
<1>1. /\ UNCHANGED <<heads, sameHandle, editor, call, allowed>> /\ LockDomains'
      /\ \A q \in Callers \ {p} : pc'[q] = pc[q] /\ answer'[q] = answer[q]
      /\ pc'[p] \notin {"list", "listed", "update"}
  BY DEF LockInv, LockDomains, LookupCommit, LookupBranch, LookupTag, Fallback, GetCommit,
         FileSystem, BranchesReturn, Returns, refVars
<1>. QED
  BY <1>1, OutsideKeeps

\* A call begins outside the lock, whatever its method.
LEMMA FirstPcOutside == ASSUME NEW op PROVE FirstPc(op) \notin {"list", "listed", "update"}
BY DEF FirstPc

LEMMA AskOutside ==
  ASSUME LockInv, NEW p \in Callers, NEW k, Ask(p, k) PROVE LockInv'
<1>1. /\ UNCHANGED <<heads, sameHandle, editor, allowed>> /\ LockDomains'
      /\ pc[p] \in {"idle", "done"} /\ pc'[p] = FirstPc(k.op)
      /\ \A q \in Callers \ {p} : pc'[q] = pc[q] /\ answer'[q] = answer[q] /\ call'[q] = call[q]
  BY DEF LockInv, LockDomains, Ask, refVars
<1>2. pc'[p] \notin {"list", "listed", "update"}
  BY <1>1, FirstPcOutside
<1>3. ASSUME NEW q \in Callers, InsideLock(q)'
      PROVE  /\ q # p /\ InsideLock(q)
             /\ (Met(call[q]))' = Met(call[q]) /\ (ListOf(allowed[q]))' = ListOf(allowed[q])
  <2>1. q # p
    BY <1>2, <1>3 DEF InsideLock
  <2>2. heads' = heads /\ call'[q] = call[q] /\ allowed' = allowed
    BY <1>1, <2>1
  <2>3. (Met(call[q]))' = Met(call[q])
    BY <2>2 DEF Met, MergedInto, Containing, Existing
  <2>4. (ListOf(allowed[q]))' = ListOf(allowed[q])
    BY <2>2 DEF ListOf, Existing
  <2>. QED
    BY <1>1, <1>3, <2>1, <2>3, <2>4 DEF InsideLock
<1>4. (\A q \in Callers : pc[q] = "update" => editor = q)'
  BY <1>1, <1>2 DEF LockInv
<1>5. (sameHandle /\ editor # Nobody => \A q \in Callers : ~InsideLock(q))'
  BY <1>1, <1>3 DEF LockInv
<1>6. (sameHandle => \A q \in Callers :
         /\ InsideLock(q) => allowed[q] = Met(call[q])
         /\ pc[q] = "listed" => answer[q].list = ListOf(allowed[q]))'
  <2>. SUFFICES ASSUME sameHandle', NEW q \in Callers, InsideLock(q)'
       PROVE  /\ allowed'[q] = (Met(call[q]))'
              /\ pc'[q] = "listed" => answer'[q].list = (ListOf(allowed[q]))'
    BY DEF InsideLock
  <2>. QED
    BY <1>1, <1>3 DEF LockInv
<1>. QED
  BY <1>1, <1>4, <1>5, <1>6 DEF LockInv

\* The steps under the lock: the lists of the others stay, and p's is right.
LEMMA InsideKeeps ==
  ASSUME LockInv, NEW p \in Callers, UNCHANGED <<heads, sameHandle, editor, call>>, LockDomains',
         Locked(p), pc'[p] \in {"list", "listed"},
         allowed'[p] = Met(call[p]),
         pc'[p] = "listed" => answer'[p].list = ListOf(allowed'[p]),
         \A q \in Callers \ {p} :
           pc'[q] = pc[q] /\ answer'[q] = answer[q] /\ allowed'[q] = allowed[q]
  PROVE  LockInv'
<1>1. ASSUME NEW q \in Callers PROVE (Met(call[q]))' = Met(call[q])
  BY DEF Met, MergedInto, Containing, Existing
<1>2. ASSUME NEW q \in Callers PROVE (ListOf(allowed[q]))' = ListOf(allowed'[q])
  BY DEF ListOf, Existing
<1>3. (\A q \in Callers : pc[q] = "update" => editor = q)'
  BY DEF LockInv
<1>4. (sameHandle /\ editor # Nobody => \A q \in Callers : ~InsideLock(q))'
  BY DEF Locked
<1>5. (sameHandle => \A q \in Callers :
         /\ InsideLock(q) => allowed[q] = Met(call[q])
         /\ pc[q] = "listed" => answer[q].list = ListOf(allowed[q]))'
  <2>. SUFFICES ASSUME sameHandle', NEW q \in Callers
       PROVE  /\ InsideLock(q)' => allowed'[q] = (Met(call[q]))'
              /\ pc'[q] = "listed" => answer'[q].list = (ListOf(allowed[q]))'
    OBVIOUS
  <2>1. CASE q = p
    BY <1>1, <1>2, <2>1
  <2>2. CASE q # p
    BY <1>1, <1>2, <2>2 DEF LockInv, InsideLock
  <2>. QED
    BY <2>1, <2>2
<1>. QED
  BY <1>3, <1>4, <1>5 DEF LockInv

LEMMA BranchesFilterLocked ==
  ASSUME LockInv, NEW p \in Callers, BranchesFilter(p) PROVE LockInv'
<1>1. /\ UNCHANGED <<heads, sameHandle, editor, call>> /\ LockDomains' /\ Locked(p)
      /\ \A q \in Callers \ {p} :
           pc'[q] = pc[q] /\ answer'[q] = answer[q] /\ allowed'[q] = allowed[q]
  BY DEF LockInv, LockDomains, BranchesFilter, Returns, refVars
<1>2. CASE pc'[p] = "list" /\ allowed'[p] = Met(call[p])
  BY <1>1, <1>2, InsideKeeps
<1>3. CASE pc'[p] = "done" /\ allowed' = allowed
  BY <1>1, <1>3, OutsideKeeps
<1>. QED
  BY <1>2, <1>3 DEF LockInv, LockDomains, BranchesFilter, Returns, Met

LEMMA BranchesListLocked ==
  ASSUME LockInv, NEW p \in Callers, BranchesList(p) PROVE LockInv'
<1>1. /\ UNCHANGED <<heads, sameHandle, editor, call, allowed>> /\ LockDomains'
      /\ pc[p] = "list" /\ pc'[p] = "listed"
      /\ \A q \in Callers \ {p} : pc'[q] = pc[q] /\ answer'[q] = answer[q]
  BY DEF LockInv, LockDomains, BranchesList, refVars
<1>2. answer'[p].list = {[name |-> b, head |-> heads[b]] : b \in {x \in Existing : Allows(p, x)}}
  BY DEF LockInv, LockDomains, BranchesList
<1>3. answer'[p].list = ListOf(allowed[p])
  BY <1>2 DEF ListOf, Allows
<1>4. CASE sameHandle
  <2>1. InsideLock(p)
    BY <1>1 DEF InsideLock
  <2>2. Locked(p) /\ allowed[p] = Met(call[p])
    BY <1>4, <2>1 DEF LockInv, Locked
  <2>. QED
    BY <1>1, <1>3, <2>2, InsideKeeps
<1>5. CASE ~sameHandle
  BY <1>1, <1>5 DEF LockInv
<1>. QED
  BY <1>4, <1>5

\* An edit through a shared handle begins when nobody is inside, and while it goes
\* on nobody comes in.
LEMMA UpdatesLocked ==
  ASSUME LockInv, NEW p \in Callers, UpdateBegins(p) \/ UpdateRef(p) \/ UpdateReturns(p)
  PROVE  LockInv'
<1>1. CASE UpdateBegins(p)
  <2>1. /\ sameHandle' = sameHandle /\ LockDomains' /\ editor' = p /\ pc'[p] = "update"
        /\ editor = Nobody /\ \A q \in Callers \ {p} : pc'[q] = pc[q]
        /\ sameHandle => \A q \in Callers : ~InsideLock(q)
    BY <1>1 DEF LockInv, LockDomains, UpdateBegins
  <2>2. \A q \in Callers : pc[q] # "update"
    BY <2>1, GitRepoAssumption DEF LockInv
  <2>. QED
    BY <2>1, <2>2 DEF LockInv, InsideLock
<1>2. CASE UpdateRef(p)
  <2>1. /\ UNCHANGED <<sameHandle, editor, call, pc, allowed, answer>> /\ pc[p] = "update"
    BY <1>2 DEF UpdateRef
  <2>2. editor # Nobody
    BY <2>1, GitRepoAssumption DEF LockInv
  <2>. QED
    BY <2>1, <2>2 DEF LockInv, LockDomains, InsideLock
<1>3. CASE UpdateReturns(p)
  <2>1. /\ sameHandle' = sameHandle /\ LockDomains' /\ editor' = Nobody /\ pc'[p] = "done"
        /\ pc[p] = "update" /\ \A q \in Callers \ {p} : pc'[q] = pc[q]
    BY <1>3 DEF LockInv, LockDomains, UpdateReturns, Returns
  <2>2. editor = p
    BY <2>1 DEF LockInv
  <2>3. sameHandle => \A q \in Callers : ~InsideLock(q)
    BY <2>2, GitRepoAssumption DEF LockInv
  <2>4. \A q \in Callers : q # p => pc'[q] # "update"
    BY <2>1, <2>2 DEF LockInv
  <2>. QED
    BY <2>1, <2>3, <2>4 DEF LockInv, InsideLock
<1>. QED
  BY <1>1, <1>2, <1>3

LEMMA UnchangedLocked == ASSUME LockInv, UNCHANGED gitVars PROVE LockInv'
<1>1. UNCHANGED <<heads, sameHandle, editor, call, pc, allowed, answer>>
  BY DEF gitVars, refVars
<1>2. ASSUME NEW q \in Callers
      PROVE  (Met(call[q]))' = Met(call[q]) /\ (ListOf(allowed[q]))' = ListOf(allowed[q])
  BY <1>1 DEF Met, ListOf, MergedInto, Containing, Existing
<1>. QED
  BY <1>1, <1>2 DEF LockInv, LockDomains, InsideLock

LEMMA LockInvNext == LockInv /\ [Next]_vars => LockInv'
<1>. SUFFICES ASSUME LockInv, [Next]_vars PROVE LockInv'
  OBVIOUS
<1>1. CASE UNCHANGED gitVars
  BY <1>1, UnchangedLocked
<1>2. CASE GitGoesOn
  BY <1>2, LookupsOutside, BranchesFilterLocked, BranchesListLocked, UpdatesLocked
     DEF GitGoesOn, GitStep
<1>3. CASE LibraryAsks \/ ToolAsks
  BY <1>3, AskOutside, ProgramAssumption DEF LibraryAsks, ToolAsks
<1>4. CASE OtherUpdates
  BY <1>4, AskOutside DEF OtherUpdates, Others
<1>5. CASE StartUp \/ LibraryGets \/ LibraryTraces
  BY <1>1, <1>5 DEF StartUp, LibraryGets, LibraryTraces
<1>6. CASE \/ ToolOpens \/ ToolClones \/ ToolAsserts \/ ToolCalls \/ ToolIsAnswered
           \/ ToolAsksHg \/ ToolDone
  BY <1>1, <1>6 DEF ToolOpens, ToolClones, ToolAsserts, ToolCalls, ToolIsAnswered, ToolAsksHg, ToolDone
<1>7. CASE UNCHANGED vars
  BY <1>1, <1>7 DEF vars
<1>. QED
  BY <1>2, <1>3, <1>4, <1>5, <1>6, <1>7 DEF Next

\* A branch that meets the filters given is one that a command has printed, unless
\* none is given.
LEMMA MetIsFiltered == LockInv => BranchesFiltered
<1>. SUFFICES ASSUME LockInv, NEW p \in Callers, pc[p] = "listed", sameHandle
     PROVE  /\ \A e \in answer[p].list : e.name \in Existing /\ e.head = heads[e.name]
            /\ \A b \in Existing :
                 MeetsFilters(call[p], b) => [name |-> b, head |-> heads[b]] \in answer[p].list
  BY DEF BranchesFiltered
<1>. DEFINE passed == {x \in Existing : Met(call[p]) = {} \/ x \in Met(call[p])}
<1>1. answer[p].list = {[name |-> b, head |-> heads[b]] : b \in passed}
  BY DEF LockInv, InsideLock, ListOf
<1>2. ASSUME NEW b \in Existing, MeetsFilters(call[p], b) PROVE b \in passed
  BY <1>2 DEF MeetsFilters, Met
<1>. QED
  BY <1>1, <1>2

\* However many goroutines share a handle and however often it is updated: the
\* list that Branches returns is of one moment, though two or three commands make
\* it: it holds branches and heads that are, and all that meet the filters.
THEOREM BranchesUnderLock == Spec => []BranchesFiltered
BY LockInvInit, LockInvNext, MetIsFiltered, PTL DEF Spec

-----------------------------------------------------------------------------
(* Traced handles.                                                         *)

\* What is registered is a package, and what a wrapped handle offers is settled by
\* the first wrapping.
HandleInv ==
  /\ \A v \in DOMAIN openers : openers[v] \in Packages
  /\ \A v \in DOMAIN cloners : cloners[v] \in Packages
  /\ wrapped \in Nat
  /\ handle = NoHandle => wrapped = 0
  /\ handle # NoHandle => handle.pkg \in Packages
  /\ TracedHandleWorks

\* Wrapping keeps what the longest case of the switch needs.
LEMMA WrapAll == Wrap(Interfaces) = Interfaces
BY DEF Wrap, Interfaces

LEMMA OptionalIs ==
  /\ Len(Optional) = 9 /\ Optional[1] = "Blamer" /\ Optional[2] = "Differ"
  /\ Optional[3] = "CrossRepoDiffer"
BY DEF Optional

LEMMA OffersAre ==
  ASSUME NEW pkg \in Packages
  PROVE  /\ {"Blamer", "Differ"} \subseteq Offers(pkg)
         /\ VcsOf(pkg) = "git" => Offers(pkg) = Interfaces
<1>1. {"Blamer", "Differ"} \subseteq Interfaces
  BY OptionalIs DEF Interfaces
<1>. QED
  BY <1>1 DEF Offers

LEMMA WrapHg ==
  ASSUME NEW s, s = {"Blamer", "Differ", "RemoteUpdater"} \/ s = {"Blamer", "Differ"}
  PROVE  Wrap(s) = {"Blamer", "Differ"}
<1>. DEFINE cases == {j \in 1 .. 9 : \A k \in 1 .. j : Optional[k] \in s}
<1>1. 1 \in cases /\ 2 \in cases
  BY OptionalIs
<1>2. ASSUME NEW j \in cases PROVE j = 1 \/ j = 2
  <2>1. 3 \notin 1 .. j
    BY OptionalIs
  <2>. QED
    BY <2>1
<1>3. cases = {1, 2}
  BY <1>1, <1>2
<1>4. Wrap(s) = {Optional[i] : i \in cases}
  BY OptionalIs DEF Wrap
<1>. QED
  BY <1>3, <1>4, OptionalIs

LEMMA RegisterPackage ==
  ASSUME NEW table, \A v \in DOMAIN table : table[v] \in Packages, NEW kind, NEW pkg \in Packages
  PROVE  \A v \in DOMAIN Register(table, kind, pkg) : Register(table, kind, pkg)[v] \in Packages
BY DEF Register

LEMMA InitPackageHandles ==
  ASSUME HandleInv, NEW pkg \in Packages, InitPackage(pkg) PROVE HandleInv'
<1>1. UNCHANGED <<handle, wrapped>>
  BY DEF InitPackage
<1>2. openers' = Register(openers, VcsOf(pkg), pkg)
      /\ (cloners' = cloners \/ cloners' = Register(cloners, VcsOf(pkg), pkg))
  BY DEF InitPackage
<1>3. (\A v \in DOMAIN openers : openers[v] \in Packages)'
  BY <1>2, RegisterPackage DEF HandleInv
<1>4. (\A v \in DOMAIN cloners : cloners[v] \in Packages)'
  BY <1>2, RegisterPackage DEF HandleInv
<1>5. TracedHandleWorks'
  BY <1>1 DEF HandleInv, TracedHandleWorks
<1>. QED
  BY <1>1, <1>3, <1>4, <1>5 DEF HandleInv

LEMMA GetHandles ==
  ASSUME HandleInv, NEW table, \A v \in DOMAIN table : table[v] \in Packages, NEW kind,
         Get(table, kind)
  PROVE  HandleInv'
<1>1. UNCHANGED <<openers, cloners, wrapped>> /\ handle = NoHandle /\ wrapped = 0
  BY DEF Get, HandleInv
<1>2. CASE handle' = NoHandle
  BY <1>1, <1>2 DEF HandleInv, TracedHandleWorks
<1>3. CASE handle' # NoHandle
  <2>1. Lookup(table, kind) # "unsupported"
        /\ handle' = [pkg |-> table[kind], offers |-> Offers(table[kind])]
    BY <1>1, <1>3 DEF Get
  <2>2. table[kind] \in Packages
    BY <2>1 DEF Lookup
  <2>3. TracedHandleWorks'
    BY <2>1, <2>2, OffersAre DEF TracedHandleWorks
  <2>. QED
    BY <1>1, <1>3, <2>1, <2>2, <2>3 DEF HandleInv
<1>. QED
  BY <1>2, <1>3

LEMMA TraceHandles == ASSUME HandleInv, Trace PROVE HandleInv'
<1>1. /\ UNCHANGED <<openers, cloners>> /\ handle # NoHandle /\ handle.pkg \in Packages
      /\ wrapped' = wrapped + 1 /\ wrapped \in Nat
  BY DEF Trace, HandleInv
<1>2. handle' = [pkg |-> handle.pkg, offers |-> Wrap(handle.offers)]
  BY DEF Trace
<1>3. /\ handle.offers \subseteq Offers(handle.pkg) /\ {"Blamer", "Differ"} \subseteq handle.offers
      /\ VcsOf(handle.pkg) = "git" => handle.offers = Interfaces
  BY <1>1 DEF HandleInv, TracedHandleWorks
<1>4. /\ Wrap(handle.offers) \subseteq Offers(handle.pkg)
      /\ {"Blamer", "Differ"} \subseteq Wrap(handle.offers)
      /\ VcsOf(handle.pkg) = "git" => Wrap(handle.offers) = Interfaces
  <2>1. CASE handle.pkg \in {"hg", "hgcmd"}
    <3>1. VcsOf(handle.pkg) = "hg" /\ Offers(handle.pkg) = {"Blamer", "Differ", "RemoteUpdater"}
      BY <2>1 DEF Offers, VcsOf
    <3>2. handle.offers = {"Blamer", "Differ", "RemoteUpdater"} \/ handle.offers = {"Blamer", "Differ"}
      BY <1>3, <3>1
    <3>. QED
      BY <3>1, <3>2, WrapHg
  <2>2. CASE handle.pkg \in {"git", "gitcmd"}
    <3>1. VcsOf(handle.pkg) = "git" /\ Offers(handle.pkg) = Interfaces
      BY <2>2 DEF Offers, VcsOf
    <3>2. {"Blamer", "Differ"} \subseteq Interfaces
      BY <1>3, <3>1
    <3>. QED
      BY <1>3, <3>1, <3>2, WrapAll
  <2>. QED
    BY <1>1, <2>1, <2>2 DEF Packages
<1>5. handle' # NoHandle
  BY <1>1, <1>2 DEF NoHandle, Packages
<1>6. TracedHandleWorks'
  BY <1>1, <1>2, <1>4 DEF TracedHandleWorks
<1>. QED
  BY <1>1, <1>2, <1>5, <1>6 DEF HandleInv

LEMMA HandleInvInit == Init => HandleInv
BY DEF Init, HandlesInit, HandleInv, Nothing, NoHandle, TracedHandleWorks

LEMMA HandleInvNext == HandleInv /\ [Next]_vars => HandleInv'
<1>. SUFFICES ASSUME HandleInv, [Next]_vars PROVE HandleInv'
  OBVIOUS
<1>1. CASE UNCHANGED handleVars
  BY <1>1 DEF handleVars, HandleInv, TracedHandleWorks
<1>2. CASE StartUp
  BY <1>2, InitPackageHandles DEF StartUp
<1>3. ASSUME NEW v, Get(openers, v) \/ Get(cloners, v) PROVE HandleInv'
  BY <1>3, GetHandles DEF HandleInv
<1>4. CASE LibraryGets \/ ToolClones
  BY <1>1, <1>3, <1>4 DEF LibraryGets, ToolClones
<1>5. CASE ToolOpens
  BY <1>1, <1>3, <1>5 DEF ToolOpens
<1>6. CASE LibraryTraces
  BY <1>6, TraceHandles DEF LibraryTraces
<1>7. CASE LibraryAsks \/ ToolAsks \/ OtherUpdates \/ GitGoesOn
  BY <1>1, <1>7 DEF LibraryAsks, ToolAsks, OtherUpdates, GitGoesOn
<1>8. CASE ToolAsserts \/ ToolCalls \/ ToolIsAnswered \/ ToolAsksHg \/ ToolDone
  BY <1>1, <1>8 DEF ToolAsserts, ToolCalls, ToolIsAnswered, ToolAsksHg, ToolDone
<1>9. CASE UNCHANGED vars
  BY <1>1, <1>9 DEF vars
<1>. QED
  BY <1>2, <1>4, <1>5, <1>6, <1>7, <1>8, <1>9 DEF Next

\* Whatever a program imports, in whatever order its packages start, and however
\* often it wraps its handle: a traced handle offers no interface that the handle
\* underneath lacks, one of git all that it has, and one of hg Blamer and Differ.
THEOREM TracedHandles == Spec => []TracedHandleWorks
<1>1. HandleInv => TracedHandleWorks
  BY DEF HandleInv
<1>. QED
  BY <1>1, HandleInvInit, HandleInvNext, PTL DEF Spec

-----------------------------------------------------------------------------
(* Types of a git repository and the calls of it.                          *)

\* The calls that ask for one commit.
Readers == {"GetCommit", "FileSystem"}

IsAnswer(a) ==
  a = [err |-> a.err, id |-> a.id, list |-> a.list] /\ a.id \in objs \cup {Empty}

\* A call answers with commits that are in the store, and finds none that is not.
CallTyped(p) ==
  /\ pc[p] \in PCs /\ call[p].spec \in Specs
  /\ IsAnswer(answer[p]) /\ fsAt[p] \in objs \cup {None}
  /\ call[p].op \in Readers =>
       /\ pc[p] \in {"idle", "call", "done"}
       /\ pc[p] = "done" /\ answer[p].err = "none" => call[p].id \in objs

\* Each ref points to a commit that has been fetched.
GitTypes ==
  /\ objs \subseteq Commits
  /\ heads \in [Names -> objs \cup {None}] /\ tags \in [Names -> objs \cup {None}]
  /\ editor \in Callers \cup {Nobody}
  /\ DOMAIN pc = Callers /\ pc \in [Callers -> PCs]
  /\ DOMAIN call = Callers /\ DOMAIN answer = Callers /\ DOMAIN fsAt = Callers
  /\ \A p \in Callers : CallTyped(p)

LEMMA GitTypesInit == Init => GitTypes
<1>. SUFFICES ASSUME GitInit PROVE GitTypes
  BY DEF Init
<1>1. objs = {0} /\ objs \subseteq Commits
  BY GitRepoAssumption DEF GitInit, Commits
<1>2. heads \in [Names -> objs \cup {None}] /\ tags \in [Names -> objs \cup {None}]
  BY <1>1 DEF GitInit
<1>3. ASSUME NEW p \in Callers PROVE CallTyped(p)
  <2>1. /\ pc[p] = "idle" /\ call[p] = NoCall /\ answer[p] = NoAnswer /\ fsAt[p] = None
    BY DEF GitInit
  <2>2. IsAnswer(NoAnswer)
    BY DEF IsAnswer, NoAnswer, Answer
  <2>3. NoCall.op = "none" /\ NoCall.spec = Dashed
    BY DEF NoCall, About, Request
  <2>4. Dashed \in Specs
    BY DEF Specs
  <2>. QED
    BY <2>1, <2>2, <2>3, <2>4 DEF CallTyped, PCs, Readers
<1>. QED
  BY <1>1, <1>2, <1>3 DEF GitInit, GitTypes, PCs

\* What a specifier means has been fetched.
LEMMA MeaningsFetched ==
  ASSUME GitTypes, NEW spec \in Specs
  PROVE  Meanings(spec) \subseteq objs \cup {None}
<1>. DEFINE found == CASE spec.kind = "id"        -> {spec.id} \cap objs
                     [] spec.kind = "dashed"    -> {}
                     [] spec = SpecName("HEAD") -> {heads[Main]} \ {None}
                     [] OTHER                   -> {heads[spec.name], tags[spec.name]} \ {None}
<1>1. Meanings(spec) = IF found = {} THEN {None} ELSE found
  BY DEF Meanings
<1>2. CASE spec.kind = "id"
  <2>1. spec.kind # "dashed" /\ spec # SpecName("HEAD")
    BY <1>2 DEF SpecName
  <2>2. found = {spec.id} \cap objs
    BY <1>2, <2>1
  <2>. QED
    BY <1>1, <2>2
<1>3. CASE spec = Dashed
  <2>1. spec.kind # "id" /\ spec.kind = "dashed" /\ spec # SpecName("HEAD")
    BY <1>3 DEF Dashed, SpecName
  <2>2. found = {}
    BY <2>1
  <2>. QED
    BY <1>1, <2>2
<1>4. CASE spec = SpecName("HEAD")
  <2>1. spec.kind # "id" /\ spec.kind # "dashed"
    BY <1>4 DEF SpecName
  <2>2. found = {heads[Main]} \ {None}
    BY <1>4, <2>1
  <2>3. heads[Main] \in objs \cup {None}
    BY GitRepoAssumption DEF GitTypes
  <2>. QED
    BY <1>1, <2>2, <2>3
<1>5. ASSUME NEW x \in Names, spec = SpecName(x) PROVE Meanings(spec) \subseteq objs \cup {None}
  <2>1. spec.kind # "id" /\ spec.kind # "dashed" /\ spec # SpecName("HEAD") /\ spec.name = x
    BY <1>5, GitRepoAssumption DEF SpecName
  <2>2. found = {heads[spec.name], tags[spec.name]} \ {None}
    BY <2>1
  <2>3. heads[x] \in objs \cup {None} /\ tags[x] \in objs \cup {None}
    BY DEF GitTypes
  <2>. QED
    BY <1>1, <2>1, <2>2, <2>3
<1>. QED
  <2>1. \/ \E c \in Commits : spec = Spec40(c)
        \/ spec = Dashed \/ spec = SpecName("HEAD")
        \/ \E x \in Names : spec = SpecName(x)
    BY DEF Specs
  <2>2. ASSUME NEW c \in Commits, spec = Spec40(c) PROVE spec.kind = "id"
    BY <2>2 DEF Spec40
  <2>3. (\E x \in Names : spec = SpecName(x)) => Meanings(spec) \subseteq objs \cup {None}
    BY <1>5
  <2>. QED
    BY <1>2, <1>3, <1>4, <2>1, <2>2, <2>3

LEMMA RevisionAnswerTyped ==
  ASSUME GitTypes, NEW spec \in Specs, NEW a \in RevisionAnswers(spec)
  PROVE  IsAnswer(a) /\ IsAnswer(TagAnswer(a))
<1>1. RevParse(spec) \in objs \cup {None}
  BY RevParseMeans, MeaningsFetched
<1>2. a = Answer("failed", Empty) \/ a = Answer("revisionNotFound", Empty)
      \/ (a = Answer("none", RevParse(spec)) /\ RevParse(spec) # None)
  BY DEF RevisionAnswers
<1>3. a = [err |-> a.err, id |-> a.id, list |-> a.list] /\ a.id \in objs \cup {Empty}
  BY <1>1, <1>2 DEF Answer
<1>4. TagAnswer(a) = Answer("tagNotFound", Empty) \/ TagAnswer(a) = Answer("none", a.id)
  BY DEF TagAnswer
<1>. QED
  BY <1>3, <1>4 DEF IsAnswer, Answer

\* What is left to show of a step of p's that moves no ref.
LEMMA TypedStep ==
  ASSUME GitTypes, NEW p \in Callers, UNCHANGED <<refVars, call>>,
         editor' \in Callers \cup {Nobody},
         DOMAIN pc' = Callers, pc' = [q \in Callers |-> pc'[q]],
         DOMAIN answer' = Callers, DOMAIN fsAt' = Callers, CallTyped(p)',
         \A q \in Callers \ {p} : pc'[q] = pc[q] /\ answer'[q] = answer[q] /\ fsAt'[q] = fsAt[q]
  PROVE  GitTypes'
<1>1. heads' = heads /\ tags' = tags /\ objs' = objs /\ call' = call
  BY DEF refVars
<1>2. ASSUME NEW q \in Callers PROVE CallTyped(q)'
  <2>1. CASE q # p
    BY <1>1, <2>1 DEF GitTypes, CallTyped, IsAnswer
  <2>. QED
    BY <2>1
<1>3. pc' \in [Callers -> PCs]
  BY <1>2 DEF CallTyped
<1>. QED
  BY <1>1, <1>2, <1>3 DEF GitTypes

LEMMA LookupCommitTyped == ASSUME GitTypes, NEW p \in Callers, LookupCommit(p) PROVE GitTypes'
<1>1. CallTyped(p) /\ call[p].op = "ResolveRevision"
  BY DEF GitTypes, LookupCommit, At
<1>2. PICK found \in IF call[p].spec.kind = "id" THEN Finds(call[p].spec.id) ELSE {FALSE} :
        IF found
        THEN Returns(p, Answer("none", call[p].spec.id))
        ELSE pc' = [pc EXCEPT ![p] = "branch"] /\ UNCHANGED answer
  BY DEF LookupCommit
<1>3. UNCHANGED <<heads, tags, objs, editor, call, fsAt>>
  BY DEF LookupCommit, refVars
<1>4. CallTyped(p)'
  <2>1. CASE found
    <3>1. call[p].spec.id \in objs
      BY <1>2, <2>1 DEF Finds
    <3>. QED
      BY <1>1, <1>2, <1>3, <2>1, <3>1 DEF GitTypes, CallTyped, IsAnswer, Returns, Answer, PCs, Readers
  <2>2. CASE ~found
    BY <1>1, <1>2, <1>3, <2>2 DEF GitTypes, CallTyped, IsAnswer, PCs, Readers
  <2>. QED
    BY <2>1, <2>2
<1>. QED
  BY <1>2, <1>3, <1>4, TypedStep DEF GitTypes, Returns, refVars

LEMMA LookupBranchTyped == ASSUME GitTypes, NEW p \in Callers, LookupBranch(p) PROVE GitTypes'
<1>1. CallTyped(p) /\ pc[p] = "branch" /\ call[p].op \notin Readers
  BY DEF GitTypes, LookupBranch, CallTyped
<1>2. UNCHANGED <<heads, tags, objs, editor, call, fsAt>>
  BY DEF LookupBranch, refVars
<1>3. BranchHead(call[p].spec) \in objs \cup {None}
  BY DEF GitTypes, BranchHead
<1>4. \/ /\ pc' = [pc EXCEPT ![p] = "tag"] /\ answer' = answer
      \/ /\ pc' = [pc EXCEPT ![p] = "done"]
         /\ \E err, id : /\ id \in objs \cup {Empty}
                         /\ answer' = [answer EXCEPT ![p] = Answer(err, id)]
  BY <1>3 DEF LookupBranch, Returns
<1>5. CallTyped(p)'
  BY <1>1, <1>2, <1>4 DEF GitTypes, CallTyped, IsAnswer, Answer, PCs
<1>. QED
  BY <1>2, <1>4, <1>5, TypedStep DEF GitTypes, refVars

LEMMA LookupTagTyped ==
  ASSUME GitTypes, NEW p \in Callers, LookupTag(p) \/ Fallback(p) PROVE GitTypes'
<1>1. CallTyped(p) /\ pc[p] \in {"tag", "fallback"} /\ call[p].op \notin Readers
  BY DEF GitTypes, LookupTag, Fallback, CallTyped
<1>2. UNCHANGED <<heads, tags, objs, editor, call, fsAt>>
  BY DEF LookupTag, Fallback, refVars
<1>3. \/ /\ pc' = [pc EXCEPT ![p] = "fallback"] /\ answer' = answer
      \/ /\ pc' = [pc EXCEPT ![p] = "done"]
         /\ \E a \in RevisionAnswers(call[p].spec) :
              \/ answer' = [answer EXCEPT ![p] = TagAnswer(a)]
              \/ answer' = [answer EXCEPT ![p] = a]
              \/ answer' = [answer EXCEPT ![p] = Answer("revisionNotFound", Empty)]
  BY DEF LookupTag, Fallback, Returns
<1>4. pc'[p] \in {"done", "fallback"} /\ IsAnswer(answer'[p])
  <2>1. IsAnswer(answer[p])
    BY <1>1 DEF CallTyped
  <2>2. \A a \in RevisionAnswers(call[p].spec) : IsAnswer(a) /\ IsAnswer(TagAnswer(a))
    BY <1>1, RevisionAnswerTyped DEF CallTyped
  <2>3. IsAnswer(Answer("revisionNotFound", Empty))
    BY DEF IsAnswer, Answer
  <2>. QED
    BY <1>3, <2>1, <2>2, <2>3 DEF GitTypes
<1>5. CallTyped(p)'
  BY <1>1, <1>2, <1>4 DEF CallTyped, IsAnswer, PCs
<1>. QED
  BY <1>2, <1>3, <1>5, TypedStep DEF GitTypes, refVars

LEMMA ReadsTyped ==
  ASSUME GitTypes, NEW p \in Callers, GetCommit(p) \/ FileSystem(p) PROVE GitTypes'
<1>1. CallTyped(p) /\ call[p].op \in Readers
  BY DEF GitTypes, GetCommit, FileSystem, At, Readers
<1>2. UNCHANGED <<heads, tags, objs, editor, call>>
  BY DEF GetCommit, FileSystem, refVars
<1>3. /\ pc' = [pc EXCEPT ![p] = "done"]
      /\ \/ /\ call[p].id \in objs
            /\ answer' = [answer EXCEPT ![p] = Answer("none", call[p].id)]
            /\ fsAt' = fsAt \/ fsAt' = [fsAt EXCEPT ![p] = call[p].id]
         \/ /\ answer' = [answer EXCEPT ![p] = Answer("commitNotFound", Empty)]
               \/ answer' = [answer EXCEPT ![p] = Answer("failed", Empty)]
            /\ fsAt' = fsAt
  <2>1. ASSUME NEW found \in Finds(call[p].id), found PROVE call[p].id \in objs
    BY <2>1 DEF Finds
  <2>. QED
    BY <2>1 DEF GetCommit, FileSystem, Returns
<1>4. CallTyped(p)'
  <2>1. pc'[p] = "done" /\ fsAt'[p] \in objs \cup {None}
    BY <1>1, <1>3 DEF GitTypes, CallTyped
  <2>2. IsAnswer(answer'[p]) /\ (answer'[p].err = "none" => call[p].id \in objs)
    BY <1>3 DEF GitTypes, IsAnswer, Answer
  <2>. QED
    BY <1>1, <1>2, <2>1, <2>2 DEF CallTyped, IsAnswer, PCs
<1>. QED
  BY <1>2, <1>3, <1>4, TypedStep DEF GitTypes, refVars

LEMMA BranchesTyped ==
  ASSUME GitTypes, NEW p \in Callers, BranchesFilter(p) \/ BranchesList(p) \/ BranchesReturn(p)
  PROVE  GitTypes'
<1>1. CallTyped(p) /\ call[p].op \notin Readers
  BY DEF GitTypes, BranchesFilter, BranchesList, BranchesReturn, CallTyped
<1>2. UNCHANGED <<heads, tags, objs, editor, call, fsAt>>
  BY DEF BranchesFilter, BranchesList, BranchesReturn, refVars
<1>3. /\ \E w \in {"list", "listed", "done"} : pc' = [pc EXCEPT ![p] = w]
      /\ \/ answer' = answer
         \/ answer' = [answer EXCEPT ![p] = Answer("failed", Empty)]
         \/ \E l : answer' = [answer EXCEPT ![p].list = l]
  BY DEF BranchesFilter, BranchesList, BranchesReturn, Returns
<1>4. pc'[p] \in {"list", "listed", "done"}
  BY <1>3 DEF GitTypes
<1>5. IsAnswer(answer'[p])
  BY <1>1, <1>3 DEF GitTypes, CallTyped, IsAnswer, Answer
<1>6. CallTyped(p)'
  BY <1>1, <1>2, <1>4, <1>5 DEF CallTyped, IsAnswer, PCs
<1>. QED
  BY <1>2, <1>3, <1>6, TypedStep DEF GitTypes, refVars

LEMMA UpdatesTyped ==
  ASSUME GitTypes, NEW p \in Callers, UpdateBegins(p) \/ UpdateReturns(p) PROVE GitTypes'
<1>1. CallTyped(p) /\ call[p].op \notin Readers
  BY DEF GitTypes, UpdateBegins, UpdateReturns, CallTyped, At, Readers
<1>2. UNCHANGED <<heads, tags, objs, call, fsAt>> /\ editor' \in Callers \cup {Nobody}
  BY DEF UpdateBegins, UpdateReturns, refVars
<1>3. /\ \E w \in {"update", "done"} : pc' = [pc EXCEPT ![p] = w]
      /\ answer' = answer \/ \E err : answer' = [answer EXCEPT ![p] = Answer(err, Empty)]
  BY DEF UpdateBegins, UpdateReturns, Returns
<1>4. CallTyped(p)'
  BY <1>1, <1>2, <1>3 DEF GitTypes, CallTyped, IsAnswer, Answer, PCs
<1>. QED
  BY <1>2, <1>3, <1>4, TypedStep DEF GitTypes, refVars

\* A ref moves to a commit that has been fetched.
LEMMA UpdateRefTyped == ASSUME GitTypes, NEW p \in Callers, UpdateRef(p) PROVE GitTypes'
<1>1. UNCHANGED <<editor, call, pc, answer, fsAt>>
  BY DEF UpdateRef
<1>2. PICK r \in toMove, c \in Commits \cup {None} :
        /\ heads' = IF r[1] = "heads" THEN [heads EXCEPT ![r[2]] = c] ELSE heads
        /\ tags' = IF r[1] = "tags" THEN [tags EXCEPT ![r[2]] = c] ELSE tags
        /\ objs' = objs \cup Fetched(c)
  BY DEF UpdateRef
<1>3. objs \subseteq objs' /\ objs' \subseteq Commits /\ c \in objs' \cup {None}
  BY <1>2 DEF Fetched, GitTypes
<1>4. heads \in [Names -> objs' \cup {None}] /\ tags \in [Names -> objs' \cup {None}]
  BY <1>3 DEF GitTypes
<1>5. heads' \in [Names -> objs' \cup {None}] /\ tags' \in [Names -> objs' \cup {None}]
  BY <1>2, <1>3, <1>4
<1>6. ASSUME NEW q \in Callers PROVE CallTyped(q)'
  BY <1>1, <1>3 DEF GitTypes, CallTyped, IsAnswer
<1>. QED
  BY <1>1, <1>3, <1>5, <1>6 DEF GitTypes

LEMMA GitStepTyped == ASSUME GitTypes, NEW p \in Callers, GitStep(p) PROVE GitTypes'
BY LookupCommitTyped, LookupBranchTyped, LookupTagTyped, ReadsTyped, BranchesTyped, UpdatesTyped,
   UpdateRefTyped DEF GitStep

LEMMA AskTyped ==
  ASSUME GitTypes, NEW p \in Callers, NEW k, k.spec \in Specs, Ask(p, k) PROVE GitTypes'
<1>1. /\ call' = [call EXCEPT ![p] = k] /\ pc' = [pc EXCEPT ![p] = FirstPc(k.op)]
      /\ answer' = [answer EXCEPT ![p] = NoAnswer]
      /\ UNCHANGED <<heads, tags, objs, editor, fsAt>>
  BY DEF Ask, refVars
<1>2. FirstPc(k.op) \in PCs /\ (k.op \in Readers => FirstPc(k.op) = "call")
  BY DEF FirstPc, PCs, Readers
<1>3. IsAnswer(NoAnswer)
  BY DEF IsAnswer, NoAnswer, Answer
<1>4. ASSUME NEW q \in Callers PROVE CallTyped(q)'
  <2>1. CASE q = p
    <3>1. /\ call'[q] = k /\ pc'[q] = FirstPc(k.op) /\ answer'[q] = NoAnswer
          /\ fsAt'[q] \in objs \cup {None}
      BY <1>1, <2>1 DEF GitTypes, CallTyped
    <3>. QED
      BY <1>1, <1>2, <1>3, <3>1 DEF CallTyped, IsAnswer
  <2>2. CASE q # p
    <3>1. call'[q] = call[q] /\ pc'[q] = pc[q] /\ answer'[q] = answer[q]
      BY <1>1, <2>2 DEF GitTypes
    <3>. QED
      BY <1>1, <3>1 DEF GitTypes, CallTyped, IsAnswer
  <2>. QED
    BY <2>1, <2>2
<1>. QED
  BY <1>1, <1>2, <1>4 DEF GitTypes

LEMMA GitUnchangedTyped == ASSUME GitTypes, UNCHANGED gitVars PROVE GitTypes'
BY DEF GitTypes, CallTyped, IsAnswer, gitVars, refVars

LEMMA GitTypesAreTypes == GitTypes => GitTypeOK
BY DEF GitTypes, CallTyped, IsAnswer, GitTypeOK, Existing

-----------------------------------------------------------------------------
(* The registries.                                                         *)

\* A table leads to packages that have started, and each of a kind of its own.
IsTable(table) == \A v \in DOMAIN table : table[v] \in inited /\ VcsOf(table[v]) = v

\* Once a native package has started, it is the opener of its kind.
Registries ==
  /\ inited \subseteq imported /\ imported \subseteq Packages
  /\ \A pkg \in inited : Imports(pkg) \subseteq inited /\ VcsOf(pkg) \in DOMAIN openers
  /\ IsTable(openers) /\ IsTable(cloners) /\ DOMAIN cloners \subseteq DOMAIN openers
  /\ \A pkg \in {"git", "hg"} : pkg \in inited => openers[pkg] = pkg
  /\ handle.pkg \in inited \cup {"none"} /\ wrapped \in Nat

LEMMA RegistriesInit == Init => Registries
<1>. SUFFICES ASSUME Init PROVE Registries
  OBVIOUS
<1>1. imported \subseteq Packages
  BY ProgramAssumption DEF Init, Closed
<1>2. DOMAIN openers = {} /\ DOMAIN cloners = {}
  BY DEF Init, HandlesInit, Nothing
<1>. QED
  BY <1>1, <1>2 DEF Init, HandlesInit, Registries, IsTable, NoHandle

LEMMA RegisterKeepsTable ==
  ASSUME NEW table, IsTable(table), NEW pkg \in inited', inited \subseteq inited'
  PROVE  \A v \in DOMAIN Register(table, VcsOf(pkg), pkg) :
           /\ Register(table, VcsOf(pkg), pkg)[v] \in inited'
           /\ VcsOf(Register(table, VcsOf(pkg), pkg)[v]) = v
<1>. DEFINE vcs == VcsOf(pkg)
            new == Register(table, vcs, pkg)
<1>1. /\ DOMAIN new = DOMAIN table \cup {vcs} /\ new[vcs] = pkg
      /\ \A w \in DOMAIN table \ {vcs} : new[w] = table[w]
  BY DEF Register
<1>. HIDE DEF new
<1>2. ASSUME NEW v \in DOMAIN new PROVE new[v] \in inited' /\ VcsOf(new[v]) = v
  <2>1. CASE v = vcs
    BY <1>1, <2>1
  <2>2. CASE v # vcs
    <3>1. v \in DOMAIN table /\ new[v] = table[v]
      BY <1>1, <1>2, <2>2
    <3>. QED
      BY <3>1 DEF IsTable
  <2>. QED
    BY <2>1, <2>2
<1>. QED
  BY <1>2 DEF new

LEMMA InitPackageRegisters ==
  ASSUME Registries, NEW pkg \in Packages, InitPackage(pkg) PROVE Registries'
<1>1. /\ inited' = inited \cup {pkg} /\ imported' = imported /\ pkg \in imported
      /\ pkg \notin inited /\ Imports(pkg) \subseteq inited
      /\ UNCHANGED <<handle, wrapped>>
  BY DEF InitPackage
<1>2. openers' = Register(openers, VcsOf(pkg), pkg)
      /\ (cloners' = cloners \/ cloners' = Register(cloners, VcsOf(pkg), pkg))
  BY DEF InitPackage
<1>3. pkg \in inited' /\ inited \subseteq inited' /\ IsTable(openers) /\ IsTable(cloners)
  BY <1>1 DEF Registries
<1>. DEFINE IsTableNow(table) == \A v \in DOMAIN table : table[v] \in inited' /\ VcsOf(table[v]) = v
<1>4. IsTable(openers)' /\ IsTable(cloners)'
  <2>1. IsTableNow(Register(openers, VcsOf(pkg), pkg)) /\ IsTableNow(Register(cloners, VcsOf(pkg), pkg))
    BY <1>3, RegisterKeepsTable
  <2>2. IsTableNow(cloners)
    BY <1>3 DEF IsTable
  <2>3. IsTableNow(openers') /\ IsTableNow(cloners')
    BY <1>2, <2>1, <2>2
  <2>. QED
    BY <2>3 DEF IsTable
<1>5. DOMAIN openers' = DOMAIN openers \cup {VcsOf(pkg)}
      /\ DOMAIN cloners' \subseteq DOMAIN cloners \cup {VcsOf(pkg)}
  BY <1>2 DEF Register
<1>. DEFINE vcs == VcsOf(pkg)
            new == Register(openers, vcs, pkg)
<1>6. /\ openers' = new /\ new[vcs] = pkg
      /\ \A w \in DOMAIN openers \ {vcs} : new[w] = openers[w]
  BY <1>2 DEF Register
<1>. HIDE DEF new
<1>7. ASSUME NEW q \in {"git", "hg"}, q \in inited' PROVE openers'[q] = q
  <2>1. CASE q = pkg
    <3>1. vcs = q
      BY <2>1 DEF VcsOf
    <3>. QED
      BY <1>6, <2>1, <3>1
  <2>2. CASE q # pkg
    <3>1. q \in inited /\ VcsOf(q) = q
      BY <1>1, <1>7, <2>2 DEF VcsOf
    <3>2. Imports(q) \subseteq inited /\ openers[q] = q /\ q \in DOMAIN openers
      BY <1>7, <3>1 DEF Registries
    <3>3. vcs # q
      <4>1. pkg \notin Imports(q)
        BY <1>1, <3>2
      <4>. QED
        BY <2>2, <4>1 DEF VcsOf, Imports, Packages
    <3>. QED
      BY <1>6, <3>2, <3>3
  <2>. QED
    BY <2>1, <2>2
<1>. QED
  BY <1>1, <1>3, <1>4, <1>5, <1>7 DEF Registries

LEMMA GetRegisters ==
  ASSUME Registries, NEW table, IsTable(table), NEW kind, Get(table, kind)
  PROVE  Registries'
<1>1. UNCHANGED <<imported, inited, openers, cloners, wrapped>>
  BY DEF Get
<1>2. handle'.pkg \in inited \cup {"none"}
  <2>1. CASE handle' = handle
    BY <2>1 DEF Registries
  <2>2. CASE handle' = NoHandle
    BY <2>2 DEF NoHandle
  <2>3. CASE /\ Lookup(table, kind) # "unsupported"
             /\ handle' = [pkg |-> table[kind], offers |-> Offers(table[kind])]
    BY <2>3 DEF Lookup, IsTable
  <2>. QED
    BY <2>1, <2>2, <2>3 DEF Get
<1>. QED
  BY <1>1, <1>2 DEF Registries, IsTable

LEMMA UnchangedRegisters == ASSUME Registries, UNCHANGED handleVars PROVE Registries'
BY DEF Registries, IsTable, handleVars

LEMMA RegistriesNext == Registries /\ [Next]_vars => Registries'
<1>. SUFFICES ASSUME Registries, [Next]_vars PROVE Registries'
  OBVIOUS
<1>1. CASE UNCHANGED handleVars
  BY <1>1, UnchangedRegisters
<1>2. CASE StartUp
  BY <1>2, InitPackageRegisters DEF StartUp
<1>3. ASSUME NEW v, Get(openers, v) \/ Get(cloners, v) PROVE Registries'
  BY <1>3, GetRegisters DEF Registries
<1>4. CASE LibraryGets \/ ToolClones
  BY <1>1, <1>3, <1>4 DEF LibraryGets, ToolClones
<1>5. CASE ToolOpens
  BY <1>1, <1>3, <1>5 DEF ToolOpens
<1>6. CASE LibraryTraces
  BY <1>6 DEF LibraryTraces, Trace, Registries, IsTable
<1>7. CASE LibraryAsks \/ ToolAsks \/ OtherUpdates \/ GitGoesOn
  BY <1>1, <1>7 DEF LibraryAsks, ToolAsks, OtherUpdates, GitGoesOn
<1>8. CASE ToolAsserts \/ ToolCalls \/ ToolIsAnswered \/ ToolAsksHg \/ ToolDone
  BY <1>1, <1>8 DEF ToolAsserts, ToolCalls, ToolIsAnswered, ToolAsksHg, ToolDone
<1>9. CASE UNCHANGED vars
  BY <1>1, <1>9 DEF vars
<1>. QED
  BY <1>2, <1>4, <1>5, <1>6, <1>7, <1>8, <1>9 DEF Next

-----------------------------------------------------------------------------
(* The subcommands of the tool.                                            *)

\* The steps that are calls of the repository, and the interfaces that git's and
\* hg's handles both offer.
Asked == {"arg1", "arg2", "HEAD", "GetCommit", "FileSystem", "Update"}
Shared == {"Blamer", "Differ", "RemoteUpdater"}

LEMMA CommandScripts ==
  /\ Subcommands["gitCloneMirror"].steps = <<"call">>
  /\ Subcommands["updateEverything"].steps = <<"HEAD", "GetCommit", "RemoteUpdater", "Update", "HEAD", "GetCommit">>
  /\ Subcommands["show"].steps = <<"arg1", "GetCommit">>
  /\ Subcommands["grep"].steps = <<"arg1", "Searcher", "call">>
BY DEF Subcommands, Subcmds, Subcommand, Commands, FileCommands, CompareCommands, ListCommands

LEMMA FileScripts ==
  /\ Subcommands["showFile"].steps = <<"arg1", "FileSystem", "call">>
  /\ Subcommands["readDir"].steps = <<"arg1", "FileSystem", "call">>
  /\ Subcommands["log"].steps = <<"HEAD", "call">>
BY DEF Subcommands, Subcmds, Subcommand, Commands, FileCommands, CompareCommands, ListCommands

LEMMA CompareScripts ==
  /\ Subcommands["blame"].steps = <<"arg1", "Blamer", "call">>
  /\ Subcommands["diff"].steps = <<"arg1", "arg2", "Differ", "call">>
  /\ Subcommands["diffstat"].steps = <<"arg1", "arg2", "Differ", "call", "call">>
BY DEF Subcommands, Subcmds, Subcommand, Commands, FileCommands, CompareCommands, ListCommands

LEMMA ListScripts ==
  /\ Subcommands["branches"].steps = <<"call">>
  /\ Subcommands["tags"].steps = <<"call">>
  /\ Subcommands["history"].steps = <<"HEAD", "call">>
  /\ Subcommands["committers"].steps = <<"call">>
  /\ Subcommands["fileLister"].steps = <<"FileLister", "arg1", "call">>
BY DEF Subcommands, Subcmds, Subcommand, Commands, FileCommands, CompareCommands, ListCommands

LEMMA BlameTakesAny == Subcommands["blame"].arity = 0 .. 3
BY DEF Subcommands, Subcmds, Subcommand, Commands, FileCommands, CompareCommands, ListCommands

\* Only grep and file-lister assert an interface that hg lacks.
IsScript(c, s) ==
  /\ Len(s) \in Nat \ {0}
  /\ \A i \in 1 .. Len(s) :
       \/ s[i] \in Asked \cup Shared \cup {"call"}
       \/ c = "grep" /\ i = 2 /\ s[i] = "Searcher"
       \/ c = "fileLister" /\ s[i] = "FileLister"

LEMMA ScriptsAre == ASSUME NEW c \in Subcmds PROVE IsScript(c, Subcommands[c].steps)
<1>1. CASE c \in {"gitCloneMirror", "updateEverything", "show", "grep"}
  <2>1. IsScript("gitCloneMirror", <<"call">>)
    BY DEF IsScript, Asked, Shared
  <2>2. IsScript("updateEverything", <<"HEAD", "GetCommit", "RemoteUpdater", "Update", "HEAD", "GetCommit">>)
    BY DEF IsScript, Asked, Shared
  <2>3. IsScript("show", <<"arg1", "GetCommit">>)
    BY DEF IsScript, Asked, Shared
  <2>4. IsScript("grep", <<"arg1", "Searcher", "call">>)
    BY DEF IsScript, Asked, Shared
  <2>. QED
    BY <1>1, <2>1, <2>2, <2>3, <2>4, CommandScripts
<1>2. CASE c \in {"showFile", "readDir", "log"}
  <2>1. IsScript("showFile", <<"arg1", "FileSystem", "call">>)
    BY DEF IsScript, Asked, Shared
  <2>2. IsScript("readDir", <<"arg1", "FileSystem", "call">>)
    BY DEF IsScript, Asked, Shared
  <2>3. IsScript("log", <<"HEAD", "call">>)
    BY DEF IsScript, Asked, Shared
  <2>. QED
    BY <1>2, <2>1, <2>2, <2>3, FileScripts
<1>3. CASE c \in {"blame", "diff", "diffstat"}
  <2>1. IsScript("blame", <<"arg1", "Blamer", "call">>)
    BY DEF IsScript, Asked, Shared
  <2>2. IsScript("diff", <<"arg1", "arg2", "Differ", "call">>)
    BY DEF IsScript, Asked, Shared
  <2>3. IsScript("diffstat", <<"arg1", "arg2", "Differ", "call", "call">>)
    BY DEF IsScript, Asked, Shared
  <2>. QED
    BY <1>3, <2>1, <2>2, <2>3, CompareScripts
<1>4. CASE c \in {"branches", "tags", "history", "committers", "fileLister"}
  <2>1. IsScript("branches", <<"call">>)
    BY DEF IsScript, Asked, Shared
  <2>2. IsScript("tags", <<"call">>)
    BY DEF IsScript, Asked, Shared
  <2>3. IsScript("history", <<"HEAD", "call">>)
    BY DEF IsScript, Asked, Shared
  <2>4. IsScript("committers", <<"call">>)
    BY DEF IsScript, Asked, Shared
  <2>5. IsScript("fileLister", <<"FileLister", "arg1", "call">>)
    BY DEF IsScript, Asked, Shared
  <2>. QED
    BY <1>4, <2>1, <2>2, <2>3, <2>4, <2>5, ListScripts
<1>. QED
  BY <1>1, <1>2, <1>3, <1>4 DEF Subcmds, Commands, FileCommands, CompareCommands, ListCommands

-----------------------------------------------------------------------------
(* The tool, together with what it works with.                             *)

OneId == {"grep", "show", "showFile", "readDir"}
ShowsId == {"show", "showFile", "readDir"}

ToolTypes ==
  /\ user \in Users /\ imported = user.imports
  /\ toolPc \in {"start", "run", "await", "ended"} /\ outcome \in {"none", "ok", "fatal", "panic"}
  /\ outcome = "none" <=> toolPc # "ended"
  /\ subcmd \in Subcmds /\ step \in 0 .. Len(Script) /\ ids \in Seq(Int)
  /\ toolPc = "start" => step = 0 /\ ids = << >>
  /\ user.kind = "library" => toolPc = "start"

\* The two ways to panic that ToolEnds names.
Panicking ==
  \/ subcmd = "blame" /\ handle = NoHandle /\ nargs < 2
  \/ subcmd = "grep" /\ handle.pkg = "hg" /\ Len(ids) = 1 /\ step = 1

\* The call that the tool waits for is that of the step it has come to.
Awaiting ==
  /\ Vcs = "git" /\ step < Len(Script) /\ Todo \in Asked
  /\ call[Me].op = "ResolveRevision" <=> Todo \in {"arg1", "arg2", "HEAD"}
  /\ Todo \in Readers => call[Me].op = Todo /\ call[Me].id = LastId

\* What the tool is called with, and the handle it has.
ToolHas ==
  /\ nargs \in 0 .. 3 /\ args \in [1 .. 2 -> {SpecName("HEAD"), Dashed}]
  /\ toolPc = "start" => handle = NoHandle
  /\ toolPc \in {"run", "await"} =>
       handle # NoHandle /\ subcmd # "gitCloneMirror" /\ (subcmd = "blame" => nargs >= 2)
  /\ handle # NoHandle /\ subcmd # "gitCloneMirror" =>
       handle.pkg \in {"git", "hg"} /\ handle.offers = Offers(handle.pkg)

\* How far it has come, and what it knows by then.
ToolKnows ==
  /\ subcmd \in OneId => Len(ids) = IF step = 0 THEN 0 ELSE 1
  /\ subcmd \in ShowsId /\ (step > 1 \/ (Vcs = "hg" /\ step > 0)) => ids[1] # Empty

ToolInv ==
  /\ ToolTypes
  /\ user.kind = "tool" =>
       /\ ToolHas /\ ToolKnows /\ (toolPc = "await" => Awaiting)
       /\ outcome = "panic" <=> toolPc = "ended" /\ Panicking
       /\ outcome = "ok" => subcmd \in {"gitCloneMirror", "fileLister"} \/ step = Len(Script)

LEMMA ToolInvInit == Init => ToolInv
<1>. SUFFICES ASSUME Init PROVE ToolInv
  OBVIOUS
<1>1. subcmd \in Subcmds
  <2>1. "show" \in Subcmds
    BY DEF Subcmds, Commands
  <2>. QED
    BY <2>1 DEF Init
<1>2. /\ toolPc = "start" /\ step = 0 /\ ids = << >> /\ outcome = "none" /\ handle = NoHandle
      /\ user \in Users /\ imported = user.imports
  BY DEF Init, HandlesInit
<1>3. Len(Script) \in Nat
  BY <1>1, ScriptsAre DEF IsScript, Script
<1>4. ToolTypes
  BY <1>1, <1>2, <1>3 DEF ToolTypes
<1>5. user.kind = "tool" => nargs \in 0 .. 3 /\ args \in [1 .. 2 -> {SpecName("HEAD"), Dashed}]
  BY DEF Init
<1>6. ToolKnows
  BY <1>2 DEF ToolKnows
<1>. QED
  BY <1>2, <1>4, <1>5, <1>6 DEF ToolInv, ToolHas

\* The steps of the others, and those of a library's user.
LEMMA ToolStays ==
  ASSUME ToolInv, UNCHANGED <<toolVars, imported>>,
         handle' = handle \/ user.kind = "library",
         call'[Me] = call[Me] \/ toolPc # "await"
  PROVE  ToolInv'
<1>1. /\ user' = user /\ subcmd' = subcmd /\ nargs' = nargs /\ args' = args
      /\ toolPc' = toolPc /\ step' = step /\ ids' = ids /\ outcome' = outcome /\ imported' = imported
  BY DEF toolVars
<1>2. Script' = Script /\ Todo' = Todo /\ LastId' = LastId
  BY <1>1 DEF Script, Todo, LastId
<1>3. ToolTypes'
  BY <1>1, <1>2 DEF ToolInv, ToolTypes
<1>4. CASE user.kind = "tool"
  <2>1. handle' = handle /\ Vcs' = Vcs
    BY <1>4 DEF Vcs
  <2>2. ToolHas'
    BY <1>1, <1>4, <2>1 DEF ToolInv, ToolHas
  <2>3. ToolKnows'
    BY <1>1, <1>4, <2>1 DEF ToolInv, ToolKnows
  <2>4. (toolPc = "await" => Awaiting)'
    BY <1>1, <1>2, <1>4, <2>1 DEF ToolInv, Awaiting
  <2>5. Panicking' = Panicking
    BY <1>1, <2>1 DEF Panicking
  <2>. QED
    BY <1>1, <1>2, <1>3, <1>4, <2>2, <2>3, <2>4, <2>5 DEF ToolInv
<1>5. CASE user.kind # "tool"
  BY <1>1, <1>3, <1>5 DEF ToolInv
<1>. QED
  BY <1>4, <1>5

LEMMA FromDirIs == ASSUME NEW dirs PROVE FromDir(dirs) \in {"none", "git", "hg"}
BY DEF FromDir

LEMMA ToolOpensKeeps == ASSUME Registries, ToolInv, ToolOpens PROVE ToolInv'
<1>1. /\ user.kind = "tool" /\ toolPc = "start" /\ imported = inited /\ subcmd # "gitCloneMirror"
      /\ UNCHANGED <<user, subcmd, nargs, args, step, ids>>
  BY DEF ToolOpens
<1>2. /\ step = 0 /\ ids = << >> /\ outcome = "none" /\ handle = NoHandle
      /\ subcmd \in Subcmds /\ imported = Packages
      /\ nargs \in 0 .. 3 /\ args \in [1 .. 2 -> {SpecName("HEAD"), Dashed}]
  BY <1>1, ProgramAssumption DEF ToolInv, ToolTypes, ToolHas
<1>3. /\ imported' = imported
      /\ \/ /\ toolPc' = "ended" /\ outcome' = "panic" /\ handle' = NoHandle
            /\ subcmd = "blame" /\ nargs < 2
         \/ /\ toolPc' = "ended" /\ outcome' = "fatal" /\ handle' = NoHandle
            /\ subcmd = "blame" => nargs >= 2
         \/ /\ toolPc' = "run" /\ outcome' = "none" /\ (subcmd = "blame" => nargs >= 2)
            /\ handle' # NoHandle
            /\ \E v \in {"git", "hg"} : handle' = [pkg |-> v, offers |-> Offers(v)]
  <2>1. CASE ~(WellCalled /\ (subcmd = "blame" => nargs >= 2))
    <3>1. subcmd = "blame" => nargs < 2
      BY <1>2, <2>1, BlameTakesAny DEF WellCalled
    <3>. QED
      BY <1>2, <2>1, <3>1 DEF ToolOpens, Ends, handleVars
  <2>2. CASE WellCalled /\ (subcmd = "blame" => nargs >= 2)
    <3>1. PICK dirs \in Places :
            \/ Ends("fatal") /\ UNCHANGED handleVars
            \/ /\ FromDir(dirs) # "none" /\ Get(openers, FromDir(dirs))
               /\ IF handle' = NoHandle THEN Ends("fatal") ELSE toolPc' = "run" /\ UNCHANGED outcome
      BY <2>2 DEF ToolOpens
    <3>2. CASE Ends("fatal") /\ UNCHANGED handleVars
      BY <1>2, <2>2, <3>2 DEF Ends, handleVars
    <3>3. CASE /\ FromDir(dirs) # "none" /\ Get(openers, FromDir(dirs))
               /\ IF handle' = NoHandle THEN Ends("fatal") ELSE toolPc' = "run" /\ UNCHANGED outcome
      <4>1. FromDir(dirs) \in {"git", "hg"}
        BY <3>3, FromDirIs
      <4>2. openers[FromDir(dirs)] = FromDir(dirs)
        BY <1>1, <1>2, <4>1 DEF Registries, Packages
      <4>3. imported' = imported
            /\ (handle' = NoHandle \/ handle' = [pkg |-> FromDir(dirs), offers |-> Offers(FromDir(dirs))])
        BY <1>2, <3>3, <4>2 DEF Get
      <4>. QED
        BY <1>2, <2>2, <3>3, <4>1, <4>3 DEF Ends
    <3>. QED
      BY <3>1, <3>2, <3>3
  <2>. QED
    BY <2>1, <2>2
<1>4. Script' = Script /\ ToolTypes'
  BY <1>1, <1>2, <1>3 DEF ToolInv, ToolTypes, Script
<1>5. ToolHas'
  BY <1>1, <1>2, <1>3 DEF ToolHas
<1>6. ToolKnows'
  BY <1>1, <1>2 DEF ToolKnows
<1>7. (outcome = "panic" <=> toolPc = "ended" /\ Panicking)'
  BY <1>1, <1>2, <1>3 DEF Panicking, NoHandle
<1>. QED
  BY <1>3, <1>4, <1>5, <1>6, <1>7 DEF ToolInv

LEMMA ToolClonesKeeps == ASSUME ToolInv, ToolClones PROVE ToolInv'
<1>1. /\ user.kind = "tool" /\ toolPc = "start" /\ subcmd = "gitCloneMirror"
      /\ UNCHANGED <<user, subcmd, nargs, args, step, ids, imported>>
      /\ toolPc' = "ended" /\ outcome' \in {"ok", "fatal"}
  BY DEF ToolClones, Ends, Get, handleVars
<1>2. /\ step = 0 /\ ids = << >> /\ ToolTypes /\ ToolHas
  BY <1>1 DEF ToolInv, ToolTypes
<1>3. Script' = Script
  BY <1>1 DEF Script
<1>4. ToolTypes'
  BY <1>1, <1>2, <1>3 DEF ToolTypes
<1>5. ToolHas'
  BY <1>1, <1>2 DEF ToolHas
<1>6. ToolKnows'
  BY <1>1, <1>2 DEF ToolKnows
<1>7. ~Panicking'
  BY <1>1 DEF Panicking
<1>. QED
  BY <1>1, <1>4, <1>5, <1>6, <1>7 DEF ToolInv

\* How the subcommands begin that resolve one revision.
LEMMA OneIdScripts ==
  ASSUME NEW c \in OneId
  PROVE  LET s == Subcommands[c].steps IN
         /\ Len(s) \in {2, 3} /\ s[1] = "arg1" /\ (c = "grep" => Len(s) = 3 /\ s[2] = "Searcher")
         /\ \A i \in 2 .. Len(s) : s[i] \notin {"arg1", "arg2", "HEAD"}
         /\ c \in ShowsId => s[2] \in Readers
<1>1. CASE c = "show"
  BY <1>1, CommandScripts DEF Readers
<1>2. CASE c = "grep"
  BY <1>2, CommandScripts DEF ShowsId
<1>3. CASE c = "showFile"
  BY <1>3, FileScripts DEF Readers
<1>4. CASE c = "readDir"
  BY <1>4, FileScripts DEF Readers
<1>. QED
  BY <1>1, <1>2, <1>3, <1>4 DEF OneId

\* What is so of a tool that has its handle.
LEMMA Running ==
  ASSUME ToolInv, toolPc \in {"run", "await"}
  PROVE  /\ user.kind = "tool" /\ ToolHas /\ ToolKnows /\ outcome = "none" /\ subcmd \in Subcmds
         /\ handle # NoHandle /\ handle.pkg \in {"git", "hg"} /\ handle.offers = Offers(handle.pkg)
         /\ step \in 0 .. Len(Script) /\ Len(Script) \in Nat /\ ids \in Seq(Int)
         /\ IsScript(subcmd, Script)
<1>1. ToolTypes /\ subcmd \in Subcmds /\ user \in Users
  BY DEF ToolInv, ToolTypes
<1>2. user.kind = "tool"
  BY <1>1, ProgramAssumption DEF ToolTypes
<1>3. IsScript(subcmd, Script)
  BY <1>1, ScriptsAre DEF Script
<1>. QED
  BY <1>1, <1>2, <1>3 DEF ToolInv, ToolTypes, ToolHas, IsScript

\* What a step of such a tool leaves.
LEMMA RunningStays ==
  ASSUME ToolInv, toolPc \in {"run", "await"}, UNCHANGED <<handleVars, user, subcmd, nargs, args>>,
         toolPc' \in {"run", "await", "ended"}, outcome' \in {"none", "ok", "fatal", "panic"},
         outcome' = "none" <=> toolPc' # "ended",
         step' \in 0 .. Len(Script), ids' \in Seq(Int)
  PROVE  ToolTypes' /\ ToolHas' /\ Script' = Script /\ handle' = handle /\ Vcs' = Vcs
<1>1. handle' = handle /\ imported' = imported /\ subcmd' = subcmd
  BY DEF handleVars
<1>2. Script' = Script /\ Vcs' = Vcs
  BY <1>1 DEF Script, Vcs
<1>3. ToolTypes'
  BY <1>1, <1>2 DEF ToolInv, ToolTypes
<1>4. ToolHas'
  BY <1>1, Running DEF ToolHas
<1>. QED
  BY <1>1, <1>2, <1>3, <1>4

\* Only at its assertion can grep panic, and blame no more.
LEMMA NoPanic ==
  ASSUME ToolInv, toolPc \in {"run", "await"}, UNCHANGED <<handleVars, subcmd, nargs>>,
         step' = step, step < Len(Script) => Todo # "Searcher"
  PROVE  ~Panicking'
<1>1. handle' = handle /\ handle # NoHandle
  BY Running DEF handleVars
<1>2. subcmd = "grep" => step # 1
  <2>1. SUFFICES ASSUME subcmd = "grep", step = 1 PROVE FALSE
    OBVIOUS
  <2>2. Len(Script) = 3 /\ Script[2] = "Searcher"
    BY <2>1, OneIdScripts DEF OneId, Script
  <2>. QED
    BY <2>1, <2>2 DEF Todo
<1>. QED
  BY <1>1, <1>2 DEF Panicking

\* Where the tool resolves nothing and reads no commit it learns nothing.
LEMMA NothingLearnt ==
  ASSUME ToolInv, toolPc \in {"run", "await"}, UNCHANGED <<handleVars, subcmd, ids>>,
         step < Len(Script), step' = step + 1, Todo \notin {"arg1", "HEAD"} \cup Readers
  PROVE  ToolKnows'
<1>1. ToolKnows /\ step \in Nat /\ handle' = handle
  BY Running DEF handleVars
<1>2. subcmd \in OneId => step # 0
  BY OneIdScripts DEF Script, Todo
<1>4. subcmd \in ShowsId => step # 0 /\ step # 1
  <2>1. subcmd \in ShowsId => subcmd \in OneId
    BY DEF ShowsId, OneId
  <2>2. subcmd \in ShowsId => step # 1
    BY <2>1, OneIdScripts DEF Script, Todo
  <2>. QED
    BY <1>2, <2>1, <2>2
<1>5. (subcmd \in OneId => Len(ids) = IF step = 0 THEN 0 ELSE 1)'
  BY <1>1, <1>2 DEF ToolKnows
<1>6. (subcmd \in ShowsId /\ (step > 1 \/ (Vcs = "hg" /\ step > 0)) => ids[1] # Empty)'
  BY <1>1, <1>4 DEF ToolKnows
<1>. QED
  BY <1>5, <1>6 DEF ToolKnows

LEMMA NothingForgotten ==
  ASSUME ToolInv, toolPc \in {"run", "await"}, UNCHANGED <<handleVars, subcmd, ids, step>>
  PROVE  ToolKnows'
BY Running DEF ToolKnows, Vcs, handleVars

LEMMA ToolAssertsKeeps == ASSUME ToolInv, ToolAsserts PROVE ToolInv'
<1>1. /\ toolPc = "run" /\ step < Len(Script) /\ Todo \in Interfaces /\ ids' = ids
      /\ UNCHANGED <<handleVars, user, subcmd, nargs, args>>
  BY DEF ToolAsserts, Doing
<1>2. /\ user.kind = "tool" /\ outcome = "none" /\ handle.pkg \in {"git", "hg"}
      /\ handle.offers = Offers(handle.pkg) /\ ToolKnows
      /\ step \in 0 .. Len(Script) /\ Len(Script) \in Nat /\ ids \in Seq(Int) /\ IsScript(subcmd, Script)
  BY <1>1, Running
<1>3. Todo \notin Asked \cup {"call"}
  BY <1>1 DEF Interfaces, Optional, Asked
<1>4. CASE step' = step + 1 /\ UNCHANGED <<toolPc, outcome>>
  <2>1. ToolTypes' /\ ToolHas'
    BY <1>1, <1>2, <1>4, RunningStays
  <2>2. ToolKnows'
    BY <1>1, <1>3, <1>4, NothingLearnt DEF Asked, Readers
  <2>. QED
    BY <1>1, <1>2, <1>4, <2>1, <2>2 DEF ToolInv
<1>5. CASE Todo \notin handle.offers /\ Ends(IF subcmd = "fileLister" THEN "ok" ELSE "panic") /\ step' = step
  <2>1. ToolTypes' /\ ToolHas' /\ handle' = handle
    BY <1>1, <1>2, <1>5, RunningStays DEF Ends
  <2>2. ToolKnows'
    BY <1>1, <1>5, NothingForgotten
  <2>3. handle.pkg = "hg" /\ Todo \notin Shared
    BY <1>1, <1>2, <1>5 DEF Offers, VcsOf, Shared
  <2>4. (subcmd = "grep" /\ step = 1) \/ subcmd = "fileLister"
    BY <1>1, <1>2, <1>3, <2>3 DEF IsScript, Todo
  <2>5. subcmd = "grep" => Len(ids) = 1
    BY <1>2, <2>4 DEF ToolKnows, OneId
  <2>6. Panicking' <=> subcmd = "grep"
    BY <1>1, <1>5, <2>1, <2>3, <2>4, <2>5 DEF Panicking, NoHandle
  <2>. QED
    BY <1>1, <1>2, <1>5, <2>1, <2>2, <2>4, <2>6 DEF ToolInv, Ends
<1>. QED
  BY <1>4, <1>5 DEF ToolAsserts

\* A step that fails.
LEMMA FatalKeeps ==
  ASSUME ToolInv, toolPc \in {"run", "await"}, UNCHANGED <<handleVars, user, subcmd, nargs, args>>,
         Ends("fatal"), UNCHANGED <<step, ids>>, step < Len(Script), Todo # "Searcher"
  PROVE  ToolInv'
<1>1. user.kind = "tool" /\ step \in 0 .. Len(Script) /\ ids \in Seq(Int)
  BY Running
<1>2. ToolTypes' /\ ToolHas'
  BY <1>1, RunningStays DEF Ends
<1>3. ToolKnows' /\ ~Panicking'
  BY NothingForgotten, NoPanic
<1>. QED
  BY <1>1, <1>2, <1>3 DEF ToolInv, Ends

LEMMA ToolCallsKeeps == ASSUME ToolInv, ToolCalls PROVE ToolInv'
<1>1. /\ toolPc = "run" /\ step < Len(Script) /\ Todo = "call" /\ ids' = ids
      /\ UNCHANGED <<handleVars, user, subcmd, nargs, args>>
  BY DEF ToolCalls, Doing
<1>2. /\ user.kind = "tool" /\ outcome = "none" /\ ids \in Seq(Int)
      /\ step \in 0 .. Len(Script) /\ Len(Script) \in Nat
  BY <1>1, Running
<1>3. CASE step' = step + 1 /\ UNCHANGED <<toolPc, outcome>>
  <2>1. ToolTypes' /\ ToolHas'
    BY <1>1, <1>2, <1>3, RunningStays
  <2>2. ToolKnows'
    BY <1>1, <1>3, NothingLearnt DEF Readers
  <2>. QED
    BY <1>1, <1>2, <1>3, <2>1, <2>2 DEF ToolInv
<1>4. CASE Ends("fatal") /\ UNCHANGED step
  BY <1>1, <1>4, FatalKeeps
<1>. QED
  BY <1>3, <1>4 DEF ToolCalls

LEMMA ToolDoneKeeps == ASSUME ToolInv, ToolDone PROVE ToolInv'
<1>1. /\ toolPc = "run" /\ step = Len(Script) /\ Ends("ok")
      /\ UNCHANGED <<handleVars, user, subcmd, nargs, args, step, ids>>
  BY DEF ToolDone
<1>2. user.kind = "tool" /\ ids \in Seq(Int) /\ step \in 0 .. Len(Script) /\ Len(Script) \in Nat
  BY <1>1, Running
<1>3. ToolTypes' /\ ToolHas' /\ Script' = Script
  BY <1>1, <1>2, RunningStays DEF Ends
<1>4. ToolKnows' /\ ~Panicking'
  BY <1>1, <1>2, NothingForgotten, NoPanic
<1>. QED
  BY <1>1, <1>2, <1>3, <1>4 DEF ToolInv, Ends
\* What the tool asks, and that it asks for nothing it was not given.
ToolRequest ==
  CASE Todo \in {"GetCommit", "FileSystem"} -> About(Todo, LastId)
    [] Todo = "Update" -> Update
    [] OTHER -> Resolve("ResolveRevision", SpecOf(Todo))

LEMMA ToolRequests ==
  ASSUME ToolInv, toolPc = "run", Todo \in Asked
  PROVE  /\ ToolRequest.spec \in Specs
         /\ ToolRequest.op = "ResolveRevision" <=> Todo \in {"arg1", "arg2", "HEAD"}
         /\ Todo \in Readers => ToolRequest.op = Todo /\ ToolRequest.id = LastId
<1>1. Dashed \in Specs /\ SpecName("HEAD") \in Specs
  BY DEF Specs
<1>2. CASE Todo \in Readers
  <2>1. ToolRequest = About(Todo, LastId)
    BY <1>2 DEF ToolRequest, Readers
  <2>. QED
    BY <1>1, <1>2, <2>1 DEF About, Request, Readers
<1>3. CASE Todo = "Update"
  <2>1. ToolRequest = Update
    BY <1>3 DEF ToolRequest
  <2>. QED
    BY <1>1, <1>3, <2>1 DEF Update, About, Request, Readers
<1>4. CASE Todo \in {"arg1", "arg2", "HEAD"}
  <2>1. ToolRequest = Resolve("ResolveRevision", SpecOf(Todo))
    BY <1>4 DEF ToolRequest
  <2>2. SpecOf(Todo) \in {SpecName("HEAD"), Dashed}
    BY <1>4, Running DEF SpecOf, ToolHas
  <2>. QED
    BY <1>1, <1>4, <2>1, <2>2 DEF Resolve, Request, Readers
<1>. QED
  BY <1>2, <1>3, <1>4 DEF Asked, Readers

LEMMA ToolAsksKeeps == ASSUME GitTypes, ToolInv, ToolAsks PROVE ToolInv'
<1>1. /\ toolPc = "run" /\ step < Len(Script) /\ Vcs = "git" /\ Todo \in Asked /\ toolPc' = "await"
      /\ Ask(Me, ToolRequest)
      /\ UNCHANGED <<handleVars, user, subcmd, nargs, args, step, ids, outcome>>
  BY DEF ToolAsks, Doing, Asked, ToolRequest
<1>2. /\ user.kind = "tool" /\ outcome = "none" /\ ids \in Seq(Int)
      /\ step \in 0 .. Len(Script) /\ Len(Script) \in Nat
  BY <1>1, Running
<1>3. ToolTypes' /\ ToolHas' /\ Script' = Script /\ Vcs' = Vcs
  BY <1>1, <1>2, RunningStays
<1>4. ToolKnows'
  BY <1>1, NothingForgotten
<1>5. Todo' = Todo /\ LastId' = LastId
  BY <1>1, <1>3 DEF Todo, LastId
<1>6. call'[Me] = ToolRequest
  BY <1>1, ProgramAssumption DEF Ask, GitTypes
<1>7. Awaiting'
  BY <1>1, <1>3, <1>5, <1>6, ToolRequests DEF Awaiting
<1>. QED
  BY <1>1, <1>2, <1>3, <1>4, <1>7 DEF ToolInv

\* An ID of a commit that is shown has been found, so it is not the empty one.
LEMMA ToolIsAnsweredKeeps == ASSUME GitTypes, ToolInv, ToolIsAnswered PROVE ToolInv'
<1>1. /\ toolPc = "await" /\ pc[Me] = "done" /\ Awaiting
      /\ UNCHANGED <<handleVars, user, subcmd, nargs, args>>
  BY Running DEF ToolIsAnswered, ToolInv
<1>2. /\ user.kind = "tool" /\ outcome = "none" /\ ids \in Seq(Int) /\ ToolKnows
      /\ step \in 0 .. Len(Script) /\ Len(Script) \in Nat /\ step < Len(Script)
  BY <1>1, Running DEF Awaiting
<1>3. CallTyped(Me) /\ objs \subseteq Nat /\ answer[Me].id \in Int
  <2>1. CallTyped(Me)
    BY ProgramAssumption DEF GitTypes
  <2>2. objs \subseteq Nat
    BY GitRepoAssumption DEF GitTypes, Commits
  <2>3. answer[Me].id \in objs \cup {Empty}
    BY <2>1 DEF CallTyped, IsAnswer
  <2>4. Empty \in Int
    BY DEF Empty
  <2>5. answer[Me].id \in Int
    <3>1. CASE answer[Me].id \in objs
      <4>1. answer[Me].id \in Nat
        BY <2>2, <3>1
      <4>. QED
        BY <4>1
    <3>2. CASE answer[Me].id = Empty
      BY <2>4, <3>2
    <3>. QED
      BY <2>3, <3>1, <3>2
  <2>. QED
    BY <2>1, <2>2, <2>5
<1>4. CASE answer[Me].err # "none"
  <2>1. Todo # "Searcher"
    BY <1>1 DEF Awaiting, Asked
  <2>. QED
    BY <1>1, <1>2, <1>4, <2>1, FatalKeeps DEF ToolIsAnswered
<1>5. CASE answer[Me].err = "none"
  <2>1. /\ toolPc' = "run" /\ step' = step + 1 /\ outcome' = outcome
        /\ ids' = IF call[Me].op = "ResolveRevision" THEN Append(ids, answer[Me].id) ELSE ids
    BY <1>5 DEF ToolIsAnswered
  <2>2. ids' \in Seq(Int)
    BY <1>2, <1>3, <2>1
  <2>3. ToolTypes' /\ ToolHas' /\ Vcs' = Vcs /\ subcmd' = subcmd
    BY <1>1, <1>2, <2>1, <2>2, RunningStays
  <2>4. (subcmd \in OneId => Len(ids) = IF step = 0 THEN 0 ELSE 1)'
    <3>. step' # 0
      BY <1>2, <2>1
    <3>1. SUFFICES ASSUME subcmd \in OneId PROVE Len(ids') = 1
      BY <2>3
    <3>2. CASE step = 0
      <4>1. Todo = "arg1" /\ Len(ids) = 0
        BY <1>2, <3>1, <3>2, OneIdScripts DEF Todo, Script, ToolKnows
      <4>. QED
        BY <1>1, <1>2, <1>3, <2>1, <4>1 DEF Awaiting
    <3>3. CASE step # 0
      <4>1. Todo \notin {"arg1", "arg2", "HEAD"} /\ Len(ids) = 1
        BY <1>2, <3>1, <3>3, OneIdScripts DEF Todo, Script, ToolKnows
      <4>. QED
        BY <1>1, <2>1, <4>1 DEF Awaiting
    <3>. QED
      BY <3>2, <3>3
  <2>5. (subcmd \in ShowsId /\ (step > 1 \/ (Vcs = "hg" /\ step > 0)) => ids[1] # Empty)'
    <3>. Vcs' # "hg" /\ (step' > 1 => step >= 1)
      BY <1>1, <1>2, <2>1, <2>3 DEF Awaiting
    <3>1. SUFFICES ASSUME subcmd \in ShowsId, step >= 1 PROVE ids'[1] # Empty
      BY <2>3
    <3>2. subcmd \in OneId /\ Len(ids) = 1
      BY <1>2, <3>1 DEF OneId, ShowsId, ToolKnows
    <3>3. ids' = ids
      <4>1. Todo \notin {"arg1", "arg2", "HEAD"}
        BY <1>2, <3>1, <3>2, OneIdScripts DEF Todo, Script
      <4>. QED
        BY <1>1, <2>1, <4>1 DEF Awaiting
    <3>4. CASE step > 1
      BY <1>2, <3>1, <3>3, <3>4 DEF ToolKnows
    <3>5. CASE step = 1
      <4>1. Todo \in Readers
        BY <3>1, <3>2, <3>5, OneIdScripts DEF Todo, Script
      <4>2. call[Me].op \in Readers /\ call[Me].id = ids[1]
        BY <1>1, <3>2, <4>1 DEF Awaiting, LastId
      <4>3. ids[1] \in objs
        BY <1>1, <1>3, <1>5, <4>2 DEF CallTyped
      <4>. QED
        BY <1>3, <3>3, <4>3 DEF Empty
    <3>. QED
      BY <1>2, <3>1, <3>4, <3>5
  <2>. QED
    BY <1>2, <2>1, <2>3, <2>4, <2>5 DEF ToolInv, ToolKnows
<1>. QED
  BY <1>4, <1>5

LEMMA ToolAsksHgKeeps == ASSUME ToolInv, ToolAsksHg PROVE ToolInv'
<1>1. /\ toolPc = "run" /\ step < Len(Script) /\ Vcs = "hg" /\ Todo \in Asked
      /\ UNCHANGED <<handleVars, user, subcmd, nargs, args>>
  BY DEF ToolAsksHg, Doing, Asked
<1>2. /\ user.kind = "tool" /\ outcome = "none" /\ ids \in Seq(Int) /\ ToolKnows
      /\ step \in 0 .. Len(Script) /\ Len(Script) \in Nat
  BY <1>1, Running
<1>3. CASE Ends("fatal") /\ UNCHANGED <<step, ids>>
  <2>1. Todo # "Searcher"
    BY <1>1 DEF Asked
  <2>. QED
    BY <1>1, <1>3, <2>1, FatalKeeps
<1>4. CASE /\ step' = step + 1 /\ UNCHANGED <<toolPc, outcome>>
           /\ ids' = IF Todo \in {"arg1", "arg2", "HEAD"} THEN Append(ids, 0) ELSE ids
  <2>1. ids' \in Seq(Int)
    BY <1>2, <1>4
  <2>2. ToolTypes' /\ ToolHas' /\ Vcs' = Vcs /\ subcmd' = subcmd
    BY <1>1, <1>2, <1>4, <2>1, RunningStays
  <2>3. (subcmd \in OneId => Len(ids) = IF step = 0 THEN 0 ELSE 1)'
    <3>. step' # 0
      BY <1>2, <1>4
    <3>1. SUFFICES ASSUME subcmd \in OneId PROVE Len(ids') = 1
      BY <2>2
    <3>2. CASE step = 0
      <4>1. Todo = "arg1" /\ Len(ids) = 0
        BY <1>2, <3>1, <3>2, OneIdScripts DEF Todo, Script, ToolKnows
      <4>. QED
        BY <1>2, <1>4, <4>1
    <3>3. CASE step # 0
      <4>1. Todo \notin {"arg1", "arg2", "HEAD"} /\ Len(ids) = 1
        BY <1>1, <1>2, <3>1, <3>3, OneIdScripts DEF Todo, Script, ToolKnows
      <4>. QED
        BY <1>4, <4>1
    <3>. QED
      BY <3>2, <3>3
  <2>4. (subcmd \in ShowsId /\ (step > 1 \/ (Vcs = "hg" /\ step > 0)) => ids[1] # Empty)'
    <3>1. SUFFICES ASSUME subcmd \in ShowsId PROVE ids'[1] # Empty
      BY <2>2
    <3>2. subcmd \in OneId
      BY <3>1 DEF OneId, ShowsId
    <3>3. CASE step = 0
      <4>1. Todo = "arg1" /\ Len(ids) = 0
        BY <1>2, <3>2, <3>3, OneIdScripts DEF Todo, Script, ToolKnows
      <4>2. ids' = Append(ids, 0)
        BY <1>4, <4>1
      <4>. QED
        BY <1>2, <4>1, <4>2 DEF Empty
    <3>4. CASE step # 0
      <4>1. Todo \notin {"arg1", "arg2", "HEAD"}
        BY <1>1, <1>2, <3>2, <3>4, OneIdScripts DEF Todo, Script
      <4>2. ids' = ids /\ step > 0
        BY <1>2, <1>4, <3>4, <4>1
      <4>. QED
        BY <1>1, <1>2, <3>1, <4>2 DEF ToolKnows
    <3>. QED
      BY <3>3, <3>4
  <2>. QED
    BY <1>1, <1>2, <1>4, <2>2, <2>3, <2>4 DEF ToolInv, ToolKnows
<1>. QED
  BY <1>3, <1>4 DEF ToolAsksHg
\* The tool asks for typed calls, so does a library's user.
ProgramInv == GitTypes /\ Registries /\ ToolInv

LEMMA GitTypesNext == ProgramInv /\ [Next]_vars => GitTypes'
<1>. SUFFICES ASSUME ProgramInv, [Next]_vars PROVE GitTypes'
  OBVIOUS
<1>. USE DEF ProgramInv
<1>1. CASE UNCHANGED gitVars
  BY <1>1, GitUnchangedTyped
<1>2. CASE GitGoesOn
  BY <1>2, GitStepTyped DEF GitGoesOn
<1>3. CASE LibraryAsks
  BY <1>3, AskTyped, ProgramAssumption, GitRepoAssumption DEF LibraryAsks
<1>4. CASE OtherUpdates
  <2>1. Update.spec \in Specs
    BY DEF Update, About, Request, Specs
  <2>. QED
    BY <1>4, <2>1, AskTyped DEF OtherUpdates, Others
<1>5. CASE ToolAsks
  <2>1. toolPc = "run" /\ Todo \in Asked /\ Ask(Me, ToolRequest)
    BY <1>5 DEF ToolAsks, Doing, Asked, ToolRequest
  <2>2. ToolRequest.spec \in Specs
    BY <2>1, ToolRequests
  <2>. QED
    BY <2>1, <2>2, AskTyped, ProgramAssumption
<1>6. CASE StartUp \/ LibraryGets \/ LibraryTraces \/ ToolOpens \/ ToolClones
  BY <1>1, <1>6 DEF StartUp, LibraryGets, LibraryTraces, ToolOpens, ToolClones
<1>7. CASE ToolAsserts \/ ToolCalls \/ ToolIsAnswered \/ ToolAsksHg \/ ToolDone
  BY <1>1, <1>7 DEF ToolAsserts, ToolCalls, ToolIsAnswered, ToolAsksHg, ToolDone
<1>8. CASE UNCHANGED vars
  BY <1>1, <1>8 DEF vars
<1>. QED
  BY <1>2, <1>3, <1>4, <1>5, <1>6, <1>7, <1>8 DEF Next

LEMMA CallsStay == ASSUME NEW p \in Callers, GitStep(p) PROVE call' = call
BY DEF GitStep, LookupCommit, LookupBranch, LookupTag, Fallback, GetCommit, FileSystem, BranchesFilter,
   BranchesList, BranchesReturn, UpdateBegins, UpdateRef, UpdateReturns

LEMMA ToolInvNext == ProgramInv /\ [Next]_vars => ToolInv'
<1>. SUFFICES ASSUME ProgramInv, [Next]_vars PROVE ToolInv'
  OBVIOUS
<1>. USE DEF ProgramInv
<1>1. CASE StartUp
  BY <1>1, ToolStays DEF StartUp, InitPackage, gitVars
<1>2. CASE LibraryGets \/ LibraryTraces
  BY <1>2, ToolStays DEF LibraryGets, LibraryTraces, Get, Trace, gitVars
<1>3. CASE LibraryAsks
  <2>1. toolPc # "await"
    BY <1>3 DEF LibraryAsks, ToolInv, ToolTypes
  <2>. QED
    BY <1>3, <2>1, ToolStays DEF LibraryAsks, handleVars
<1>4. CASE OtherUpdates
  <2>1. call'[Me] = call[Me]
    BY <1>4, ProgramAssumption DEF OtherUpdates, Others, Ask, GitTypes
  <2>. QED
    BY <1>4, <2>1, ToolStays DEF OtherUpdates, handleVars
<1>5. CASE GitGoesOn
  BY <1>5, CallsStay, ToolStays DEF GitGoesOn, handleVars
<1>6. CASE ToolOpens \/ ToolClones
  BY <1>6, ToolOpensKeeps, ToolClonesKeeps
<1>7. CASE ToolAsserts \/ ToolCalls \/ ToolDone
  BY <1>7, ToolAssertsKeeps, ToolCallsKeeps, ToolDoneKeeps
<1>8. CASE ToolAsks \/ ToolIsAnswered \/ ToolAsksHg
  BY <1>8, ToolAsksKeeps, ToolIsAnsweredKeeps, ToolAsksHgKeeps
<1>9. CASE UNCHANGED vars
  BY <1>9, ToolStays DEF vars, handleVars, gitVars
<1>. QED
  BY <1>1, <1>2, <1>3, <1>4, <1>5, <1>6, <1>7, <1>8, <1>9 DEF Next

LEMMA ProgramInvAlways == Spec => []ProgramInv
<1>1. Init => ProgramInv
  BY GitTypesInit, RegistriesInit, ToolInvInit DEF ProgramInv
<1>2. ProgramInv /\ [Next]_vars => ProgramInv'
  BY GitTypesNext, RegistriesNext, ToolInvNext DEF ProgramInv
<1>. QED
  BY <1>1, <1>2, PTL DEF Spec

\* The types of all the variables; among them, that a handle is of a package that
\* has started, and that what exists or is answered has been fetched.
THEOREM ProgramTypes == Spec => []TypeOK
<1>1. ProgramInv => TypeOK
  BY GitTypesAreTypes DEF ProgramInv, Registries, ToolInv, ToolTypes, TypeOK, HandlesTypeOK
<1>. QED
  BY <1>1, ProgramInvAlways, PTL

\* Whatever subcommand and arguments the tool has, wherever it is run, whatever fails
\* and whoever else updates the repository: it panics in the two cases that ToolEnds
\* names and in no other, works with the native handle, and shows no commit or file
\* of the empty ID.
THEOREM ToolEndsWell == Spec => []ToolEnds
<1>1. ProgramInv => ToolEnds
  <2>. SUFFICES ASSUME ProgramInv, user.kind = "tool" PROVE ToolEnds
    BY DEF ToolEnds
  <2>1. /\ ToolHas /\ ToolKnows /\ subcmd \in Subcmds /\ step \in Nat
        /\ outcome = "panic" <=> toolPc = "ended" /\ Panicking
        /\ outcome = "ok" => subcmd \in {"gitCloneMirror", "fileLister"} \/ step = Len(Script)
    BY DEF ProgramInv, ToolInv, ToolTypes
  <2>2. ASSUME outcome = "ok", subcmd \in ShowsId PROVE ids[1] # Empty
    <3>1. subcmd \in OneId /\ step = Len(Script)
      BY <2>1, <2>2 DEF ShowsId, OneId
    <3>2. step > 1
      BY <3>1, OneIdScripts DEF Script
    <3>. QED
      BY <2>1, <2>2, <3>2 DEF ToolKnows
  <2>. QED
    BY <2>1, <2>2 DEF ToolEnds, ToolHas, Panicking, ShowsId
<1>. QED
  BY <1>1, ProgramInvAlways, PTL
=============================================================================
