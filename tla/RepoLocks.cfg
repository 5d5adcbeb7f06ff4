\* Three goroutines on one handle, all the kinds of method that take its lock,
\* those that nest it included; they can deadlock, which OnlyNestedReadsDeadlock
\* is about.
SPECIFICATION Spec
CONSTANTS
  d1 = d1
  d2 = d2
  h1 = h1
  h2 = h2
  Proc = {p1, p2, p3}
  NoProc = NoProc
  Handle = {h1}
  Dir = {d1}
  NoDir = NoDir
  DirOf <- OneDirOf
  Ref = {r1, r2}
  Commit = {c1}
  NoCommit = NoCommit
  Op = {"ResolveRevision", "Tags", "Committers", "ListFiles", "Diff", "BlameFile", "MergeBase", "Search", "GetCommit", "Commits", "Branches", "Lstat", "ReadDir", "Open", "Stat", "UpdateEverything"}
INVARIANTS
  EditExcludesOthers
  ReadsOneSnapshot
  ListedBranchesStay
  OnlyNestedReadsDeadlock
PROPERTY
  ImplementsAtomicRepo
SYMMETRY ProcSymmetry
CHECK_DEADLOCK FALSE
