\* One goroutine calls Stat while another updates the same handle.
SPECIFICATION FairSpec
CONSTANTS
  d1 = d1
  d2 = d2
  h1 = h1
  h2 = h2
  Proc = {p1, p2}
  NoProc = NoProc
  Handle = {h1}
  Dir = {d1}
  NoDir = NoDir
  DirOf <- OneDirOf
  Ref = {r1}
  Commit = {c1}
  NoCommit = NoCommit
  Op = {"Stat", "UpdateEverything"}
PROPERTY
  CallsReturn
CHECK_DEADLOCK FALSE
