\* Two repositories, each fetching from the other while the other is updated.
SPECIFICATION FairSpec
CONSTANTS
  d1 = d1
  d2 = d2
  h1 = h1
  h2 = h2
  Proc = {p1, p2}
  NoProc = NoProc
  Handle = {h1, h2}
  Dir = {d1, d2}
  NoDir = NoDir
  DirOf <- TwoDirsOf
  Ref = {r1, r2}
  Commit = {c1}
  NoCommit = NoCommit
  Op = {"CrossRepoDiff", "UpdateEverything"}
INVARIANTS
  TypeOK
  CrossRepoFindsHead
PROPERTY
  CallsReturn
