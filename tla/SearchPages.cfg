\* Every set of hits in two files of three lines, with and without context, at
\* every offset and limit up to two; a pipe that holds one line.
SPECIFICATION FairSpec
CONSTANTS
  NumFiles = 2
  NumLines = 3
  Contexts = {0, 1}
  Limits = {0, 1, 2}
  Offsets = {0, 1, 2}
  PipeSize = 1
INVARIANTS
  TypeOK
  PageOfMatches
  NothingRunsOn
  FailureReported
PROPERTY
  SearchReturns
CHECK_DEADLOCK FALSE
