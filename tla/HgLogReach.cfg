\* The native log of histories of three commits.
SPECIFICATION LogSpec
CONSTANTS
  NumCommits = 3
  Limits = {0, 1}
  Skips = {0, 1}
INVARIANT
  LogIsReachable
CHECK_DEADLOCK FALSE
