\* One client's session, and the accept loop and Close around it; three chunks
\* of output through a pipe that holds one.
SPECIFICATION FairSpec
CONSTANTS
  Conn = {c1}
  OutLen = 3
  PipeSize = 1
INVARIANTS
  TypeOK
  StatusComesLast
  ProcessReaped
  CloseNotLogged
PROPERTIES
  LoopEnds
  SessionEnds
  CopiesEnd
CHECK_DEADLOCK FALSE
