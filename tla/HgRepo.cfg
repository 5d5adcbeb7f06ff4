\* Histories of four commits: every shape with every page of its log, every
\* naming, every sequence of four trees; pulls in between; one call of BlameFile.
SPECIFICATION Spec
CONSTANTS
  NumCommits = 4
  Limits = {0, 1, 2}
  Skips = {0, 1, 2, 4}
  PipeSize = 1
  JsonSize = 2
  MaxErrors = 2
  Names <- MCNames
  Scenarios <- MCScenarios
INVARIANTS
  TypeOK
  PageOfAncestors
  ResolvedIsReadable
  EveryBranchListed
  ListedIsStated
  ImplementationsAgree
  HunksFromGoodExit
PROPERTIES
  FilesStay
  BlameReturns
CHECK_DEADLOCK FALSE
