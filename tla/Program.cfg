\* One caller of each kind of program while another updates the repository.
SPECIFICATION Spec
CONSTANTS
  Callers = {me, other}
  Nobody = nobody
  Me = me
  Names = {"main", "x"}
  Main = "main"
  NumCommits = 2
  TreeOf <- MCTreeOf
  Requests <- MCRequests
  MaxWrapped = 2
  Users <- MCUsers
  Places <- MCPlaces
INVARIANTS
  TypeOK
  ResolvesAtSomeMoment
  BranchesFiltered
  TreesAgree
  TracedHandleWorks
  ToolEnds
CHECK_DEADLOCK FALSE
