\* ResolveRevision of something that begins with a dash.
SPECIFICATION Spec
CONSTANTS
  Callers = {me, other}
  Nobody = nobody
  Me = me
  Names = {"main", "x"}
  Main = "main"
  NumCommits = 2
  TreeOf <- MCTreeOf
  Requests <- MCRequests
  MaxWrapped = 2
  Users <- MCUsers
  Places <- MCPlaces
INVARIANT
  ResolvedOrError
CHECK_DEADLOCK FALSE
