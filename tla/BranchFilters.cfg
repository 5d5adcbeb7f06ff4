\* Branches with a filter, or with two, while another goroutine updates.
SPECIFICATION Spec
CONSTANTS
  Callers = {me, other}
  Nobody = nobody
  Me = me
  Names = {"main", "x"}
  Main = "main"
  NumCommits = 2
  TreeOf <- MCTreeOf
  Requests <- MCRequests
  MaxWrapped = 2
  Users <- MCUsers
  Places <- MCPlaces
INVARIANT
  FiltersRestrict
CHECK_DEADLOCK FALSE
