\* Two calls with every choice of options; they end, so the system may stop.
SPECIFICATION Spec
CONSTANTS
  Call = {c1, c2}
  Opts <- AllOpts
INVARIANTS
  TypeOK
  KeyRemovedOnReturn
  GitCallLeavesNothing
  GitFindsHelper
  FatalLeavesOnlyKey
SYMMETRY CallSymmetry
CHECK_DEADLOCK FALSE
