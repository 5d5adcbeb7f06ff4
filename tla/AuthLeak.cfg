\* One call with one kind of options or none: what does an error leave behind?
SPECIFICATION Spec
CONSTANTS
  Call = {c1}
  Opts <- OneKind
INVARIANT
  NothingLeft
CHECK_DEADLOCK FALSE
