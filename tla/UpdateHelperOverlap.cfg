SPECIFICATION Spec
CONSTANTS
  Helpers = {h1, h2, h3}
  Old = old
  Overlap = TRUE
INVARIANTS DestinationIntact NothingLost
CHECK_DEADLOCK FALSE
