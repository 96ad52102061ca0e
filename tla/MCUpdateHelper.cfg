SPECIFICATION Spec
CONSTANTS
  Helpers = {h1, h2, h3}
  Old = old
  Overlap = FALSE
INVARIANTS TypeOK
PROPERTIES RecoveryRestores AtomicallyReplaced
CHECK_DEADLOCK FALSE
