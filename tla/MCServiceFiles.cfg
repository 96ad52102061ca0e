SPECIFICATION Spec
CONSTANTS
  Provisioners = {p}
  Uninstallers = {u}
  Specs = {ours}
  Others = {theirs}
  Official = {ours, theirs}
  NoText = none
  Prints = {TRUE, FALSE}
  Root = TRUE
INVARIANTS TypeOK RecordsAreEarned SuccessMeansGone
PROPERTIES RemovesOnlyOwn
CHECK_DEADLOCK FALSE
