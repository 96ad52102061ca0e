SPECIFICATION Spec
CONSTANTS
  Provisioners = {p}
  Uninstallers = {u}
  Specs = {ours}
  Others = {theirs}
  Official = {ours, theirs}
  NoText = none
  Prints = {FALSE}
  Root = TRUE
INVARIANTS OwnedCanBeRemoved
CHECK_DEADLOCK FALSE
