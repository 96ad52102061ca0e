SPECIFICATION Spec
CONSTANTS
  Provisioners = {p}
  Uninstallers = {u}
  Specs = {ours}
  Others = {theirs}
  Official = {ours, theirs}
  NoText = none
  Prints = {TRUE}
  Root = TRUE
PROPERTIES StopFailureKeeps
CHECK_DEADLOCK FALSE
