SPECIFICATION Spec
CONSTANTS
  Instances = {a, b}
  Modes = {"Systemd", "Supervised", "External"}
  NoOne = NoOne
  Stale = Stale
PROPERTIES UpdateKeepsBackend
CHECK_DEADLOCK FALSE
