SPECIFICATION Spec
CONSTANTS
  Instances = {a, b}
  Modes = {"Systemd"}
  NoOne = NoOne
  Stale = Stale
PROPERTIES AskedToStartNeverStops
CHECK_DEADLOCK FALSE
