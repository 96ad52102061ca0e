SPECIFICATION FairSpec
CONSTANTS
  Instances = {a, b}
  Modes = {"Systemd", "Supervised", "External"}
  NoOne = NoOne
  Stale = Stale
INVARIANTS TypeOK OneServing ChildFindsNoParent
PROPERTIES UnitStopsOnRequest 
CHECK_DEADLOCK FALSE
