SPECIFICATION FairSpec
CONSTANTS
  MaxRetries = 2
  MaxWork = 3
  Threshold = 3
  Desktops <- MCDesktops
INVARIANTS TypeOK ProgressMeansWork StartupIsForTheApp WorkIsBounded VerdictIsDebounced SurfacesAgree
PROPERTIES NoFalseAlarm StartupEnds RetriesRunOut HealthSettles
CHECK_DEADLOCK FALSE
