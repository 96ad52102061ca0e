SPECIFICATION Spec
CONSTANTS
  ValidUnits = {dshweb}
  BadUnits = {bad}
  NoUnit = none
  DefaultUnit = dshweb
  MaxRequests = 2
  Root = FALSE
  Ops = {"Start", "Status", "Discovery", "JournalTail", "DaemonReload"}
INVARIANT CancelledDiscoveryNeverSucceeds
CHECK_DEADLOCK FALSE
