SPECIFICATION FairSpec
CONSTANTS
  ValidUnits = {dshweb}
  BadUnits = {bad}
  NoUnit = none
  DefaultUnit = dshweb
  MaxRequests = 2
  Root = FALSE
  Ops = {"Start", "Status", "Discovery", "JournalTail"}
INVARIANTS TypeOK BoundedWait CancelledNeverSucceeds StatusIsAccurate
PROPERTIES MutatesOnlyInspected DiscoveryTakesWhatItSaw PromiseKept
CHECK_DEADLOCK FALSE
