SPECIFICATION FairSpec
CONSTANTS
  MaxDialogs = 2
  DesktopVersion <- MCDesktopVersion
  Installed <- MCInstalled
  Registry <- MCRegistry
  Responses <- MCResponses
INVARIANTS TypeOK BusyMeansWork RetryIsOffered BackendFirst OffersOnlyUpgrades DownloadsBestFit
PROPERTIES CheckEnds BackendStepEnds
CHECK_DEADLOCK FALSE
