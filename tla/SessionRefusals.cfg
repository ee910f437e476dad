SPECIFICATION FairSpec
CONSTANTS
  Ports = {p1, p2}
  NoPort = NoPort
  Jobs = 2
  Attempts = 2
  Refusable <- Opening
  MaxMeddling = 0
  LeftOver <- Tidy
  ShortJobs = FALSE
  PromSupported = TRUE
INVARIANTS TypeOK NoEarlyReturn NoLostFinish FreshLaunch
PROPERTIES KeepsPromise Terminates
