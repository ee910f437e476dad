SPECIFICATION Spec
CONSTANTS
  Ports = {p1, p2}
  NoPort = NoPort
  Jobs = 3
  Attempts = 2
  Refusable <- AfterAcquire
  MaxMeddling = 0
  LeftOver <- Tidy
  ShortJobs = FALSE
  PromSupported = TRUE
INVARIANTS QuietAtEnd SafetyInv
PROPERTIES KeepsPromise
