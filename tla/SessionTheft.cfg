SPECIFICATION FairSpec
CONSTANTS
  Ports = {p1}
  NoPort = NoPort
  Jobs = 2
  Attempts = 1
  Refusable <- Acquisition
  MaxMeddling = 2
  LeftOver <- Anything
  ShortJobs = FALSE
  PromSupported = TRUE
PROPERTIES Terminates
