SPECIFICATION FairSpec
CONSTANTS
  Instances = {i1, i2}
  None = None
  Attempts = 1
  MaxMail = 1
  CtrlC = FALSE
  Losses = {i1}
INVARIANT QuietAtRest
PROPERTIES SchedulerSurvives CyclesEnd
