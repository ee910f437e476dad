SPECIFICATION Spec
CONSTANTS
  Instances = {i1, i2}
  None = None
  Attempts = 1
  MaxMail = 2
  CtrlC = TRUE
  Losses = {}
INVARIANTS TypeOK QuietInv QuietAtRest
PROPERTIES SchedulerSurvives CleanStart
SYMMETRY InstanceSymmetry
