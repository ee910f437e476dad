SPECIFICATION Spec
CONSTANTS
  Instances = {i1, i2}
  None = None
  Attempts = 1
  MaxMail = 2
  CtrlC = FALSE
  Losses = {}
PROPERTY WaitsForTheEnd
