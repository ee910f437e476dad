SPECIFICATION Spec
CONSTANTS
  Users = {u1, u2}
  NoUser = NoUser
  Tokens <- OneToken
  MaxRuns = 2
  MaxPolls = 1
  MaxPipe = 1
  Faults <- ExportFaults
  Hasty = FALSE
PROPERTY KillEndsInIdle
