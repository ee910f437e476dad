SPECIFICATION FairSpec
CONSTANTS
  Users = {u1}
  NoUser = NoUser
  Tokens <- OneToken
  MaxRuns = 2
  MaxPolls = 2
  MaxPipe = 1
  Faults <- DeadThreads
  Hasty = FALSE
PROPERTIES CallsReturn StopIsEffective
