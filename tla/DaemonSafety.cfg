SPECIFICATION Spec
CONSTANTS
  Users = {u1, u2}
  NoUser = NoUser
  Tokens <- OneToken
  MaxRuns = 2
  MaxPolls = 2
  MaxPipe = 1
  Faults <- AllButSlowJoin
  Hasty = FALSE
INVARIANTS DaemonInv TypeOK NoOrphan OneRun HolderRuns
PROPERTIES TakesTurns
SYMMETRY UserSymmetry
