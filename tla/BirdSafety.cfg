SPECIFICATION Spec
CONSTANTS
  Clients = {c1, c2}
  Compatible = {c1}
  None = None
  Pieces <- AllPieces
  Texts <- AllTexts
  Accepted <- AllAccepted
  Boot <- Minimal
  Empty <- Minimal
  MaxCached = 2
  MayForce = TRUE
  MaxIssued = 2
  MaxLost = 1
  MaxFaults = 1
INVARIANTS TypeOK BirdInv
PROPERTIES UploadIsTrue UploadsInOneStep
