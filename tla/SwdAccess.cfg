SPECIFICATION AccessSpec
CONSTANTS
  idA = idA
  idB = idB
  idBad = idBad
  Ids <- MCIds
  BadIds <- MCBadIds
  Powers = {}
  APs = {0}
  ConnectWaitLimit = 1
  Frames = 3
  FaultsPerCall = 2
  FaultsPerBatch = 1
  Batches <- MCBatches
  MaxUnread = 1
  MaxPackets = 1
INVARIANTS TypesOK FramingAgrees RestorationOwned BatchTruth RestoreConverges
PROPERTIES IdentityKept
SYMMETRY MCSymmetry
