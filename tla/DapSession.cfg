SPECIFICATION Spec
CONSTANTS
  debug = debug
  system = system
  Powers <- MCPowers
  Ids = {"idA"}
  BadIds = {}
  APs = {0, 1}
  ConnectWaitLimit = 1
  Waits = {0, 1}
  FaultsPerCall = 1
INVARIANTS TypeOK SelectionAgrees PowerOwned HandlesRevoked ReleaseConverges IdleRestored
SYMMETRY MCSymmetry
