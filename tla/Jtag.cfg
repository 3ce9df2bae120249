SPECIFICATION Spec
CONSTANTS
  WordBits = 3
  MaxIR = 6
  Limit = 4
  Chains <- MCChains
  Layouts <- MCLayouts
  DataBits = 2
  ScanData <- MCScanData
  RawTargets = {"PauseIR"}
INVARIANTS TapsAgree ScansTruthful ReleaseConverges
PROPERTIES ReleasedParked
