SPECIFICATION Spec
CONSTANTS
  Xfers <- MCXfers
  Endpoints <- MCEndpoints
  EndpointOf <- MCEndpointOf
  Awaited <- MCXfers
INVARIANTS TypeOK DoneMeansSettled QuietInterface KernelOwned
CHECK_DEADLOCK FALSE
