SPECIFICATION FairSpec
CONSTANTS
  Xfers <- MCXfers
  Endpoints <- MCOneEndpoint
  EndpointOf <- MCOneEndpointOf
  Awaited <- MCOneXfer
CHECK_DEADLOCK FALSE
PROPERTIES CallsReturn ClaimReleased
