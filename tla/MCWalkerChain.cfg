SPECIFICATION Spec
CONSTANTS
  ErrorCodes = {"-1"}
  Modules <- ChainModules
  MaxWalks = 2
  Requests <- ChainRequests
PROPERTY
  CallsReturnToTheirSites
