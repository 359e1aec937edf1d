SPECIFICATION Spec
CONSTANTS
  Connections = {c1, c2}
  Endpoints <- MCEndpoints
  NotFound = "/404"
  OtaStatus = "/rest/ota_update"
  Rom <- MCRom
  Length <- MCLength
  SendBuffer = 2
  MaxRetries = 2
  MaxPieces = 1
  MaxContent = 2
INVARIANTS HttpInv UploadsEnd OwnResponse
PROPERTY StatesAreFreed
