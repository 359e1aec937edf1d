SPECIFICATION Spec
CONSTANTS
  c1 = c1
  c2 = c2
  Connections <- MCConnections
  SectorSize = 2
  PartitionSize = 4
  Chunks <- MCChunks
  MaxUploads = 2
  MinStable = 2
  MaxWait = 4
INVARIANT UploadHasAConnection
