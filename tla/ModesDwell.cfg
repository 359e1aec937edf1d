SPECIFICATION Spec
CONSTANTS
  QueueLength = 2
  MaxDwell = 1
  Clients = {{"modes"}, {"outputs"}}
PROPERTY SavedDwellIsGenuine
