SPECIFICATION FairSpec
CONSTANTS
  QueueLength = 2
  MaxDwell = 1
  Clients = {{"modes"}, {"outputs"}}
INVARIANTS ModesInv LeavesSafe CalibrationHeld DwellBounded StateTellsMode
PROPERTY StopEndsCalibration
