SPECIFICATION Spec
CONSTANTS
  menu = menu
  rest = rest
  pinA = pinA
  pinB = pinB
  NoPin = NoPin
  Tasks <- MCTasks
  RestTask <- rest
  Pins <- MCPins
  Dwells <- MCDwells
  MaxStall = 1
  Overlap = FALSE
INVARIANTS HeaterInv HardCap CoilIsGuarded FlagTellsTheTruth
