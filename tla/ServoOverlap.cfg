SPECIFICATION Spec
CONSTANTS
  menu = menu
  rest = rest
  mid = mid
  HOLD = HOLD
  DROP = DROP
  DISABLED = DISABLED
  NONE = NONE
  Tasks <- MCTasks
  Blocking <- MCBlocking
  Ratios <- MCRatios
PROPERTY HolderInPosition
