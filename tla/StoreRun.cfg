SPECIFICATION Spec
CONSTANTS
  BootOrder <- MCBootOrder
  Clients = {menu, tcpip}
  Main = main
  Values = {0, 1}
  Default = 0
  Sizes <- MCSizes
  PageCells = 2
INVARIANTS StoreInv SavedIsDurable
PROPERTIES ImplementsRegister
SYMMETRY Symmetry
