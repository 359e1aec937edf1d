SPECIFICATION Spec
CONSTANTS
  Callers = {rest}
  Velocities <- AskedVelocities
  Ramps = {0, 2}
  MinRate = 1
  MaxRate = 3
  TimeMod = 8
  MaxPoll = 1
  IfcntMod = 16
  Readings = {1, 2}
  Windows = {0, 1, 2, 3, 4}
  MaxWindow = 3
  MaxFailures = 2
  MaxTimeout = 2
  Names = 4
  Taken = {1, 2}
  Stations = {s1, s2, s3}
  NoMac = NoMac
  MaxIp = 2
  LeaseTime = 2
  Unit = 3
  ClockMod = 12
  Buttons = {RST}
  Rotations <- KnobEvents
  QueueLength = 2
  Debounce = 1
  TickMod = 5
INVARIANTS FeederInv SensorInv WirelessInv DhcpInv InputInv
PROPERTY ComesUp
