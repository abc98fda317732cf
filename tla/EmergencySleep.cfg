CONSTANTS
  stopper = stopper
  handle = handle
  handleY = handleY
  idle = idle
  Threads <- MCThreads
  Idle = idle
  Stopper = stopper
  Restarted <- MCRestarted
  Prios = {1, 2, 3, 4}
  Priority <- MCPriority
  MbEmergency = mbEmergency
  Objects = {mbEmergency}
  Boxes = 3
  Tries = 6
  Motors = 3
  Report = 2
  Ticks = 8
  Slice = 5
SPECIFICATION Spec
PROPERTY SleepsItself
