CONSTANTS
  high = high
  midA = midA
  midB = midB
  idle = idle
  Threads <- MCThreads
  Idle = idle
  Prios = {1, 2, 3}
  Sem = sem
  Mutex = mutex
  Event = event
  Objects = {sem, mutex, event}
  Programs <- MCPrograms
  Null = null
  Isr = isr
  InitPrio <- MCPrio
  Boot <- MCBoot
  Flag = "PRIO"
  Times <- MCTimes
  Bits = {b1, b2}
  b1 = b1
  b2 = b2
  Asks <- MCAsks
  Ticks = 5
  Slice = 1
  MaxValue = 1
  MaxHold = 2
  MaxLock = 2
SPECIFICATION Spec
INVARIANTS TypeOK ReadyQueues TimersRight NoneForgotten TokensConserved MutexExclusive Inheritance EventsDelivered
PROPERTY PreemptionKept
SYMMETRY MCSymmetry
