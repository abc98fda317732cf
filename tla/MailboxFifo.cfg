CONSTANTS
  s1 = s1
  s2 = s2
  r1 = r1
  r2 = r2
  Senders = {s1, s2}
  Receivers = {r1}
  Mail = {m1, m2}
  NoMail = NoMail
  Size = 2
  Flag = "FIFO"
  Priority <- Priorities
  Restartable = {r1}
SPECIFICATION Spec
INVARIANTS SuspendedIffLinked RingConsistent
PROPERTIES ForeverIsForever ImplementsFifo
