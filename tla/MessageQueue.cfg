CONSTANTS
  Senders = {s1, s2}
  Receivers = {r1}
  Urgents = {s2}
  Message = {m1, m2}
  NoMessage = NoMessage
  max_msgs = 2
  Restartable = {s1, r1}
SPECIFICATION Spec
INVARIANTS BlocksConserved QueueConsistent NoLostMessage
PROPERTIES ImplementsFifo
