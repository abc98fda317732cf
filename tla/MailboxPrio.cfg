CONSTANTS
  s1 = s1
  s2 = s2
  r1 = r1
  r2 = r2
  Senders = {s1, s2}
  Receivers = {r1, r2}
  Mail = {m1}
  NoMail = NoMail
  Size = 2
  Flag = "PRIO"
  Priority <- Priorities
  Restartable = {}
SPECIFICATION FairSpec
INVARIANTS TypeOK CallState NoLostMail NoLostSlot MostUrgentFirst
PROPERTIES WakeupsDeliver
