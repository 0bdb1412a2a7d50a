SPECIFICATION LiveSpec
CONSTANTS
  t1 = t1
  t2 = t2
  s1 = s1
  m1 = m1
  m2 = m2
  None = None
  Turns = {t1, t2}
  Sessions = {s1}
  Messages = {m1, m2}
  Worlds <- AllWorlds
  Quota = 2
  MaxWaits = 2
  MaxRegen = 1
INVARIANTS AskedAgainNeedsUpset CacheIsSound
PROPERTIES SupportReplied
