SPECIFICATION FairSpec
CONSTANTS
  t1 = t1
  t2 = t2
  t3 = t3
  Threads = {t1, t2, t3}
  Size = 2
  HasTimeout = TRUE
  HasLifetime = TRUE
  MaxCalls = 2
INVARIANTS
  TypeOK
  Conservation
  NeverBroken
  NoClientOverlooked
PROPERTIES
  FreshWhenKept
  WaitEnds
