SPECIFICATION FairSpec
CONSTANTS
  Threads = {t1, t2}
  MaxSeq = 1
  MaxCounter = 1
  Uptime = FALSE
  Events = {"rotate", "set", "reboot"}
  Generator = "any"
  NoThread = NoThread
  NoCounter = NoCounter
  Pending = Pending
  Refused = Refused
INVARIANTS TypeOK NonceUnique RefusedOnlyWhenSpent
PROPERTIES StaySpec AcquireReturns
