SPECIFICATION FairSpec
CONSTANTS
  Threads = {t1, t2, t3}
  Sems = {s1, s2}
  Port = "freertos"
  MaxTx = 2
  Serialized = TRUE
  Dtm = TRUE
  NoThread = NoThread
  NoSem = NoSem
INVARIANTS SemaphoreKept RadioExclusive
PROPERTIES SendReturns
