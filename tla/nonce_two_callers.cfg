SPECIFICATION Spec
CONSTANTS
  Threads = {t1, t2}
  MaxSeq = 2
  MaxCounter = 1
  Uptime = FALSE
  Events = {"rotate"}
  Generator = "builtin"
  NoThread = NoThread
  NoCounter = NoCounter
  Pending = Pending
  Refused = Refused
SYMMETRY TaskSymmetry
INVARIANTS NeverReused
