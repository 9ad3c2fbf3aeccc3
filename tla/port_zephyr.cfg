SPECIFICATION Spec
CONSTANTS
  Threads = {t1, t2, t3}
  Sems = {s1}
  Port = "zephyr"
  MaxTx = 2
  Serialized = FALSE
  Dtm = FALSE
  NoThread = NoThread
  NoSem = NoSem
SYMMETRY Symmetry
INVARIANTS RadioFollows SuccessIsComplete
PROPERTIES DeinitOnlyAtRest SessionSpec
