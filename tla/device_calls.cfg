SPECIFICATION Spec
CONSTANTS
  Threads = {t1, t2}
  Calls = {"init", "deinit", "time_set", "key_set", "message", "challenge", "check", "drift", "expire"}
  Sources = {"unix", "uptime"}
  Keys = {k1}
  NoKey = NoKey
  Times = {0, 7}
  MaxUptime = 2
  Period = 2
  Pool = 4
  Word = 16
SYMMETRY Symmetry
INVARIANTS  ElapsedBounded ExpiresWithPeriod
