SPECIFICATION TicksSpec
CONSTANTS
  Callers = {t1}
  Wrap = 4
  MaxTotal = 14
  Polled = TRUE
INVARIANTS UptimeExact
