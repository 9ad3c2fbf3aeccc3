----------------------------- MODULE TickUptime -----------------------------
(***************************************************************************)
(* hubble_uptime_get of port/freertos/hubble_freertos.c: the uptime in     *)
(* ticks, kept in 64 bits from a tick counter that wraps at Wrap, with two *)
(* statics and no lock. The SDK calls it wherever it needs the time, never *)
(* on its own. Each access to a static is a step; the scaling of ticks to  *)
(* milliseconds is left out.                                               *)
(***************************************************************************)
EXTENDS Naturals

CONSTANTS
  Callers,   \* tasks that ask for the uptime, directly or through the SDK
  Wrap,      \* 2 ^ BIT_IN_TICKS
  MaxTotal,  \* bound of the ticks since boot
  Polled     \* some call reads the ticks in every turn of the tick counter

ASSUME TickUptimeAssumption ==
  /\ Wrap \in Nat \ {0}
  /\ MaxTotal \in Nat
  /\ Polled \in BOOLEAN

VARIABLES
  total,          \* history: ticks since boot
  ticks,          \* xTaskGetTickCount
  overflow_ticks, last_ticks,
  place,
  this_ticks,     \* local to each call
  seen,           \* overflow_ticks, as the += of each call loaded it
  result,         \* this_ticks + overflow_ticks
  asked,          \* history: total when each call read the ticks
  polled          \* history: total when the ticks were last read

statics == << overflow_ticks, last_ticks >>
calls == << place, this_ticks, seen, result, asked, polled >>
ticks_vars == << total, ticks, statics, calls >>

CallPlaces == {"idle", "compare", "carry_load", "carry_store", "store_last", "sum", "done"}

TicksInit ==
  /\ total = 0 /\ ticks = 0
  /\ overflow_ticks = 0 /\ last_ticks = 0
  /\ place = [ t \in Callers |-> "idle" ]
  /\ this_ticks = [ t \in Callers |-> 0 ]
  /\ seen = [ t \in Callers |-> 0 ]
  /\ result = [ t \in Callers |-> 0 ]
  /\ asked = [ t \in Callers |-> 0 ]
  /\ polled = 0

Move(t, from, to) == place[t] = from /\ place' = [ place EXCEPT ![t] = to ]

SysTick ==
  /\ total < MaxTotal
  /\ Polled => total + 1 < polled + Wrap
  /\ total' = total + 1
  /\ ticks' = IF ticks + 1 = Wrap THEN 0 ELSE ticks + 1
  /\ UNCHANGED << statics, calls >>

ReadTicks(t) ==
  /\ Move(t, "idle", "compare")
  /\ this_ticks' = [ this_ticks EXCEPT ![t] = ticks ]
  /\ asked' = [ asked EXCEPT ![t] = total ]
  /\ polled' = total
  /\ UNCHANGED << total, ticks, statics, seen, result >>

Compare(t) ==
  /\ IF this_ticks[t] < last_ticks
     THEN Move(t, "compare", "carry_load")
     ELSE Move(t, "compare", "store_last")
  /\ UNCHANGED << total, ticks, statics, this_ticks, seen, result, asked, polled >>

CarryLoad(t) ==
  /\ Move(t, "carry_load", "carry_store")
  /\ seen' = [ seen EXCEPT ![t] = overflow_ticks ]
  /\ UNCHANGED << total, ticks, statics, this_ticks, result, asked, polled >>

(* Mutant of CarryStore: the largest tick is added, not the number of ticks. *)
CarryStoreShort(t) ==
  /\ Move(t, "carry_store", "store_last")
  /\ overflow_ticks' = seen[t] + Wrap - 1
  /\ UNCHANGED << total, ticks, last_ticks, this_ticks, seen, result, asked, polled >>

CarryStore(t) ==
  /\ Move(t, "carry_store", "store_last")
  /\ overflow_ticks' = seen[t] + Wrap
  /\ UNCHANGED << total, ticks, last_ticks, this_ticks, seen, result, asked, polled >>

StoreLast(t) ==
  /\ Move(t, "store_last", "sum")
  /\ last_ticks' = this_ticks[t]
  /\ UNCHANGED << total, ticks, overflow_ticks, this_ticks, seen, result, asked, polled >>

Sum(t) ==
  /\ Move(t, "sum", "done")
  /\ result' = [ result EXCEPT ![t] = this_ticks[t] + overflow_ticks ]
  /\ UNCHANGED << total, ticks, statics, this_ticks, seen, asked, polled >>

ReturnUptime(t) ==
  /\ Move(t, "done", "idle")
  /\ this_ticks' = [ this_ticks EXCEPT ![t] = 0 ]
  /\ seen' = [ seen EXCEPT ![t] = 0 ]
  /\ result' = [ result EXCEPT ![t] = 0 ]
  /\ asked' = [ asked EXCEPT ![t] = 0 ]
  /\ UNCHANGED << total, ticks, statics, polled >>

UptimeGet(t) ==
  \/ ReadTicks(t)
  \/ Compare(t)
  \/ CarryLoad(t)
  \/ CarryStore(t)
  \/ StoreLast(t)
  \/ Sum(t)
  \/ ReturnUptime(t)

TicksNext == SysTick \/ \E t \in Callers : UptimeGet(t)

TicksSpec == TicksInit /\ [][TicksNext]_ticks_vars

-----------------------------------------------------------------------------
(* The ranges of the variables.                                              *)
TypeOK ==
  /\ total \in Nat /\ ticks \in 0 .. Wrap - 1
  /\ overflow_ticks \in Nat /\ last_ticks \in 0 .. Wrap - 1
  /\ place \in [ Callers -> CallPlaces ]
  /\ this_ticks \in [ Callers -> 0 .. Wrap - 1 ]
  /\ seen \in [ Callers -> Nat ]
  /\ result \in [ Callers -> Nat ]
  /\ asked \in [ Callers -> Nat ]
  /\ polled \in Nat

(* hubble_uptime_get, sys.h: it "returns the current uptime of the target    *)
(* system": the ticks since boot at the time they were read, whatever the    *)
(* number of times the tick counter has wrapped.                             *)
UptimeExact ==
  \A t \in Callers : place[t] = "done" => result[t] = asked[t]
=============================================================================
