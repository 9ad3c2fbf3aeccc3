----------------------------- MODULE NonceCheck -----------------------------
(***************************************************************************)
(* The nonce reuse check of src/hubble_crypto.c,                           *)
(* hubble_internal_nonce_values_check, as operators over its six static    *)
(* variables, collected in one record:                                     *)
(*                                                                         *)
(*   init         _check_initialized                                       *)
(*   wrap_allowed _check_wrap_allowed                                      *)
(*   wrapped      _check_seq_no_wrapped                                    *)
(*   counter      _check_time_counter                                      *)
(*   seq          _check_seq_no                                            *)
(*   ref          _check_seq_daily_reference_no                            *)
(*                                                                         *)
(* The record of 6 fields has to decide, with no table of what was used,   *)
(* whether a pair (time counter, sequence number) may encrypt a message.   *)
(***************************************************************************)
EXTENDS Naturals

CONSTANTS
  MaxSeq,   \* HUBBLE_MAX_SEQ_COUNTER (1023 in the code)
  Uptime    \* TRUE: CONFIG_HUBBLE_COUNTER_SOURCE_DEVICE_UPTIME

ASSUME NonceCheckAssumption ==
  /\ MaxSeq \in Nat
  /\ Uptime \in BOOLEAN

SeqNo == 0 .. MaxSeq

Check(Counters) ==
  [ init: BOOLEAN, wrap_allowed: BOOLEAN, wrapped: BOOLEAN,
    counter: Counters, seq: SeqNo, ref: SeqNo ]

(* The zero-initialised statics. *)
BootCheck == [ init |-> FALSE, wrap_allowed |-> FALSE, wrapped |-> FALSE,
               counter |-> 0, seq |-> 0, ref |-> 0 ]

(* The counter differs from the one of the last accepted nonce. *)
CounterChanged(c, time_counter) == ~c.init \/ c.counter # time_counter

(* Uptime is taken to be monotonic: every change counts as forward. *)
Forward(c, time_counter) == Uptime \/ time_counter > c.counter

(* Mutant of EnterPeriod: the flag of the previous period is not cleared.    *)
EnterPeriodStillWrapped(c, time_counter, seq_no) ==
  [ init |-> TRUE,
    wrap_allowed |-> c.init /\ Forward(c, time_counter),
    wrapped |-> c.wrapped,
    counter |-> time_counter, seq |-> seq_no, ref |-> seq_no ]

EnterPeriod(c, time_counter, seq_no) ==
  [ init |-> TRUE,
    wrap_allowed |-> c.init /\ Forward(c, time_counter),
    wrapped |-> FALSE,
    counter |-> time_counter, seq |-> seq_no, ref |-> seq_no ]

(* Mutant of WrapOK: a wrap may pass the reference of the period.            *)
WrapOKNoReference(c, seq_no) ==
  /\ ~(seq_no < c.seq /\ c.wrapped)
  /\ (c.wrapped \/ seq_no < c.seq) => c.wrap_allowed

(* A number below the previous one is a wrap; at most one is accepted, only  *)
(* where a wrap is allowed, and only up to the reference of the period.      *)
WrapOK(c, seq_no) ==
  /\ ~(seq_no < c.seq /\ c.wrapped)
  /\ (c.wrapped \/ seq_no < c.seq) => (c.wrap_allowed /\ seq_no < c.ref)

(* Mutant of Accepts: the range test is dropped.                             *)
AcceptsAnyNumber(c, time_counter, seq_no) ==
  \/ CounterChanged(c, time_counter)
  \/ seq_no # c.seq /\ WrapOK(c, seq_no)

Accepts(c, time_counter, seq_no) ==
  /\ seq_no <= MaxSeq
  /\ \/ CounterChanged(c, time_counter)
     \/ seq_no # c.seq /\ WrapOK(c, seq_no)

(* The statics after the call. A refused wrap still sets wrapped. *)
AfterCheck(c, time_counter, seq_no) ==
  IF seq_no > MaxSeq THEN c
  ELSE IF CounterChanged(c, time_counter)
       THEN EnterPeriod(c, time_counter, seq_no)
       ELSE [ c EXCEPT !.wrapped = @ \/ seq_no < c.seq,
                       !.seq = IF Accepts(c, time_counter, seq_no)
                               THEN seq_no ELSE @ ]
=============================================================================
