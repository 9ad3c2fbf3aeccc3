---------------------------- MODULE SatSchedule ----------------------------
(***************************************************************************)
(* When a satellite packet is on the air: the window that                  *)
(* hubble_sat_next_pass_get and hubble_sat_next_pass_region_get predict,   *)
(* the number of transmissions that hubble_sat_packet_send and             *)
(* hubble_sat_packet_pass_send plan, and the loop of the ports that makes  *)
(* them, with its random pauses and its callback. The application predicts *)
(* a pass, sleeps until it starts by the device's clock, and sends.        *)
(* Times are in units of 500 ms, on the device's clock, and relative to    *)
(* the predicted culmination. The orbital mathematics is left out: the     *)
(* prediction is right, the device's clock may not be.                     *)
(***************************************************************************)
EXTENDS Integers

CONSTANTS
  Modes,           \* transmission modes asked for: "none", "normal", "high"
  Drifts,          \* values of hubble_internal_time_drift_get
  Errors,          \* the true errors of the clock: behind < 0 < ahead
  RegionCrossings, \* time to cross the region; 0 for hubble_sat_next_pass_get
  AirTime,         \* time to transmit the frames of a packet
  Uint8Max         \* UINT8_MAX

ASSUME SatScheduleAssumption ==
  /\ Modes \subseteq {"none", "normal", "high"}
  /\ Drifts \subseteq Nat /\ RegionCrossings \subseteq Nat
  /\ Errors \subseteq Int
  /\ AirTime \in Nat /\ Uint8Max \in Nat \ {0}

VARIABLES
  stage,
  drift,      \* the estimated drift
  error,      \* what the device's clock is ahead by
  crossing,   \* of the predicted pass
  start, duration,    \* of the predicted pass
  mode, within,       \* of the send: its mode; pass_send or packet_send
  count, left, \* tx_count, retries
  now,        \* the device's clock
  tx_index,   \* of the last callback
  heard       \* history: callbacks made

pass == << drift, error, crossing, start, duration >>
send == << mode, within, count >>
progress == << left, now, tx_index, heard >>
send_vars == << stage, pass, send, progress >>

Second == 2

Least(a, b) == IF a < b THEN a ELSE b
Greatest(a, b) == IF a < b THEN b ELSE a

(* _transmission_params_get *)
Interval(m) == CASE m = "none" -> 0 [] m = "normal" -> 20 * Second [] m = "high" -> 10 * Second
Retries(m) == CASE m = "none" -> 1 [] m = "normal" -> 8 [] m = "high" -> 16

(* _additional_retries_count *)
Additional(m, d) ==
  IF Interval(m) = 0 THEN 0 ELSE Least(Uint8Max, d \div Interval(m))

(* hubble_internal_sat_transmission_period_get *)
Period(d) == (Retries("normal") + Additional("normal", d)) * Interval("normal")

(* The window is computed in whole seconds. *)
Half(time) == (time \div (2 * Second)) * Second

(* _time_offset_get_ms: 256 random values in five groups. *)
Offsets == -2 .. 2

SendInit ==
  /\ stage = "idle"
  /\ drift = 0 /\ error = 0 /\ crossing = 0 /\ start = 0 /\ duration = 0
  /\ mode = "none" /\ within = FALSE /\ count = 0
  /\ left = 0 /\ now = 0 /\ tx_index = 0 /\ heard = 0

Advance(from, to) == stage = from /\ stage' = to

(* Mutant of Predict: the window is not advanced for the drift.              *)
PredictNoDrift ==
  /\ Advance("idle", "waiting")
  /\ \E d \in Drifts, e \in Errors, c \in RegionCrossings :
       /\ e \in -d .. d
       /\ drift' = d
       /\ error' = e
       /\ crossing' = c
       /\ duration' = c + Period(d)
       /\ start' = -Half(duration')
  /\ UNCHANGED << send, progress >>

(* The device may be ahead or behind by up to the drift. The window is       *)
(* centred half of the drift before the culmination.                         *)
Predict ==
  /\ Advance("idle", "waiting")
  /\ \E d \in Drifts, e \in Errors, c \in RegionCrossings :
       /\ e \in -d .. d
       /\ drift' = d
       /\ error' = e
       /\ crossing' = c
       /\ duration' = c + Period(d)
       /\ start' = -Half(d) - Half(duration')
  /\ UNCHANGED << send, progress >>

Planned(m) == Least(Uint8Max, Retries(m) + Additional(m, drift))

(* Mutant of PlannedWithin: the first transmission is not one of the retries.*)
PlannedWithinPlusOne(m) ==
  Least(Uint8Max, Greatest(1, duration \div Interval(m)) + 1)

PlannedWithin(m) == Least(Uint8Max, Greatest(1, duration \div Interval(m)))

SendCall ==
  /\ Advance("waiting", "sending")
  /\ \E m \in Modes :
       \/ mode' = m /\ within' = FALSE /\ count' = Planned(m)
       \/ m # "none" /\ mode' = m /\ within' = TRUE /\ count' = PlannedWithin(m)
  /\ left' = count'
  /\ now' = start
  /\ UNCHANGED << pass, tx_index, heard >>

(* Mutant of Transmit: the index counts what is left.                        *)
TransmitIndexLeft ==
  /\ left' = left - 1
  /\ now' = now + AirTime
  /\ \/ /\ Advance("sending", IF left' > 0 THEN "pausing" ELSE "sent")
        /\ tx_index' = left'
        /\ heard' = heard + 1
     \/ /\ Advance("sending", "failed")
        /\ UNCHANGED << tx_index, heard >>
  /\ UNCHANGED << pass, send >>

(* One turn of the loop, up to the callback. A failure ends the call.        *)
Transmit ==
  /\ left' = left - 1
  /\ now' = now + AirTime
  /\ \/ /\ Advance("sending", IF left' > 0 THEN "pausing" ELSE "sent")
        /\ tx_index' = (count - left') - 1
        /\ heard' = heard + 1
     \/ /\ Advance("sending", "failed")
        /\ UNCHANGED << tx_index, heard >>
  /\ UNCHANGED << pass, send >>

Pause ==
  /\ Advance("pausing", "sending")
  /\ \E offset \in Offsets : now' = now + Greatest(0, Interval(mode) + offset)
  /\ UNCHANGED << pass, send, left, tx_index, heard >>

Return ==
  /\ stage \in {"sent", "failed"}
  /\ stage' = "idle"
  /\ drift' = 0 /\ error' = 0 /\ crossing' = 0 /\ start' = 0 /\ duration' = 0
  /\ mode' = "none" /\ within' = FALSE /\ count' = 0
  /\ left' = 0 /\ now' = 0 /\ tx_index' = 0 /\ heard' = 0

SendNext == Predict \/ SendCall \/ Transmit \/ Pause \/ Return

SendSpec == SendInit /\ [][SendNext]_send_vars

-----------------------------------------------------------------------------
(* hubble_sat_packet_sent_cb: called once for every transmission that        *)
(* succeeded, in order, and with the last planned index at the end of a call *)
(* that made them all.                                                       *)
CallbackContract ==
  /\ heard > 0 => tx_index = heard - 1
  /\ stage = "sent" => heard = count /\ tx_index = count - 1

(* A send made to fit the pass: pass_send, or packet_send where the pass was *)
(* predicted for its normal mode and not for a region.                       *)
Fitted == within \/ (crossing = 0 /\ mode = "normal")

(* hubble_sat_next_pass_get, "the device may be ahead or behind", "keep the  *)
(* pass centered on the actual reception window": a send made for the pass   *)
(* is on the air, to within a pause, when the satellite culminates.          *)
PassCovered ==
  stage = "sent" /\ Fitted =>
    /\ start <= error
    /\ error <= now + Interval(mode) + Second

AheadMargin == Period(0) \div 4

(* What the window does cover: a clock behind by up to the drift, and one    *)
(* ahead by no more than a quarter of the period without drift, 40 s.        *)
PassCoveredUnlessAhead == error <= AheadMargin => PassCovered

(* hubble_internal_sat_transmission_period_get: the window has room for the  *)
(* intervals of all the transmissions and one more: only the time on air and *)
(* the random part of the pauses can make a send for the pass outlast it.    *)
FitsWindow ==
  stage = "sent" /\ Fitted =>
    now <= start + (duration - Interval(mode)) + (count - 1) * Second + count * AirTime
=============================================================================
