----------------------------- MODULE PassSearch -----------------------------
(***************************************************************************)
(* The search for the next pass in src/hubble_sat_pass_prediction.c: over  *)
(* the satellites of the ephemeris, for each of them over its orbits, in   *)
(* whole days where the satellite is on the other side of the Earth.       *)
(*                                                                         *)
(* The orbital mathematics is replaced by uniform motion in integers. The  *)
(* Earth turns one unit of longitude in one unit of time, a day is Day     *)
(* units. A satellite climbs one unit of latitude, and of right ascension, *)
(* in one unit of time, from the equator to the latitude "quarter", and    *)
(* down, and so on in the south. What is kept is what the search depends   *)
(* on: a latitude is crossed twice an orbit, once in each direction, first *)
(* ascending in the north and first descending in the south, and the next  *)
(* orbit crosses it further west.                                          *)
(***************************************************************************)
EXTENDS Integers, Sequences

CONSTANTS
  Day,         \* units of longitude and of time in a day
  Ephemerides, \* what satellites_set is called with: sequences of satellites
  Latitudes,   \* where the device, or the middle of its region, is
  Longitudes,
  Tolerances,  \* lon_tol, half of lon_range
  Heights,     \* half of lat_range
  Times,       \* from when on passes are asked for
  Never,       \* UINT64_MAX
  LastOrbit    \* bound: orbits of a satellite that are searched

Satellite == [ t0 : Nat \ {0}, raan : 0 .. Day - 1, quarter : Nat \ {0} ]

PeriodOf(s) == 4 * s.quarter

ASSUME PassSearchAssumption ==
  /\ Day \in Nat \ {0} /\ Day % 2 = 0
  /\ Never \in Nat /\ LastOrbit \in Nat
  /\ Ephemerides \subseteq Seq(Satellite)
  /\ \A e \in Ephemerides : \A k \in 1 .. Len(e) :
       e[k].t0 + (LastOrbit + 1) * PeriodOf(e[k]) + Day < Never
  /\ Latitudes \subseteq Int /\ Longitudes \subseteq 0 .. Day - 1
  /\ Tolerances \subseteq 0 .. Day \div 4
  /\ Heights \subseteq 0 .. Day /\ Times \subseteq 1 .. Never

VARIABLES
  satellites,  \* _satellites, _satellites_count
  asked,       \* the arguments of the call
  pc,          \* where the call is
  sat,         \* i: the satellite searched, from 1
  orbit,       \* orbit_count
  crossings,   \* of the latitude in that orbit
  t,           \* _pass_get's t, that moves with the search
  index,       \* the crossing _next_pass_get follows
  found,       \* next_pass
  best         \* pass

vars == << satellites, asked, pc, sat, orbit, crossings, t, index, found, best >>

-----------------------------------------------------------------------------
(* _zero_to_360 and _minus_180_to_180 *)
Turn(angle) == angle % Day

HalfTurn(angle) == ((angle + Day \div 2) % Day) - Day \div 2

Distance(a, b) == LET d == HalfTurn(a - b) IN IF d < 0 THEN -d ELSE d

(* _orbit_count_get, converted to an int towards zero. *)
OrbitAt(s, time) ==
  IF time >= s.t0 THEN (time - s.t0) \div PeriodOf(s)
                  ELSE -((s.t0 - time) \div PeriodOf(s))

(* _tll_crossings_get and _anode_time_get: a latitude the satellite does not *)
(* reach has none.                                                           *)
Reaches(s, lat) == lat < s.quarter /\ -lat < s.quarter

Crossing(s, count, phase, ra) ==
  LET time == s.t0 + count * PeriodOf(s) + phase
  IN  [ t |-> time, lon |-> HalfTurn(s.raan + ra - time) ]

Crossings(s, lat, count) ==
  LET up == Crossing(s, count, lat % PeriodOf(s), lat)
      down == Crossing(s, count, 2 * s.quarter - lat, Day \div 2 - lat)
  IN  IF lat >= 0 THEN << up, down >> ELSE << down, up >>

(* Mutant of Ascending: the southern crossings come in the northern order.   *)
AscendingFirst(k, lat) == k = 1

(* The direction of each crossing as _pass_get and _next_pass_get tell it.   *)
Ascending(k, lat) == IF k = 1 THEN lat > 0 ELSE lat <= 0

Nothing == [ culmination |-> 0, lon |-> 0, ascending |-> FALSE, sat |-> 0, duration |-> 0 ]

Init ==
  /\ satellites \in Ephemerides
  /\ asked \in [ lat : Latitudes, lon : Longitudes, tol : Tolerances, t : Times,
                 region : BOOLEAN, height : Heights \cup {0} ]
  /\ asked.region \/ asked.height = 0
  /\ pc = "idle" /\ sat = 0 /\ orbit = 0 /\ crossings = << >>
  /\ t = asked.t /\ index = 1
  /\ found = Nothing /\ best = Nothing

Sat == satellites[sat]

(* The latitude 0 of a region is taken for one that is barely north of it. *)
Going(k) == IF asked.region /\ asked.lat = 0 THEN k = 1 ELSE Ascending(k, asked.lat)

Visible(c) == Distance(c.lon, asked.lon) <= asked.tol

Goto(from, to) == pc = from /\ pc' = to

-----------------------------------------------------------------------------
(* hubble_sat_next_pass_get, hubble_sat_next_pass_region_get *)
NoSatellites ==
  /\ Goto("idle", "error")
  /\ satellites = << >>
  /\ UNCHANGED << satellites, asked, sat, orbit, crossings, t, index, found, best >>

Call ==
  /\ Goto("idle", "satellite")
  /\ satellites # << >>
  /\ sat' = 1
  /\ best' = [ Nothing EXCEPT !.culmination = Never ]
  /\ UNCHANGED << satellites, asked, orbit, crossings, t, index, found >>

(* After the last satellite: none found, no pass. *)
NextSat ==
  /\ pc' = IF sat < Len(satellites) THEN "satellite"
           ELSE IF best'.culmination = Never THEN "error" ELSE "done"
  /\ sat' = sat + 1

(* The beginning of _pass_get: a satellite whose epoch is to come, or that   *)
(* never crosses the latitude, is passed over.                               *)
Skip ==
  /\ pc = "satellite"
  /\ OrbitAt(Sat, asked.t) < 0 \/ ~Reaches(Sat, asked.lat)
  /\ UNCHANGED best
  /\ NextSat
  /\ UNCHANGED << satellites, asked, orbit, crossings, t, index, found >>

Start ==
  /\ Goto("satellite", "forward")
  /\ OrbitAt(Sat, asked.t) >= 0 /\ Reaches(Sat, asked.lat)
  /\ orbit' = OrbitAt(Sat, asked.t)
  /\ orbit' <= LastOrbit
  /\ crossings' = Crossings(Sat, asked.lat, orbit')
  /\ t' = asked.t
  /\ found' = Nothing
  /\ UNCHANGED << satellites, asked, sat, index, best >>

NextOrbit ==
  /\ orbit < LastOrbit
  /\ orbit' = orbit + 1
  /\ crossings' = Crossings(Sat, asked.lat, orbit')

(* Mutant of Past: an orbit is passed over when one crossing is behind.      *)
PastOne == crossings[1].t <= t \/ crossings[2].t <= t

(* An orbit that has both its crossings behind it is passed over. *)
Past == crossings[1].t <= t /\ crossings[2].t <= t

Forward ==
  /\ pc = "forward"
  /\ Past
  /\ NextOrbit
  /\ UNCHANGED << satellites, asked, pc, sat, t, index, found, best >>

Found(k) ==
  found' = [ Nothing EXCEPT !.culmination = crossings[k].t, !.lon = crossings[k].lon,
                            !.ascending = Going(k), !.sat = sat ]

Seen(k) == Visible(crossings[k]) /\ crossings[k].t > t

(* The pass may be in this orbit. *)
ThisOrbit ==
  /\ pc = "forward"
  /\ ~Past
  /\ IF Seen(1) \/ Seen(2)
     THEN pc' = "compare" /\ Found(IF Seen(1) THEN 1 ELSE 2)
     ELSE pc' = "turning" /\ UNCHANGED found
  /\ UNCHANGED << satellites, asked, sat, orbit, crossings, t, index, best >>

(* The Earth has to turn until the device's eastern limit is under one of    *)
(* the crossings: the one that takes less is followed, and the search goes   *)
(* on with the orbit of that time.                                           *)
Turning(k) == Day - Turn(asked.lon + asked.tol - crossings[k].lon)

(* Mutant of TurnEarth: the search stays in the orbit it is in.              *)
TurnEarthBack ==
  /\ Goto("turning", "following")
  /\ index' = IF Turning(1) < Turning(2) THEN 1 ELSE 2
  /\ UNCHANGED << satellites, asked, sat, orbit, crossings, t, found, best >>

TurnEarth ==
  /\ Goto("turning", "following")
  /\ index' = IF Turning(1) < Turning(2) THEN 1 ELSE 2
  /\ orbit' = OrbitAt(Sat, crossings[index'].t + Turning(index'))
  /\ orbit' <= LastOrbit
  /\ crossings' = Crossings(Sat, asked.lat, orbit')
  /\ UNCHANGED << satellites, asked, sat, t, found, best >>

(* The loop of _next_pass_get, while the western limit is to come. *)
Ahead == Day - Turn(asked.lon - asked.tol - crossings[index].lon) < Day \div 2

FollowFound ==
  /\ Goto("following", "compare")
  /\ Ahead /\ Seen(index)
  /\ Found(index)
  /\ UNCHANGED << satellites, asked, sat, orbit, crossings, t, index, best >>

FollowNext ==
  /\ pc = "following"
  /\ Ahead /\ ~Seen(index)
  /\ NextOrbit
  /\ UNCHANGED << satellites, asked, pc, sat, t, index, found, best >>

FollowPast ==
  /\ Goto("following", "turning")
  /\ ~Ahead
  /\ t' = crossings[index].t
  /\ UNCHANGED << satellites, asked, sat, orbit, crossings, index, found, best >>

-----------------------------------------------------------------------------
(* What hubble_sat_next_pass_region_get adds: how long the satellite is over *)
(* the region, from the crossings of its southern and northern limits.       *)
South == asked.lat - asked.height
NorthLimit == asked.lat + asked.height

(* Mutant of Limits: the limits are crossed in the same orbit.               *)
LimitsSameOrbit(lat, later) ==
  Crossings(Sat, lat, OrbitAt(Sat, found.culmination))

Limits(lat, later) ==
  Crossings(Sat, lat, OrbitAt(Sat, found.culmination) + later)

Duration ==
  LET up == found.ascending IN
  IF South < 0 /\ NorthLimit > 0
  THEN IF up THEN Limits(NorthLimit, 1)[1].t - Limits(South, 0)[2].t
             ELSE Limits(South, 0)[1].t - Limits(NorthLimit, 0)[2].t
  ELSE IF South < 0
  THEN IF up THEN Limits(NorthLimit, 0)[2].t - Limits(South, 0)[2].t
             ELSE Limits(South, 0)[1].t - Limits(NorthLimit, 0)[1].t
  ELSE IF up THEN Limits(NorthLimit, 0)[1].t - Limits(South, 0)[1].t
             ELSE Limits(South, 0)[2].t - Limits(NorthLimit, 0)[2].t

(* A region that reaches beyond the satellite, or that ends at the equator   *)
(* from the south, is not served by it.                                      *)
Served(s) ==
  asked.region => /\ Reaches(s, South) /\ Reaches(s, NorthLimit)
                  /\ South < 0 => NorthLimit # 0

(* The earlier of the satellites' passes, the first one among equals. *)
Compare ==
  /\ pc = "compare"
  /\ best' = IF Served(Sat) /\ best.culmination > found.culmination
             THEN [ found EXCEPT !.duration = IF asked.region THEN Duration ELSE 0 ]
             ELSE best
  /\ NextSat
  /\ UNCHANGED << satellites, asked, orbit, crossings, t, index, found >>

Search ==
  \/ Skip \/ Start \/ Forward \/ ThisOrbit \/ TurnEarth
  \/ FollowFound \/ FollowNext \/ FollowPast \/ Compare

Finished == pc \in {"done", "error"} /\ UNCHANGED vars

Next == NoSatellites \/ Call \/ Search \/ Finished

(* One task runs the search to its end. *)
Spec == Init /\ [][Next]_vars /\ WF_vars(NoSatellites \/ Call \/ Search)

-----------------------------------------------------------------------------
(* The passes over this place after the time asked for, by definition: every *)
(* crossing of every orbit of a satellite that serves it.                    *)
Usable(s) == Reaches(s, asked.lat) /\ OrbitAt(s, asked.t) >= 0 /\ Served(s)

PassesOf(m) ==
  UNION { LET c == Crossings(satellites[m], asked.lat, count)
          IN  { [ sat |-> m, t |-> c[k].t, lon |-> c[k].lon,
                  up |-> (asked.lat >= 0) = (k = 1) ] :
                k \in { j \in 1 .. 2 : Visible(c[j]) /\ c[j].t > asked.t } } :
          count \in 0 .. LastOrbit }

Passes == UNION { PassesOf(m) : m \in { n \in DOMAIN satellites : Usable(satellites[n]) } }

Reported == { p \in Passes :
  p.t = best.culmination /\ p.lon = best.lon /\ p.sat = best.sat }

(* pass_prediction.h, "the next pass ... over a given location": what is     *)
(* reported is a pass over the place and after the time asked for, however   *)
(* the search moved its own t and jumped over days, with the satellite's     *)
(* direction, which the culmination and the duration are computed from. A    *)
(* device exactly at the equator is told the opposite one and is left out.   *)
PassVisible ==
  pc = "done" =>
    \E p \in Reported : asked.region \/ asked.lat # 0 => p.up = best.ascending

(* pass_prediction.h, "calculates the next pass": no pass that the search    *)
(* could have reported comes earlier, and there is none if it reports none.  *)
(* A crossing exactly at a limit of the window may be missed.                *)
Earliest ==
  pc \in {"done", "error"} =>
    \A p \in Passes : Distance(p.lon, asked.lon) < asked.tol =>
      pc = "done" /\ best.culmination <= p.t

(* That holds while the window is narrower than the distance between two     *)
(* orbits of a satellite, so that it never has two of them in it.            *)
EarliestIfNarrow ==
  (\A k \in DOMAIN satellites : 2 * asked.tol < PeriodOf(satellites[k])) => Earliest

(* The duration of a region's pass, computed from crossings of two           *)
(* latitudes, in two orbits where the equator lies between them, is the time *)
(* the satellite takes from one limit to the other.                          *)
DurationRight == pc = "done" /\ asked.region => best.duration = 2 * asked.height

(* The loops of _pass_get and _next_pass_get have no bound of their own:     *)
(* every search still ends.                                                  *)
SearchEnds == pc = "idle" ~> pc \in {"done", "error"}

=============================================================================
