----------------------------- MODULE PassProofs -----------------------------
(***************************************************************************)
(* Theorems about the satellite passes, for any orbits and any table of    *)
(* satellites: what PassSearch reports, and what SatSchedule makes of it,  *)
(* for any drift, any region and any time on air.                          *)
(***************************************************************************)
EXTENDS PassSearch, SatSchedule, TLAPS

-----------------------------------------------------------------------------
(* Numbers of turns. *)

(* The same direction. *)
Same(a, b) == \E z \in Int : a = b + z * Day

LEMMA DayOK == Day \in Nat \ {0} /\ Day % 2 = 0
BY PassSearchAssumption

LEMMA DivMod ==
  ASSUME NEW a \in Int, NEW b \in Nat \ {0}
  PROVE  /\ a \div b \in Int /\ a % b \in Nat /\ a % b < b
         /\ a = b * (a \div b) + (a % b)
OBVIOUS

(* Half of a day is whole. *)
LEMMA HalfDay == Day \div 2 \in Nat \ {0} /\ Day = 2 * (Day \div 2)
BY DayOK

LEMMA HalfDayIs == \E h \in Nat \ {0} : h = Day \div 2 /\ Day = 2 * h
<1>1. PICK h \in Nat \ {0} : h = Day \div 2
  BY HalfDay
<1>2. Day = 2 * h
  BY <1>1, HalfDay
<1> QED
  BY <1>1, <1>2

LEMMA SameInt == ASSUME NEW a \in Int, NEW b \in Int, NEW z \in Int, a = b + z * Day
                 PROVE  Same(a, b)
BY DEF Same

LEMMA SameSelf == ASSUME NEW a \in Int PROVE Same(a, a)
<1>1. a = a + 0 * Day
  BY DayOK
<1> QED
  BY <1>1, SameInt

LEMMA SameBack == ASSUME NEW a \in Int, NEW b \in Int, Same(a, b) PROVE Same(b, a)
<1>1. PICK z \in Int : a = b + z * Day
  BY DEF Same
<1>2. b = a + (-z) * Day
  BY <1>1, DayOK
<1> QED
  BY <1>2, SameInt

LEMMA SameChain ==
  ASSUME NEW a \in Int, NEW b \in Int, NEW c \in Int, Same(a, b), Same(b, c)
  PROVE  Same(a, c)
<1>1. PICK z \in Int : a = b + z * Day
  BY DEF Same
<1>2. PICK y \in Int : b = c + y * Day
  BY DEF Same
<1>3. a = c + (z + y) * Day
  BY <1>1, <1>2, DayOK
<1> QED
  BY <1>3, SameInt

LEMMA SameMoved ==
  ASSUME NEW a \in Int, NEW b \in Int, NEW c \in Int, Same(a, b)
  PROVE  Same(a + c, b + c) /\ Same(a - c, b - c)
<1>1. PICK z \in Int : a = b + z * Day
  BY DEF Same
<1>2. PICK x \in Int : x = z * Day
  BY DayOK
<1>3. a + c = (b + c) + z * Day /\ a - c = (b - c) + z * Day
  BY <1>1, <1>2
<1> QED
  BY <1>3, SameInt

LEMMA SameNegated ==
  ASSUME NEW a \in Int, NEW b \in Int, Same(a, b)
  PROVE  Same(-a, -b)
<1>1. PICK z \in Int : a = b + z * Day
  BY DEF Same
<1>2. -a = -b + (-z) * Day
  BY <1>1, DayOK
<1> QED
  BY <1>2, SameInt

(* Directions less than a day apart are the same number. *)
LEMMA SameNear ==
  ASSUME NEW a \in Int, NEW b \in Int, Same(a, b), a - b < Day, b - a < Day
  PROVE  a = b
<1>1. PICK z \in Int : a = b + z * Day
  BY DEF Same
<1>2. CASE z > 0
  <2>1. z * Day >= Day
    BY <1>2, DayOK
  <2>2. PICK x \in Int : x = z * Day
    BY DayOK
  <2> QED
    BY <1>1, <2>1, <2>2, DayOK
<1>3. CASE z < 0
  <2>1. z * Day <= -Day
    BY <1>3, DayOK
  <2>2. PICK x \in Int : x = z * Day
    BY DayOK
  <2> QED
    BY <1>1, <2>1, <2>2, DayOK
<1>4. CASE z = 0
  <2>1. z * Day = 0
    BY <1>4, DayOK
  <2> QED
    BY <1>1, <2>1
<1> QED
  BY <1>2, <1>3, <1>4

LEMMA TurnIs ==
  ASSUME NEW a \in Int
  PROVE  Turn(a) \in 0 .. Day - 1 /\ Same(Turn(a), a)
<1>1. PICK r \in Nat : r = a % Day
  BY DayOK, DivMod
<1>2. PICK q \in Int : r < Day /\ a = Day * q + r
  BY <1>1, DayOK, DivMod
<1>3. a = r + q * Day
  BY <1>2, DayOK
<1>4. Same(a, r)
  BY <1>3, SameInt
<1>5. Same(r, a)
  BY <1>4, SameBack
<1>6. r \in 0 .. Day - 1
  BY <1>2, DayOK
<1> QED
  BY <1>1, <1>5, <1>6 DEF Turn

LEMMA HalfTurnIs ==
  ASSUME NEW a \in Int
  PROVE  /\ HalfTurn(a) \in Int
         /\ -(Day \div 2) <= HalfTurn(a) /\ HalfTurn(a) < Day \div 2
         /\ Same(HalfTurn(a), a)
<1>0. Day \div 2 \in Nat \ {0} /\ Day = 2 * (Day \div 2)
  BY HalfDay
<1>1. PICK h \in Nat \ {0} : h = Day \div 2
  BY <1>0
<1>h. Day = 2 * h
  BY <1>0, <1>1
<1>2. PICK r \in Int : r = (a + h) % Day /\ r \in 0 .. Day - 1 /\ Same(r, a + h)
  <2>1. a + h \in Int
    BY <1>1
  <2> QED
    BY <2>1, TurnIs, DayOK DEF Turn
<1>3. Same(r - h, (a + h) - h)
  <2>1. a + h \in Int /\ h \in Int /\ Same(r, a + h)
    BY <1>1, <1>2
  <2> QED
    BY <2>1, SameMoved
<1>4. (a + h) - h = a /\ HalfTurn(a) = r - h
  BY <1>1, <1>2 DEF HalfTurn
<1>5. r \in Int /\ r >= 0 /\ r <= Day - 1
  BY <1>2, DayOK
<1>6. -h <= r - h /\ r - h < h /\ r - h \in Int
  BY <1>h, <1>5
<1> QED
  BY <1>1, <1>3, <1>4, <1>6

(* The distance of two directions is within w when a turn of one brings it   *)
(* within w of the other.                                                    *)
LEMMA DistanceIs ==
  ASSUME NEW a \in Int, NEW b \in Int
  PROVE  /\ Distance(a, b) \in Nat
         /\ \E d \in Int : /\ Same(d, a - b) /\ -(Day \div 2) <= d /\ d < Day \div 2
                           /\ Distance(a, b) = IF d < 0 THEN -d ELSE d
<1>1. a - b \in Int
  OBVIOUS
<1>2. PICK d \in Int : /\ d = HalfTurn(a - b) /\ Same(d, a - b)
                       /\ -(Day \div 2) <= d /\ d < Day \div 2
  BY <1>1, HalfTurnIs
<1>3. Distance(a, b) = IF d < 0 THEN -d ELSE d
  BY <1>2 DEF Distance
<1> QED
  BY <1>2, <1>3

-----------------------------------------------------------------------------
(* Orbits and crossings. *)

(* When orbit n of a satellite begins, at the equator and northward.         *)
AtOrbit(s, n) == s.t0 + n * PeriodOf(s)

(* When in its orbit, and how much further east than where the orbit began,  *)
(* the satellite makes its crossing k of a latitude.                         *)
Phase(s, lat, k) ==
  IF lat >= 0 THEN IF k = 1 THEN lat ELSE 2 * s.quarter - lat
              ELSE IF k = 1 THEN 2 * s.quarter - lat ELSE lat + 4 * s.quarter

Ascent(lat, k) ==
  IF lat >= 0 THEN IF k = 1 THEN lat ELSE Day \div 2 - lat
              ELSE IF k = 1 THEN Day \div 2 - lat ELSE lat

Time(s, lat, n, k) == AtOrbit(s, n) + Phase(s, lat, k)
Angle(s, lat, n, k) == s.raan + Ascent(lat, k) - Time(s, lat, n, k)

LEMMA SatelliteIs ==
  ASSUME NEW s \in Satellite
  PROVE  /\ s.t0 \in Nat \ {0} /\ s.raan \in Int /\ s.quarter \in Nat \ {0}
         /\ PeriodOf(s) \in Nat \ {0} /\ PeriodOf(s) = 4 * s.quarter
BY DayOK DEF Satellite, PeriodOf

LEMMA OrbitType ==
  ASSUME NEW s \in Satellite, NEW n \in Int
  PROVE  AtOrbit(s, n) \in Int /\ AtOrbit(s, n + 1) = AtOrbit(s, n) + PeriodOf(s)
<1>1. PICK p \in Nat : p = PeriodOf(s)
  BY SatelliteIs
<1>2. PICK x \in Int : x = n * p
  BY <1>1
<1>3. (n + 1) * p = x + p
  BY <1>1, <1>2
<1> QED
  BY <1>1, <1>2, <1>3, SatelliteIs DEF AtOrbit

(* Later orbits begin after earlier ones have ended. *)
LEMMA OrbitsAfter ==
  ASSUME NEW s \in Satellite, NEW m \in Int, NEW n \in Int, m < n
  PROVE  AtOrbit(s, m) + PeriodOf(s) <= AtOrbit(s, n)
<1>1. PICK p \in Nat : p = PeriodOf(s)
  BY SatelliteIs
<1>2. PICK d \in Nat : n = m + 1 + d
  <2>1. n - m - 1 \in Nat /\ n = m + 1 + (n - m - 1)
    OBVIOUS
  <2> QED
    BY <2>1
<1>3. PICK x \in Int, y \in Nat : x = m * p /\ y = d * p
  BY <1>1
<1>4. n * p = x + p + y
  BY <1>2, <1>3, <1>1
<1> QED
  BY <1>1, <1>3, <1>4, SatelliteIs DEF AtOrbit

LEMMA PhaseIs ==
  ASSUME NEW s \in Satellite, NEW lat \in Int, Reaches(s, lat), NEW k \in {1, 2}
  PROVE  /\ Phase(s, lat, k) \in Nat /\ Phase(s, lat, k) < PeriodOf(s)
         /\ Phase(s, lat, 1) < Phase(s, lat, 2)
         /\ Ascent(lat, k) \in Int
<1>1. PICK q \in Nat \ {0} : q = s.quarter /\ PeriodOf(s) = 4 * q
  BY SatelliteIs
<1>2. lat < q /\ -lat < q
  BY <1>1 DEF Reaches
<1>3. PICK h \in Nat : h = Day \div 2
  BY HalfDay
<1>4. CASE k = 1
  BY <1>1, <1>2, <1>3, <1>4 DEF Phase, Ascent
<1>5. CASE k = 2
  BY <1>1, <1>2, <1>3, <1>5 DEF Phase, Ascent
<1> QED
  BY <1>4, <1>5

LEMMA TimeIs ==
  ASSUME NEW s \in Satellite, NEW lat \in Int, Reaches(s, lat), NEW n \in Int, NEW k \in {1, 2}
  PROVE  /\ Time(s, lat, n, k) \in Int /\ Angle(s, lat, n, k) \in Int
         /\ AtOrbit(s, n) <= Time(s, lat, n, k)
         /\ Time(s, lat, n, k) < AtOrbit(s, n + 1)
         /\ Time(s, lat, n, 1) < Time(s, lat, n, 2)
<1>1. PICK a \in Int, p \in Nat : a = AtOrbit(s, n) /\ p = PeriodOf(s) /\ a + p = AtOrbit(s, n + 1)
  BY OrbitType, SatelliteIs
<1>2. /\ Phase(s, lat, k) \in Nat /\ Phase(s, lat, k) < p /\ Ascent(lat, k) \in Int
      /\ Phase(s, lat, 1) < Phase(s, lat, 2)
  BY <1>1, PhaseIs
<1>3. Phase(s, lat, 1) \in Nat /\ Phase(s, lat, 2) \in Nat
  BY PhaseIs
<1>4. s.raan \in Int
  BY SatelliteIs
<1> QED
  BY <1>1, <1>2, <1>3, <1>4 DEF Time, Angle

LEMMA UpPhase ==
  ASSUME NEW s \in Satellite, NEW lat \in Int, Reaches(s, lat)
  PROVE  lat % PeriodOf(s) = IF lat >= 0 THEN lat ELSE lat + 4 * s.quarter
<1>1. PICK q \in Nat \ {0} : q = s.quarter /\ PeriodOf(s) = 4 * q
  BY SatelliteIs
<1>2. lat < q /\ -lat < q
  BY <1>1 DEF Reaches
<1>3. PICK p \in Nat \ {0} : p = 4 * q
  BY <1>1
<1>4. PICK r \in Nat : r = lat % p
  BY <1>3, DivMod
<1>5. PICK d \in Int : r < p /\ lat = p * d + r
  BY <1>3, <1>4, DivMod
<1>6. PICK x \in Int : x = p * d
  BY <1>3
<1>7. CASE lat >= 0
  <2>1. d = 0
    <3>1. d > 0 => x >= p
      BY <1>3, <1>6
    <3>2. d < 0 => x <= -p
      BY <1>3, <1>6
    <3> QED
      BY <3>1, <3>2, <1>2, <1>3, <1>5, <1>6, <1>7
  <2>2. p * d = 0
    BY <2>1, <1>3
  <2> QED
    BY <1>1, <1>3, <1>4, <1>5, <1>7, <2>2
<1>8. CASE lat < 0
  <2>1. d = -1
    <3>1. d > 0 => x >= p
      BY <1>3, <1>6
    <3>2. d < -1 => x <= -p - p
      BY <1>3, <1>6
    <3>3. d = 0 => x = 0
      BY <1>3, <1>6
    <3> QED
      BY <3>1, <3>2, <3>3, <1>2, <1>3, <1>5, <1>6, <1>8
  <2>2. p * d = -p
    BY <2>1, <1>3
  <2> QED
    BY <1>1, <1>3, <1>4, <1>5, <1>8, <2>2
<1> QED
  BY <1>7, <1>8

(* What _tll_crossings_get computes, in order. *)
LEMMA CrossingsAre ==
  ASSUME NEW s \in Satellite, NEW lat \in Int, Reaches(s, lat), NEW n \in Int, NEW k \in {1, 2}
  PROVE  /\ Crossings(s, lat, n)[k].t = Time(s, lat, n, k)
         /\ Crossings(s, lat, n)[k].lon = HalfTurn(Angle(s, lat, n, k))
<1>1. PICK u : u = lat % PeriodOf(s)
  OBVIOUS
<1>2. u = IF lat >= 0 THEN lat ELSE lat + 4 * s.quarter
  BY <1>1, UpPhase
<1> DEFINE up == Crossing(s, n, u, lat)
           down == Crossing(s, n, 2 * s.quarter - lat, Day \div 2 - lat)
<1>3. Crossings(s, lat, n) = IF lat >= 0 THEN << up, down >> ELSE << down, up >>
  BY <1>1 DEF Crossings
<1>4. CASE lat >= 0
  <2>1. /\ up.t = s.t0 + n * PeriodOf(s) + lat
        /\ up.lon = HalfTurn(s.raan + lat - (s.t0 + n * PeriodOf(s) + lat))
    BY <1>2, <1>4 DEF Crossing
  <2>2. /\ down.t = s.t0 + n * PeriodOf(s) + (2 * s.quarter - lat)
        /\ down.lon = HalfTurn(s.raan + (Day \div 2 - lat)
                                 - (s.t0 + n * PeriodOf(s) + (2 * s.quarter - lat)))
    BY DEF Crossing
  <2>3. Crossings(s, lat, n) = << up, down >>
    BY <1>3, <1>4
  <2> HIDE DEF up, down
  <2>4. CASE k = 1
    <3>1. Crossings(s, lat, n)[k] = up
      BY <2>3, <2>4
    <3>2. Phase(s, lat, k) = lat /\ Ascent(lat, k) = lat
      BY <1>4, <2>4 DEF Phase, Ascent
    <3> QED
      BY <2>1, <3>1, <3>2 DEF Time, Angle, AtOrbit
  <2>5. CASE k = 2
    <3>1. Crossings(s, lat, n)[k] = down
      BY <2>3, <2>5
    <3>2. Phase(s, lat, k) = 2 * s.quarter - lat /\ Ascent(lat, k) = Day \div 2 - lat
      BY <1>4, <2>5 DEF Phase, Ascent
    <3> QED
      BY <2>2, <3>1, <3>2 DEF Time, Angle, AtOrbit
  <2> QED
    BY <2>4, <2>5
<1>5. CASE ~(lat >= 0)
  <2>1. /\ up.t = s.t0 + n * PeriodOf(s) + (lat + 4 * s.quarter)
        /\ up.lon = HalfTurn(s.raan + lat - (s.t0 + n * PeriodOf(s) + (lat + 4 * s.quarter)))
    BY <1>2, <1>5 DEF Crossing
  <2>2. /\ down.t = s.t0 + n * PeriodOf(s) + (2 * s.quarter - lat)
        /\ down.lon = HalfTurn(s.raan + (Day \div 2 - lat)
                                 - (s.t0 + n * PeriodOf(s) + (2 * s.quarter - lat)))
    BY DEF Crossing
  <2>3. Crossings(s, lat, n) = << down, up >>
    BY <1>3, <1>5
  <2> HIDE DEF up, down
  <2>4. CASE k = 2
    <3>1. Crossings(s, lat, n)[k] = up
      BY <2>3, <2>4
    <3>2. Phase(s, lat, k) = lat + 4 * s.quarter /\ Ascent(lat, k) = lat
      BY <1>5, <2>4 DEF Phase, Ascent
    <3> QED
      BY <2>1, <3>1, <3>2 DEF Time, Angle, AtOrbit
  <2>5. CASE k = 1
    <3>1. Crossings(s, lat, n)[k] = down
      BY <2>3, <2>5
    <3>2. Phase(s, lat, k) = 2 * s.quarter - lat /\ Ascent(lat, k) = Day \div 2 - lat
      BY <1>5, <2>5 DEF Phase, Ascent
    <3> QED
      BY <2>2, <3>1, <3>2 DEF Time, Angle, AtOrbit
  <2> QED
    BY <2>4, <2>5
<1> QED
  BY <1>4, <1>5

(* The orbit of a time, for a satellite whose epoch is not to come. *)
LEMMA OrbitAtIs ==
  ASSUME NEW s \in Satellite, NEW time \in Int, OrbitAt(s, time) >= 0
  PROVE  /\ OrbitAt(s, time) \in Nat
         /\ time < AtOrbit(s, OrbitAt(s, time) + 1)
         /\ AtOrbit(s, OrbitAt(s, time)) <= time \/ OrbitAt(s, time) = 0
<1>1. PICK p \in Nat \ {0} : p = PeriodOf(s)
  BY SatelliteIs
<1>2. PICK t0 \in Nat : t0 = s.t0
  BY SatelliteIs
<1>3. CASE time >= t0
  <2>1. PICK a \in Nat : a = time - t0
    BY <1>2, <1>3
  <2>2. PICK n \in Int : n = a \div p
    BY <1>1, <2>1, DivMod
  <2>r. PICK r \in Nat : r = a % p
    BY <1>1, <2>1, DivMod
  <2>3. r < p /\ a = p * n + r
    <3>1. a \in Int /\ p \in Nat \ {0}
      BY <1>1, <2>1
    <3>2. a % p < p /\ a = p * (a \div p) + (a % p)
      BY <3>1, DivMod
    <3> QED
      BY <2>2, <2>r, <3>2
  <2>4. OrbitAt(s, time) = n
    BY <1>1, <1>2, <1>3, <2>1, <2>2 DEF OrbitAt
  <2>5. PICK x \in Int : x = n * p
    BY <1>1
  <2>6. p * n = x
    BY <2>5, <1>1
  <2>7. AtOrbit(s, n) = t0 + x /\ AtOrbit(s, n + 1) = t0 + x + p
    BY <1>1, <1>2, <2>5, OrbitType DEF AtOrbit
  <2> QED
    BY <2>1, <2>3, <2>4, <2>6, <2>7, <1>1, <1>2
<1>4. CASE ~(time >= t0)
  <2>1. PICK a \in Nat : a = t0 - time
    BY <1>2, <1>4
  <2>2. PICK n \in Nat : n = a \div p
    BY <1>1, <2>1
  <2>3. OrbitAt(s, time) = -n
    BY <1>1, <1>2, <1>4, <2>1, <2>2 DEF OrbitAt
  <2>4. OrbitAt(s, time) = 0
    BY <2>2, <2>3
  <2>5. AtOrbit(s, 0 + 1) = AtOrbit(s, 0) + p
    BY <1>1, OrbitType
  <2>6. 0 * p = 0
    BY <1>1
  <2>7. AtOrbit(s, 0) = t0
    BY <1>1, <1>2, <2>6 DEF AtOrbit
  <2> QED
    BY <1>1, <1>2, <1>4, <2>4, <2>5, <2>7
<1> QED
  BY <1>3, <1>4

(* A time within orbit n, once the satellite is in orbit. *)
LEMMA OrbitOfTime ==
  ASSUME NEW s \in Satellite, NEW n \in Nat, NEW time \in Int, AtOrbit(s, n) <= time
  PROVE  /\ OrbitAt(s, time) \in Nat /\ n <= OrbitAt(s, time)
         /\ AtOrbit(s, OrbitAt(s, time)) <= time
         /\ time < AtOrbit(s, OrbitAt(s, time) + 1)
<1>1. PICK p \in Nat \ {0} : p = PeriodOf(s)
  BY SatelliteIs
<1>2. PICK t0 \in Nat : t0 = s.t0
  BY SatelliteIs
<1>3. PICK x \in Nat : x = n * p
  BY <1>1
<1>4. t0 + x <= time
  BY <1>1, <1>2, <1>3 DEF AtOrbit
<1>5. PICK a \in Nat : a = time - t0
  BY <1>2, <1>4
<1>6. PICK m \in Nat : m = a \div p
  BY <1>1, <1>5
<1>r. PICK r \in Nat : r = a % p
  BY <1>1, <1>5, DivMod
<1>7. r < p /\ a = p * m + r
  <2>1. a \in Int /\ p \in Nat \ {0}
    BY <1>1, <1>5
  <2>2. a % p < p /\ a = p * (a \div p) + (a % p)
    BY <2>1, DivMod
  <2> QED
    BY <1>6, <1>r, <2>2
<1>8. OrbitAt(s, time) = m
  BY <1>1, <1>2, <1>3, <1>4, <1>5, <1>6 DEF OrbitAt
<1>9. PICK y \in Int : y = m * p
  BY <1>1
<1>10. p * m = y
  BY <1>9, <1>1
<1>11. AtOrbit(s, m) = t0 + y /\ AtOrbit(s, m + 1) = t0 + y + p
  BY <1>1, <1>2, <1>9, OrbitType DEF AtOrbit
<1>12. AtOrbit(s, m) <= time /\ time < AtOrbit(s, m + 1)
  BY <1>1, <1>2, <1>5, <1>7, <1>10, <1>11
<1>13. ~(m < n)
  <2> SUFFICES ASSUME m < n PROVE FALSE
    OBVIOUS
  <2>1. AtOrbit(s, m) + PeriodOf(s) <= AtOrbit(s, n)
    BY OrbitsAfter
  <2>2. AtOrbit(s, n) \in Int /\ AtOrbit(s, m) \in Int
    BY OrbitType
  <2>3. AtOrbit(s, m + 1) = AtOrbit(s, m) + PeriodOf(s)
    BY OrbitType
  <2> QED
    BY <2>1, <2>2, <2>3, <1>1, <1>12, <1>4, SatelliteIs
<1> QED
  BY <1>8, <1>12, <1>13

-----------------------------------------------------------------------------
(* Types and places. *)

Searching == {"forward", "turning", "following", "compare"}
Places == {"idle", "satellite", "done", "error"} \cup Searching

AskedOK ==
  /\ asked.lat \in Int /\ asked.lon \in Int /\ asked.t \in Int
  /\ asked.tol \in Nat /\ 4 * asked.tol <= Day
  /\ asked.height \in Nat /\ asked.region \in BOOLEAN

FirstOrbit == OrbitAt(Sat, asked.t)

(* The orbit that is searched, and what was computed for it.                 *)
OrbitOK ==
  /\ Reaches(Sat, asked.lat)
  /\ FirstOrbit \in Nat /\ orbit \in Nat
  /\ FirstOrbit <= orbit /\ orbit <= LastOrbit
  /\ crossings = Crossings(Sat, asked.lat, orbit)

TypeInv ==
  /\ satellites \in Ephemerides
  /\ AskedOK
  /\ pc \in Places /\ sat \in Nat /\ index \in {1, 2} /\ t \in Int
  /\ pc \in {"satellite"} \cup Searching => sat \in 1 .. Len(satellites)
  /\ pc \in Searching => OrbitOK

(* What is reported is a crossing within the window after the time asked     *)
(* for, with its direction.                                                  *)
IsPass(r) ==
  /\ r.sat \in 1 .. Len(satellites)
  /\ Reaches(satellites[r.sat], asked.lat)
  /\ OrbitAt(satellites[r.sat], asked.t) >= 0
  /\ \E n \in 0 .. LastOrbit, k \in {1, 2} :
       /\ r.culmination = Time(satellites[r.sat], asked.lat, n, k)
       /\ r.lon = HalfTurn(Angle(satellites[r.sat], asked.lat, n, k))
       /\ r.ascending = Going(k)
  /\ Distance(r.lon, asked.lon) <= asked.tol
  /\ r.culmination > asked.t

Closest == IF Turning(1) < Turning(2) THEN 1 ELSE 2
AheadOf(k) == Day - Turn(asked.lon - asked.tol - crossings[k].lon) < Day \div 2

(* The t of the search falls behind the time asked for only where the        *)
(* crossing that is followed has left the window and is the closest still.   *)
SinceInv ==
  /\ pc = "forward" => t = asked.t
  /\ pc = "turning" /\ orbit = FirstOrbit => t >= asked.t \/ ~AheadOf(Closest)
  /\ pc = "following" /\ orbit = FirstOrbit =>
       index = Closest /\ (t >= asked.t \/ ~AheadOf(Closest))

ReportInv ==
  /\ pc = "compare" => found.sat = sat /\ IsPass(found)
  /\ pc \notin {"idle", "error"} =>
       \/ best.culmination = Never
       \/ IsPass(best) /\ Served(satellites[best.sat])
  /\ pc = "done" => best.culmination # Never

Reports == [ culmination : Int, lon : Int, ascending : BOOLEAN, sat : Nat, duration : Int ]

(* A region that is served has been timed. *)
Timed(r) == r.culmination = Never \/ r.duration = 2 * asked.height

DurationInv ==
  /\ pc = "compare" => found \in Reports
  /\ pc \notin {"idle", "error"} /\ asked.region => Timed(best)
  /\ pc = "done" => best.culmination # Never

-----------------------------------------------------------------------------
(* What has been searched. *)

(* How far east of the window's eastern limit crossing k of orbit n is.      *)
Offset(k, n) == Angle(Sat, asked.lat, n, k) - asked.lon - asked.tol

(* A crossing of satellite s within the window, after the time asked for.    *)
Inside(s, n, k) ==
  /\ Distance(HalfTurn(Angle(s, asked.lat, n, k)), asked.lon) < asked.tol
  /\ Time(s, asked.lat, n, k) > asked.t

NoneUpTo(k, last) == \A n \in Nat : n <= last => ~Inside(Sat, n, k)

Other(k) == 3 - k

(* Crossing k, followed in orbit n, is o east of the eastern limit, less than *)
(* an orbit: it gets into the window with the next orbit, or is west of the   *)
(* limit and nothing was in the window before it.                             *)
Follows(o, k, n) ==
  /\ -PeriodOf(Sat) < o /\ o < PeriodOf(Sat)
  /\ Same(o, Offset(k, n))
  /\ o > 0 => /\ NoneUpTo(k, n) /\ NoneUpTo(Other(k), n + 1)
              /\ t < AtOrbit(Sat, n + 1)
  /\ o <= 0 => /\ NoneUpTo(k, n - 1) /\ NoneUpTo(Other(k), n)
               /\ t < AtOrbit(Sat, n)

NoneMissed ==
  /\ pc = "forward" => \A k \in {1, 2} : NoneUpTo(k, orbit - 1)
  /\ pc = "turning" => /\ \A k \in {1, 2} : NoneUpTo(k, orbit)
                       /\ t < AtOrbit(Sat, orbit + 1)
  /\ pc = "following" => \E o \in Int : Follows(o, index, orbit)
  /\ pc = "compare" =>
       \A n \in Nat, k \in {1, 2} :
         Inside(Sat, n, k) => found.culmination <= Time(Sat, asked.lat, n, k)

Compared(m) == pc \in {"satellite"} \cup Searching => m < sat

BestSoFar ==
  /\ pc # "idle" =>
       \A m \in 1 .. Len(satellites) : Compared(m) /\ Usable(satellites[m]) =>
         \A n \in Nat, k \in {1, 2} :
           Inside(satellites[m], n, k) =>
             best.culmination <= Time(satellites[m], asked.lat, n, k)
  /\ pc = "error" => satellites = << >> \/ best.culmination = Never

(* No window is as wide as two orbits of a satellite are apart.              *)
Narrow == \A k \in DOMAIN satellites : 2 * asked.tol < PeriodOf(satellites[k])

SearchedInv == Narrow => NoneMissed /\ BestSoFar

(* The orbits are low: four of them fit in a day.                            *)
LowOrbits == \A e \in Ephemerides : \A k \in DOMAIN e : 4 * PeriodOf(e[k]) <= Day

-----------------------------------------------------------------------------
LEMMA TableIs ==
  ASSUME satellites \in Ephemerides
  PROVE  /\ Len(satellites) \in Nat /\ DOMAIN satellites = 1 .. Len(satellites)
         /\ \A m \in 1 .. Len(satellites) : satellites[m] \in Satellite
<1>1. satellites \in Seq(Satellite)
  BY PassSearchAssumption
<1> QED
  BY <1>1

LEMMA SatIs ==
  ASSUME TypeInv, pc \in {"satellite"} \cup Searching
  PROVE  Sat \in Satellite
BY TableIs DEF TypeInv, Sat

LEMMA CrossingIs ==
  ASSUME TypeInv, pc \in Searching, NEW k \in {1, 2}
  PROVE  /\ crossings[k].t = Time(Sat, asked.lat, orbit, k)
         /\ crossings[k].lon = HalfTurn(Angle(Sat, asked.lat, orbit, k))
         /\ crossings[k].t \in Int /\ crossings[k].lon \in Int
         /\ Angle(Sat, asked.lat, orbit, k) \in Int
         /\ AtOrbit(Sat, orbit) \in Int /\ AtOrbit(Sat, orbit + 1) \in Int
         /\ AtOrbit(Sat, orbit) <= crossings[k].t
         /\ crossings[k].t < AtOrbit(Sat, orbit + 1)
<1>1. Sat \in Satellite /\ asked.lat \in Int /\ Reaches(Sat, asked.lat) /\ orbit \in Int
  BY SatIs DEF TypeInv, AskedOK, OrbitOK
<1>2. crossings = Crossings(Sat, asked.lat, orbit)
  BY DEF TypeInv, OrbitOK
<1>3. /\ crossings[k].t = Time(Sat, asked.lat, orbit, k)
      /\ crossings[k].lon = HalfTurn(Angle(Sat, asked.lat, orbit, k))
  BY <1>1, <1>2, CrossingsAre
<1>4. orbit + 1 \in Int
  BY <1>1
<1>5. /\ Time(Sat, asked.lat, orbit, k) \in Int /\ Angle(Sat, asked.lat, orbit, k) \in Int
      /\ AtOrbit(Sat, orbit) <= Time(Sat, asked.lat, orbit, k)
      /\ Time(Sat, asked.lat, orbit, k) < AtOrbit(Sat, orbit + 1)
  BY <1>1, TimeIs
<1>6. AtOrbit(Sat, orbit) \in Int /\ AtOrbit(Sat, orbit + 1) \in Int
  BY <1>1, <1>4, OrbitType
<1>7. HalfTurn(Angle(Sat, asked.lat, orbit, k)) \in Int
  BY <1>5, HalfTurnIs
<1> QED
  BY <1>3, <1>5, <1>6, <1>7

LEMMA TurningIs ==
  ASSUME TypeInv, pc \in Searching, NEW k \in {1, 2}
  PROVE  /\ Turning(k) \in 1 .. Day
         /\ Same(Turning(k), Offset(k, orbit))
         /\ Offset(k, orbit) \in Int
<1>1. PICK a \in Int, lon \in Int : a = Angle(Sat, asked.lat, orbit, k) /\ lon = crossings[k].lon
  BY CrossingIs
<1>2. lon = HalfTurn(a)
  BY <1>1, CrossingIs
<1>3. Same(lon, a)
  BY <1>2, HalfTurnIs
<1>4. PICK x \in Int, y \in Nat : x = asked.lon /\ y = asked.tol
  BY DEF TypeInv, AskedOK
<1>5. PICK d \in Int : d = x + y - lon
  BY <1>1, <1>4
<1>6. PICK r \in Int : r = Turn(d) /\ r \in 0 .. Day - 1 /\ Same(r, d)
  BY <1>5, TurnIs, DayOK
<1>7. Same(-r, -d)
  BY <1>5, <1>6, SameNegated
<1>8. -d = lon - (x + y)
  BY <1>5
<1>9. Same(lon - (x + y), a - (x + y))
  <2>1. x + y \in Int
    BY <1>4
  <2> QED
    BY <1>1, <1>3, <2>1, SameMoved
<1>10. Same(Day - r, -r)
  <2>1. Day - r = -r + 1 * Day /\ Day - r \in Int /\ -r \in Int
    BY <1>6, DayOK
  <2> QED
    BY <2>1, SameInt
<1>11. Turning(k) = Day - r
  BY <1>1, <1>4, <1>5, <1>6 DEF Turning
<1>12. Offset(k, orbit) = a - (x + y) /\ a - (x + y) \in Int
  BY <1>1, <1>4 DEF Offset
<1>13. Day - r \in Int /\ -r \in Int /\ -d \in Int /\ Day - r \in 1 .. Day
  BY <1>5, <1>6, DayOK
<1>14. Same(-r, a - (x + y))
  BY <1>7, <1>8, <1>9, <1>12, <1>13, SameChain
<1>15. Same(Day - r, a - (x + y))
  BY <1>10, <1>12, <1>13, <1>14, SameChain
<1> QED
  BY <1>11, <1>12, <1>13, <1>15

(* What TurnEarth computes. *)
LEMMA TurnedOrbit ==
  ASSUME TypeInv, pc = "turning", NEW k \in {1, 2}
  PROVE  /\ OrbitAt(Sat, crossings[k].t + Turning(k)) \in Nat
         /\ orbit <= OrbitAt(Sat, crossings[k].t + Turning(k))
         /\ AtOrbit(Sat, OrbitAt(Sat, crossings[k].t + Turning(k)))
              <= crossings[k].t + Turning(k)
         /\ crossings[k].t + Turning(k)
              < AtOrbit(Sat, OrbitAt(Sat, crossings[k].t + Turning(k)) + 1)
<1>1. pc \in Searching
  BY DEF Searching
<1>2. PICK c \in Int, d \in Int, a \in Int :
        c = crossings[k].t /\ d = Turning(k) /\ a = AtOrbit(Sat, orbit) /\ d > 0 /\ a <= c
  BY <1>1, CrossingIs, TurningIs, DayOK
<1>3. c + d \in Int /\ AtOrbit(Sat, orbit) <= c + d
  BY <1>2
<1>4. Sat \in Satellite /\ orbit \in Nat
  BY <1>1, SatIs DEF TypeInv, OrbitOK
<1> QED
  BY <1>2, <1>3, <1>4, OrbitOfTime

-----------------------------------------------------------------------------
LEMMA TypeInit == Init => TypeInv
<1> SUFFICES ASSUME Init PROVE TypeInv
  OBVIOUS
<1>1. PICK lats, lons, tols, times, heights :
        /\ asked \in [ lat : lats, lon : lons, tol : tols, t : times,
                       region : BOOLEAN, height : heights ]
        /\ lats \subseteq Int /\ lons \subseteq Int /\ times \subseteq Int
        /\ tols \subseteq 0 .. Day \div 4 /\ heights \subseteq Nat
  <2>1. /\ Latitudes \subseteq Int /\ Longitudes \subseteq Int /\ Times \subseteq Int
        /\ Tolerances \subseteq 0 .. Day \div 4 /\ Heights \cup {0} \subseteq Nat
    BY PassSearchAssumption
  <2> QED
    BY <2>1 DEF Init
<1>2. /\ asked.lat \in Int /\ asked.lon \in Int /\ asked.t \in Int
      /\ asked.tol \in 0 .. Day \div 4
      /\ asked.height \in Nat /\ asked.region \in BOOLEAN
  BY <1>1
<1>3. Day \div 4 \in Nat /\ 4 * (Day \div 4) <= Day
  BY DayOK
<1>4. asked.tol \in Nat /\ 4 * asked.tol <= Day
  BY <1>2, <1>3, DayOK
<1> QED
  BY <1>2, <1>4 DEF Init, TypeInv, AskedOK, Places, Searching

(* Steps that search no orbit. *)
LEMMA TypeCall == TypeInv /\ (NoSatellites \/ Call \/ Finished) => TypeInv'
<1>1. TypeInv /\ NoSatellites => TypeInv'
  BY DEF NoSatellites, Goto, TypeInv, AskedOK, Places, Searching
<1>2. TypeInv /\ Finished => TypeInv'
  BY DEF Finished, vars, TypeInv, AskedOK, Places, Searching, OrbitOK, Sat, FirstOrbit
<1>3. TypeInv /\ Call => TypeInv'
  <2> SUFFICES ASSUME TypeInv, Call PROVE TypeInv'
    OBVIOUS
  <2>1. satellites \in Ephemerides /\ satellites # << >>
    BY DEF TypeInv, Call
  <2>2. Len(satellites) \in Nat /\ satellites \in Seq(Satellite)
    BY <2>1, TableIs, PassSearchAssumption
  <2>3. 1 \in 1 .. Len(satellites)
    BY <2>1, <2>2
  <2> QED
    BY <2>3 DEF Call, Goto, TypeInv, AskedOK, Places, Searching
<1> QED
  BY <1>1, <1>2, <1>3

LEMMA TypeNextSat ==
  ASSUME TypeInv, pc \in {"satellite", "compare"}, NextSat,
         UNCHANGED << satellites, asked, index, t >>
  PROVE  TypeInv'
<1>1. Len(satellites) \in Nat /\ sat \in 1 .. Len(satellites)
  BY TableIs DEF TypeInv, Searching
<1>2. sat' = sat + 1 /\ sat' \in Nat
  BY <1>1 DEF NextSat
<1>3. \/ pc' = "satellite" /\ sat < Len(satellites)
      \/ pc' \in {"error", "done"}
  BY DEF NextSat
<1>4. pc' \in Places /\ pc' \notin Searching
  BY <1>3 DEF Places, Searching
<1>5. pc' = "satellite" => sat' \in 1 .. Len(satellites)
  BY <1>1, <1>2, <1>3
<1> QED
  BY <1>2, <1>4, <1>5 DEF TypeInv, AskedOK

(* Steps within the search of a satellite. *)
LEMMA TypeSearch ==
  ASSUME TypeInv, pc \in {"satellite"} \cup Searching, pc' \in Searching,
         UNCHANGED << satellites, asked, sat >>,
         index' \in {1, 2}, t' \in Int,
         Reaches(Sat, asked.lat), FirstOrbit \in Nat,
         orbit' \in Nat, FirstOrbit <= orbit', orbit' <= LastOrbit,
         crossings' = Crossings(Sat, asked.lat, orbit')
  PROVE  TypeInv'
<1>1. Sat' = Sat /\ FirstOrbit' = FirstOrbit
  BY DEF Sat, FirstOrbit
<1>2. OrbitOK'
  BY <1>1 DEF OrbitOK
<1>3. sat \in 1 .. Len(satellites)
  BY DEF TypeInv
<1> QED
  BY <1>2, <1>3 DEF TypeInv, AskedOK, Places

LEMMA TypeStep == ASSUME TypeInv, Search PROVE TypeInv'
<1>1. CASE Skip
  BY <1>1, TypeNextSat DEF Skip
<1>2. CASE Compare
  BY <1>2, TypeNextSat DEF Compare
<1>3. CASE Start
  <2>1. /\ pc = "satellite" /\ pc' = "forward" /\ UNCHANGED << satellites, asked, sat, index >>
        /\ FirstOrbit >= 0 /\ Reaches(Sat, asked.lat)
        /\ orbit' = FirstOrbit /\ orbit' <= LastOrbit /\ t' = asked.t
        /\ crossings' = Crossings(Sat, asked.lat, orbit')
    BY <1>3 DEF Start, Goto, FirstOrbit
  <2>2. asked.t \in Int /\ index \in {1, 2} /\ Sat \in Satellite
    BY <2>1, SatIs DEF TypeInv, AskedOK
  <2>3. FirstOrbit \in Nat
    BY <2>1, <2>2, OrbitAtIs DEF FirstOrbit
  <2> QED
    BY <2>1, <2>2, <2>3, TypeSearch DEF Searching
<1>4. ASSUME pc \in Searching, pc' \in Searching, UNCHANGED << satellites, asked, sat >>,
             index' \in {1, 2}, t' \in Int,
             \/ UNCHANGED << orbit, crossings >>
             \/ NextOrbit
      PROVE  TypeInv'
  <2>1. /\ Reaches(Sat, asked.lat) /\ FirstOrbit \in Nat /\ orbit \in Nat
        /\ FirstOrbit <= orbit /\ orbit <= LastOrbit /\ LastOrbit \in Nat
        /\ crossings = Crossings(Sat, asked.lat, orbit)
    BY <1>4, PassSearchAssumption DEF TypeInv, OrbitOK
  <2>2. /\ crossings' = Crossings(Sat, asked.lat, orbit')
        /\ orbit' = orbit \/ (orbit' = orbit + 1 /\ orbit < LastOrbit)
    BY <1>4, <2>1 DEF NextOrbit
  <2>3. orbit' \in Nat /\ FirstOrbit <= orbit' /\ orbit' <= LastOrbit
    BY <2>1, <2>2
  <2> QED
    BY <1>4, <2>1, <2>2, <2>3, TypeSearch
<1>5. t \in Int /\ index \in {1, 2}
  BY DEF TypeInv
<1>6. CASE Forward
  <2>1. /\ pc = "forward" /\ NextOrbit /\ UNCHANGED << satellites, asked, pc, sat, t, index >>
    BY <1>6 DEF Forward
  <2> QED
    BY <2>1, <1>4, <1>5 DEF Searching
<1>7. CASE ThisOrbit
  <2>1. /\ pc = "forward" /\ pc' \in {"compare", "turning"}
        /\ UNCHANGED << satellites, asked, sat, orbit, crossings, t, index >>
    BY <1>7 DEF ThisOrbit
  <2> QED
    BY <2>1, <1>4, <1>5 DEF Searching
<1>8. CASE TurnEarth
  <2>1. /\ pc = "turning" /\ pc' = "following" /\ UNCHANGED << satellites, asked, sat, t >>
        /\ index' \in {1, 2} /\ orbit' <= LastOrbit
        /\ crossings' = Crossings(Sat, asked.lat, orbit')
        /\ orbit' = OrbitAt(Sat, crossings[index'].t + Turning(index'))
    BY <1>8 DEF TurnEarth, Goto
  <2>2. pc \in Searching /\ pc' \in Searching
    BY <2>1 DEF Searching
  <2>3. /\ Reaches(Sat, asked.lat) /\ FirstOrbit \in Nat /\ FirstOrbit <= orbit /\ orbit \in Nat
    BY <2>2 DEF TypeInv, OrbitOK
  <2>4. orbit' \in Nat /\ orbit <= orbit'
    BY <2>1, TurnedOrbit
  <2>5. FirstOrbit <= orbit'
    BY <2>3, <2>4
  <2> QED
    BY <1>5, <2>1, <2>2, <2>3, <2>4, <2>5, TypeSearch
<1>9. CASE FollowFound
  <2>1. /\ pc = "following" /\ pc' = "compare"
        /\ UNCHANGED << satellites, asked, sat, orbit, crossings, t, index >>
    BY <1>9 DEF FollowFound, Goto
  <2> QED
    BY <2>1, <1>4, <1>5 DEF Searching
<1>10. CASE FollowNext
  <2>1. /\ pc = "following" /\ NextOrbit /\ UNCHANGED << satellites, asked, pc, sat, t, index >>
    BY <1>10 DEF FollowNext
  <2> QED
    BY <2>1, <1>4, <1>5 DEF Searching
<1>11. CASE FollowPast
  <2>1. /\ pc = "following" /\ pc' = "turning" /\ t' = crossings[index].t
        /\ UNCHANGED << satellites, asked, sat, orbit, crossings, index >>
    BY <1>11 DEF FollowPast, Goto
  <2>2. t' \in Int
    BY <2>1, <1>5, CrossingIs DEF Searching
  <2> QED
    BY <2>1, <2>2, <1>4, <1>5 DEF Searching
<1> QED
  BY <1>1, <1>2, <1>3, <1>6, <1>7, <1>8, <1>9, <1>10, <1>11 DEF Search

LEMMA TypeNext == TypeInv /\ [Next]_vars => TypeInv'
<1>1. TypeInv /\ UNCHANGED vars => TypeInv'
  BY DEF vars, TypeInv, AskedOK, Places, Searching, OrbitOK, Sat, FirstOrbit
<1> QED
  BY <1>1, TypeCall, TypeStep DEF Next

-----------------------------------------------------------------------------
(* How long the satellite is over the region. *)

LEMMA OrbitAtType ==
  ASSUME NEW s \in Satellite, NEW time \in Int
  PROVE  OrbitAt(s, time) \in Int
<1>1. PICK p \in Nat \ {0}, t0 \in Nat : p = PeriodOf(s) /\ t0 = s.t0
  BY SatelliteIs
<1>2. (time - t0) \div p \in Int /\ (t0 - time) \div p \in Int
  BY <1>1
<1> QED
  BY <1>1, <1>2 DEF OrbitAt

(* Where the region lies, the crossings of its limits that Duration takes    *)
(* are as far apart as the limits are.                                       *)
LEMMA DurationIs ==
  ASSUME TypeInv, pc = "compare", asked.region, Served(Sat), found.culmination \in Int
  PROVE  Duration = 2 * asked.height
<1>1. Sat \in Satellite /\ asked.lat \in Int /\ asked.height \in Nat
  BY SatIs DEF TypeInv, AskedOK, Searching
<1>2. PICK lo \in Int, hi \in Int :
        /\ lo = South /\ hi = NorthLimit /\ lo <= hi /\ hi - lo = 2 * asked.height
  BY <1>1 DEF South, NorthLimit
<1>3. Reaches(Sat, lo) /\ Reaches(Sat, hi) /\ (lo < 0 => hi # 0)
  BY <1>2 DEF Served
<1>4. PICK n \in Int : n = OrbitAt(Sat, found.culmination)
  BY <1>1, OrbitAtType
<1>5. PICK a \in Int, p \in Int, q \in Int :
        /\ a = AtOrbit(Sat, n) /\ a + p = AtOrbit(Sat, n + 1)
        /\ q = Sat.quarter /\ p = 4 * q
  <2>1. AtOrbit(Sat, n) \in Int /\ AtOrbit(Sat, n + 1) = AtOrbit(Sat, n) + PeriodOf(Sat)
    BY <1>1, <1>4, OrbitType
  <2>2. Sat.quarter \in Int /\ PeriodOf(Sat) \in Int /\ PeriodOf(Sat) = 4 * Sat.quarter
    BY <1>1, SatelliteIs
  <2> QED
    BY <2>1, <2>2
<1>6. ASSUME NEW lat \in {lo, hi}, NEW later \in {0, 1}, NEW k \in {1, 2}
      PROVE  Limits(lat, later)[k].t
               = a + (IF later = 0 THEN 0 ELSE p) + Phase(Sat, lat, k)
  <2>1. n + later \in Int /\ lat \in Int /\ Reaches(Sat, lat)
    BY <1>3
  <2>2. Limits(lat, later)[k].t = Time(Sat, lat, n + later, k)
    BY <1>1, <1>4, <2>1, CrossingsAre DEF Limits
  <2>3. AtOrbit(Sat, n + later) = a + (IF later = 0 THEN 0 ELSE p)
    <3>1. CASE later = 0
      <4>1. n + later = n
        BY <3>1
      <4> QED
        BY <1>5, <3>1, <4>1
    <3>2. CASE later = 1
      BY <1>5, <3>2
    <3> QED
      BY <3>1, <3>2
  <2> QED
    BY <2>2, <2>3 DEF Time
<1>7. ASSUME NEW lat \in {lo, hi}, NEW k \in {1, 2}
      PROVE  Phase(Sat, lat, k) =
               IF lat >= 0 THEN IF k = 1 THEN lat ELSE 2 * q - lat
                           ELSE IF k = 1 THEN 2 * q - lat ELSE lat + p
  BY <1>5 DEF Phase
<1>8. CASE lo < 0 /\ hi > 0
  <2>1. CASE found.ascending
    <3>1. Duration = Limits(hi, 1)[1].t - Limits(lo, 0)[2].t
      BY <1>2, <1>8, <2>1 DEF Duration
    <3>2. Limits(hi, 1)[1].t = a + p + hi /\ Limits(lo, 0)[2].t = a + 0 + (lo + p)
      BY <1>6, <1>7, <1>8
    <3> QED
      BY <1>2, <3>1, <3>2
  <2>2. CASE ~found.ascending
    <3>1. Duration = Limits(lo, 0)[1].t - Limits(hi, 0)[2].t
      BY <1>2, <1>8, <2>2 DEF Duration
    <3>2. Limits(lo, 0)[1].t = a + 0 + (2 * q - lo) /\ Limits(hi, 0)[2].t = a + 0 + (2 * q - hi)
      BY <1>6, <1>7, <1>8
    <3> QED
      BY <1>2, <3>1, <3>2
  <2> QED
    BY <2>1, <2>2
<1>9. CASE lo < 0 /\ ~(hi > 0)
  <2>0. hi < 0
    BY <1>3, <1>9
  <2>1. CASE found.ascending
    <3>1. Duration = Limits(hi, 0)[2].t - Limits(lo, 0)[2].t
      BY <1>2, <1>9, <2>1 DEF Duration
    <3>2. Limits(hi, 0)[2].t = a + 0 + (hi + p) /\ Limits(lo, 0)[2].t = a + 0 + (lo + p)
      BY <1>6, <1>7, <1>9, <2>0
    <3> QED
      BY <1>2, <3>1, <3>2
  <2>2. CASE ~found.ascending
    <3>1. Duration = Limits(lo, 0)[1].t - Limits(hi, 0)[1].t
      BY <1>2, <1>9, <2>2 DEF Duration
    <3>2. Limits(lo, 0)[1].t = a + 0 + (2 * q - lo) /\ Limits(hi, 0)[1].t = a + 0 + (2 * q - hi)
      BY <1>6, <1>7, <1>9, <2>0
    <3> QED
      BY <1>2, <3>1, <3>2
  <2> QED
    BY <2>1, <2>2
<1>10. CASE ~(lo < 0)
  <2>0. lo >= 0 /\ hi >= 0
    BY <1>2, <1>10
  <2>1. CASE found.ascending
    <3>1. Duration = Limits(hi, 0)[1].t - Limits(lo, 0)[1].t
      BY <1>2, <1>10, <2>1 DEF Duration
    <3>2. Limits(hi, 0)[1].t = a + 0 + hi /\ Limits(lo, 0)[1].t = a + 0 + lo
      BY <1>6, <1>7, <2>0
    <3> QED
      BY <1>2, <3>1, <3>2
  <2>2. CASE ~found.ascending
    <3>1. Duration = Limits(lo, 0)[2].t - Limits(hi, 0)[2].t
      BY <1>2, <1>10, <2>2 DEF Duration
    <3>2. Limits(lo, 0)[2].t = a + 0 + (2 * q - lo) /\ Limits(hi, 0)[2].t = a + 0 + (2 * q - hi)
      BY <1>6, <1>7, <2>0
    <3> QED
      BY <1>2, <3>1, <3>2
  <2> QED
    BY <2>1, <2>2
<1> QED
  BY <1>8, <1>9, <1>10

(* What a step of the search records. *)
LEMMA FoundIs ==
  ASSUME TypeInv, pc \in Searching, NEW k \in {1, 2}, Found(k)
  PROVE  /\ found' \in Reports
         /\ found'.culmination = crossings[k].t /\ found'.lon = crossings[k].lon
         /\ found'.ascending = Going(k) /\ found'.sat = sat
<1>1. found' = [ culmination |-> crossings[k].t, lon |-> crossings[k].lon,
                 ascending |-> Going(k), sat |-> sat, duration |-> 0 ]
  BY DEF Found, Nothing
<1>2. crossings[k].t \in Int /\ crossings[k].lon \in Int
  BY CrossingIs
<1>3. Going(k) \in BOOLEAN
  <2>1. asked.lat \in Int
    BY DEF TypeInv, AskedOK
  <2>2. Ascending(k, asked.lat) \in BOOLEAN
    <3>1. (asked.lat > 0) \in BOOLEAN /\ (asked.lat <= 0) \in BOOLEAN
      BY <2>1
    <3>2. Ascending(k, asked.lat) = (asked.lat > 0) \/ Ascending(k, asked.lat) = (asked.lat <= 0)
      BY Zenon DEF Ascending
    <3> QED
      BY <3>1, <3>2, Zenon
  <2> QED
    BY <2>2 DEF Going
<1>4. sat \in Nat
  BY DEF TypeInv
<1> QED
  BY <1>1, <1>2, <1>3, <1>4 DEF Reports

(* The comparison takes the pass that was found or leaves the best. *)
LEMMA CompareIs ==
  ASSUME Compare, found \in Reports
  PROVE  \/ /\ Served(Sat) /\ best.culmination > found.culmination
            /\ best'.culmination = found.culmination /\ best'.lon = found.lon
            /\ best'.ascending = found.ascending /\ best'.sat = found.sat
            /\ best'.duration = IF asked.region THEN Duration ELSE 0
         \/ /\ ~(Served(Sat) /\ best.culmination > found.culmination)
            /\ best' = best
<1>1. CASE Served(Sat) /\ best.culmination > found.culmination
  <2>1. PICK d : d = IF asked.region THEN Duration ELSE 0
    OBVIOUS
  <2>2. best' = [ found EXCEPT !.duration = d ]
    BY <1>1, <2>1 DEF Compare
  <2> QED
    BY <1>1, <2>1, <2>2 DEF Reports
<1>2. CASE ~(Served(Sat) /\ best.culmination > found.culmination)
  BY <1>2 DEF Compare
<1> QED
  BY <1>1, <1>2

LEMMA DurationStep == TypeInv /\ DurationInv /\ [Next]_vars => DurationInv'
<1> SUFFICES ASSUME TypeInv, DurationInv, [Next]_vars PROVE DurationInv'
  OBVIOUS
<1>1. ASSUME UNCHANGED << asked, best >>, pc \notin {"idle", "error"},
             pc' \in Places \ {"compare", "done"}
      PROVE  DurationInv'
  BY <1>1 DEF DurationInv, Timed
<1>2. CASE UNCHANGED vars
  BY <1>2 DEF vars, DurationInv, Timed
<1>3. CASE NoSatellites
  BY <1>3 DEF NoSatellites, Goto, DurationInv
<1>4. CASE Call
  BY <1>4 DEF Call, Goto, DurationInv, Timed, Nothing
<1>5. CASE Finished
  BY <1>5 DEF Finished, vars, DurationInv, Timed
<1>6. CASE Skip
  <2>1. /\ pc = "satellite" /\ UNCHANGED << best, asked >>
        /\ pc' = IF sat < Len(satellites) THEN "satellite"
                 ELSE IF best'.culmination = Never THEN "error" ELSE "done"
    BY <1>6 DEF Skip, NextSat
  <2> QED
    BY <2>1 DEF DurationInv, Timed
<1>7. CASE Start
  BY <1>7, <1>1 DEF Start, Goto, Places, Searching
<1>8. CASE Forward
  BY <1>8, <1>1 DEF Forward, Places, Searching
<1>9. CASE ThisOrbit
  <2>1. /\ pc = "forward" /\ UNCHANGED << asked, best >>
        /\ \/ pc' = "compare" /\ \E k \in {1, 2} : Found(k)
           \/ pc' = "turning"
    BY <1>9 DEF ThisOrbit
  <2>2. pc' = "compare" => found' \in Reports
    BY <2>1, FoundIs DEF Searching
  <2> QED
    BY <2>1, <2>2 DEF DurationInv, Timed
<1>10. CASE TurnEarth
  BY <1>10, <1>1 DEF TurnEarth, Goto, Places, Searching
<1>11. CASE FollowFound
  <2>1. /\ pc = "following" /\ UNCHANGED << asked, best >> /\ pc' = "compare" /\ Found(index)
        /\ index \in {1, 2}
    BY <1>11 DEF FollowFound, Goto, TypeInv
  <2>2. found' \in Reports
    BY <2>1, FoundIs DEF Searching
  <2> QED
    BY <2>1, <2>2 DEF DurationInv, Timed
<1>12. CASE FollowNext
  BY <1>12, <1>1 DEF FollowNext, Places, Searching
<1>13. CASE FollowPast
  BY <1>13, <1>1 DEF FollowPast, Goto, Places, Searching
<1>14. CASE Compare
  <2>1. /\ pc = "compare" /\ UNCHANGED asked
        /\ pc' \in {"satellite", "error", "done"}
        /\ pc' = "done" => best'.culmination # Never
    BY <1>14 DEF Compare, NextSat
  <2>2. found \in Reports
    BY <2>1 DEF DurationInv
  <2>3. asked.region /\ Served(Sat) => Duration = 2 * asked.height
    BY <2>1, <2>2, DurationIs DEF Reports
  <2>4. asked.region => Timed(best)'
    <3>1. CASE best' = best
      BY <2>1, <3>1 DEF DurationInv, Timed
    <3>2. CASE Served(Sat) /\ best'.duration = IF asked.region THEN Duration ELSE 0
      BY <2>1, <2>3, <3>2 DEF Timed
    <3> QED
      BY <3>1, <3>2, <2>2, <1>14, CompareIs
  <2> QED
    BY <2>1, <2>4 DEF DurationInv
<1> QED
  BY <1>2, <1>3, <1>4, <1>5, <1>6, <1>7, <1>8, <1>9, <1>10, <1>11, <1>12, <1>13, <1>14
     DEF Next, Search

(* The duration that is reported for a region is the time from one of its    *)
(* limits to the other, whatever the region, the orbit and the direction.    *)
THEOREM DurationOfRegion == Spec => []DurationRight
<1>1. Init => DurationInv
  BY DEF Init, DurationInv
<1>2. DurationInv => DurationRight
  BY DEF DurationInv, DurationRight, Timed
<1> QED
  BY TypeInit, TypeNext, DurationStep, <1>1, <1>2, PTL DEF Spec

-----------------------------------------------------------------------------
(* What is reported is a pass. *)

(* An orbit after the one of the time asked for has its crossings after it. *)
LEMMA LaterOrbit ==
  ASSUME TypeInv, pc \in Searching, FirstOrbit < orbit, NEW k \in {1, 2}
  PROVE  asked.t < crossings[k].t
<1>1. Sat \in Satellite /\ asked.t \in Int /\ FirstOrbit \in Nat /\ orbit \in Nat
  BY SatIs DEF TypeInv, AskedOK, OrbitOK
<1>2. asked.t < AtOrbit(Sat, FirstOrbit + 1)
  BY <1>1, OrbitAtIs DEF FirstOrbit
<1>3. AtOrbit(Sat, FirstOrbit) + PeriodOf(Sat) <= AtOrbit(Sat, orbit)
  <2>1. FirstOrbit \in Int /\ orbit \in Int /\ FirstOrbit < orbit
    BY <1>1
  <2> QED
    BY <1>1, <2>1, OrbitsAfter
<1>4. AtOrbit(Sat, FirstOrbit + 1) = AtOrbit(Sat, FirstOrbit) + PeriodOf(Sat)
  BY <1>1, OrbitType
<1>5. /\ AtOrbit(Sat, FirstOrbit) \in Int /\ PeriodOf(Sat) \in Int /\ AtOrbit(Sat, orbit) \in Int
  BY <1>1, OrbitType, SatelliteIs
<1>6. AtOrbit(Sat, orbit) <= crossings[k].t /\ crossings[k].t \in Int
  BY CrossingIs
<1> QED
  BY <1>1, <1>2, <1>3, <1>4, <1>5, <1>6

LEMMA SinceStep == TypeInv /\ SinceInv /\ [Next]_vars => SinceInv'
<1> SUFFICES ASSUME TypeInv, SinceInv, [Next]_vars PROVE SinceInv'
  OBVIOUS
<1>1. ASSUME pc' \notin {"forward", "turning", "following"} PROVE SinceInv'
  BY <1>1 DEF SinceInv
<1>2. ASSUME UNCHANGED << satellites, asked, sat >>
      PROVE  FirstOrbit' = FirstOrbit
  BY <1>2 DEF FirstOrbit, Sat
<1>3. ASSUME UNCHANGED << asked, crossings >>
      PROVE  Closest' = Closest /\ AheadOf(Closest)' = AheadOf(Closest)
  <2>1. Closest' = Closest
    BY <1>3 DEF Closest, Turning
  <2> QED
    BY <1>3, <2>1 DEF AheadOf
<1>4. CASE UNCHANGED vars
  <2>1. FirstOrbit' = FirstOrbit /\ Closest' = Closest /\ AheadOf(Closest)' = AheadOf(Closest)
    BY <1>2, <1>3, <1>4 DEF vars
  <2> QED
    BY <1>4, <2>1 DEF vars, SinceInv
<1>5. CASE NoSatellites \/ Call \/ Skip \/ FollowFound \/ Compare
  <2>1. pc' \in {"error", "satellite", "compare", "done"}
    BY <1>5 DEF NoSatellites, Call, Skip, FollowFound, Compare, Goto, NextSat
  <2> QED
    BY <2>1, <1>1
<1>6. CASE Finished
  BY <1>6, <1>4 DEF Finished
<1>7. CASE Start
  BY <1>7 DEF Start, Goto, SinceInv
<1>8. CASE Forward
  BY <1>8 DEF Forward, SinceInv
<1>9. CASE ThisOrbit
  <2>1. pc = "forward" /\ pc' \in {"compare", "turning"} /\ UNCHANGED << t, asked >>
    BY <1>9 DEF ThisOrbit
  <2>2. t = asked.t /\ t \in Int
    BY <2>1 DEF SinceInv, TypeInv
  <2> QED
    BY <2>1, <2>2 DEF SinceInv
<1>10. CASE TurnEarth
  <2>1. /\ pc = "turning" /\ pc' = "following" /\ UNCHANGED << satellites, asked, sat, t >>
        /\ index' = Closest /\ crossings' = Crossings(Sat, asked.lat, orbit')
        /\ orbit' = OrbitAt(Sat, crossings[index'].t + Turning(index'))
    BY <1>10 DEF TurnEarth, Goto, Closest
  <2>2. index' \in {1, 2}
    BY <2>1 DEF Closest
  <2>3. orbit <= orbit' /\ orbit' \in Nat
    BY <2>1, <2>2, TurnedOrbit
  <2>4. /\ FirstOrbit <= orbit /\ FirstOrbit \in Nat /\ orbit \in Nat
        /\ crossings = Crossings(Sat, asked.lat, orbit)
    BY <2>1 DEF TypeInv, OrbitOK, Searching
  <2>5. FirstOrbit' = FirstOrbit
    BY <2>1, <1>2
  <2>6. CASE orbit' = FirstOrbit
    <3>1. orbit = FirstOrbit
      BY <2>3, <2>4, <2>6
    <3>2. crossings' = crossings
      BY <2>1, <2>4, <2>6, <3>1
    <3>3. Closest' = Closest /\ AheadOf(Closest)' = AheadOf(Closest)
      BY <2>1, <3>2, <1>3
    <3>4. t >= asked.t \/ ~AheadOf(Closest)
      BY <2>1, <3>1 DEF SinceInv
    <3> QED
      BY <2>1, <3>3, <3>4 DEF SinceInv
  <2>7. CASE orbit' # FirstOrbit
    BY <2>1, <2>5, <2>7 DEF SinceInv
  <2> QED
    BY <2>6, <2>7
<1>11. CASE FollowNext
  <2>1. /\ pc = "following" /\ pc' = "following" /\ UNCHANGED << satellites, asked, sat, t >>
        /\ orbit' = orbit + 1
    BY <1>11 DEF FollowNext, NextOrbit
  <2>2. FirstOrbit <= orbit /\ FirstOrbit \in Nat /\ orbit \in Nat
    BY <2>1 DEF TypeInv, OrbitOK, Searching
  <2>3. FirstOrbit' = FirstOrbit
    BY <2>1, <1>2
  <2>4. orbit' # FirstOrbit
    BY <2>1, <2>2
  <2> QED
    BY <2>1, <2>3, <2>4 DEF SinceInv
<1>12. CASE FollowPast
  <2>1. /\ pc = "following" /\ pc' = "turning" /\ ~Ahead
        /\ UNCHANGED << satellites, asked, sat, orbit, crossings, index >>
    BY <1>12 DEF FollowPast, Goto
  <2>2. FirstOrbit' = FirstOrbit /\ AheadOf(Closest)' = AheadOf(Closest)
    BY <2>1, <1>2, <1>3
  <2>3. orbit = FirstOrbit => index = Closest
    BY <2>1 DEF SinceInv
  <2>4. ~AheadOf(index)
    BY <2>1 DEF Ahead, AheadOf
  <2>5. orbit = FirstOrbit => ~AheadOf(Closest)
    BY <2>3, <2>4
  <2> QED
    BY <2>1, <2>2, <2>5 DEF SinceInv
<1> QED
  BY <1>4, <1>5, <1>6, <1>7, <1>8, <1>9, <1>10, <1>11, <1>12 DEF Next, Search

LEMMA PassCopied ==
  ASSUME NEW r, NEW u, IsPass(r),
         u.sat = r.sat, u.culmination = r.culmination, u.lon = r.lon, u.ascending = r.ascending
  PROVE  IsPass(u)
<1>1. PICK n \in 0 .. LastOrbit, k \in {1, 2} :
        /\ r.culmination = Time(satellites[r.sat], asked.lat, n, k)
        /\ r.lon = HalfTurn(Angle(satellites[r.sat], asked.lat, n, k))
        /\ r.ascending = Going(k)
  BY DEF IsPass
<1> QED
  BY <1>1 DEF IsPass

LEMMA FoundPass ==
  ASSUME TypeInv, pc \in Searching, NEW k \in {1, 2}, Found(k),
         Visible(crossings[k]), asked.t < crossings[k].t,
         UNCHANGED << satellites, asked, sat >>
  PROVE  (found.sat = sat /\ IsPass(found))'
<1>1. /\ found'.culmination = crossings[k].t /\ found'.lon = crossings[k].lon
      /\ found'.ascending = Going(k) /\ found'.sat = sat
  BY FoundIs
<1>2. /\ crossings[k].t = Time(Sat, asked.lat, orbit, k)
      /\ crossings[k].lon = HalfTurn(Angle(Sat, asked.lat, orbit, k))
      /\ crossings[k].t \in Int /\ asked.t \in Int
  BY CrossingIs DEF TypeInv, AskedOK
<1>3. /\ Reaches(Sat, asked.lat) /\ OrbitAt(Sat, asked.t) \in Nat
      /\ orbit \in Nat /\ orbit <= LastOrbit /\ LastOrbit \in Nat
      /\ sat \in 1 .. Len(satellites)
  BY PassSearchAssumption DEF TypeInv, OrbitOK, FirstOrbit
<1>4. IsPass(found')
  <2>1. Sat = satellites[found'.sat] /\ found'.sat \in 1 .. Len(satellites)
    BY <1>1, <1>3 DEF Sat
  <2>2. /\ Reaches(satellites[found'.sat], asked.lat)
        /\ OrbitAt(satellites[found'.sat], asked.t) >= 0
    BY <1>3, <2>1
  <2>3. orbit \in 0 .. LastOrbit
    BY <1>3
  <2>4. /\ found'.culmination = Time(satellites[found'.sat], asked.lat, orbit, k)
        /\ found'.lon = HalfTurn(Angle(satellites[found'.sat], asked.lat, orbit, k))
    BY <1>1, <1>2, <2>1
  <2>5. Distance(found'.lon, asked.lon) <= asked.tol
    BY <1>1 DEF Visible
  <2>6. found'.culmination > asked.t
    BY <1>1, <1>2
  <2> QED
    BY <1>1, <2>1, <2>2, <2>3, <2>4, <2>5, <2>6 DEF IsPass
<1> QED
  BY <1>1, <1>4 DEF IsPass, Going, Ascending

LEMMA ReportStep == TypeInv /\ SinceInv /\ DurationInv /\ ReportInv /\ [Next]_vars => ReportInv'
<1> SUFFICES ASSUME TypeInv, SinceInv, DurationInv, ReportInv, [Next]_vars PROVE ReportInv'
  OBVIOUS
<1>1. ASSUME UNCHANGED << satellites, asked >>
      PROVE  /\ IsPass(best') => IsPass(best)'
             /\ Served(satellites[best'.sat]) => Served(satellites[best.sat])'
  BY <1>1 DEF IsPass, Going, Ascending, Served, South, NorthLimit
<1>2. ASSUME UNCHANGED << satellites, asked, best >>, pc \notin {"idle", "error"},
             pc' \in {"satellite", "error"} \cup (Searching \ {"compare"})
      PROVE  ReportInv'
  BY <1>1, <1>2 DEF ReportInv, Searching
<1>3. ASSUME UNCHANGED << satellites, asked, best >>, pc \notin {"idle", "error"},
             pc' = "compare", (found.sat = sat /\ IsPass(found))'
      PROVE  ReportInv'
  BY <1>1, <1>3 DEF ReportInv
<1>4. CASE UNCHANGED vars
  BY <1>4 DEF vars, ReportInv, IsPass, Going, Ascending, Served, South, NorthLimit
<1>5. CASE NoSatellites
  BY <1>5 DEF NoSatellites, Goto, ReportInv
<1>6. CASE Call
  BY <1>6 DEF Call, Goto, ReportInv, Nothing
<1>7. CASE Finished
  BY <1>4, <1>7 DEF Finished
<1>8. CASE Skip
  <2>1. /\ pc = "satellite" /\ UNCHANGED << satellites, asked, best >>
        /\ pc' = IF sat < Len(satellites) THEN "satellite"
                 ELSE IF best'.culmination = Never THEN "error" ELSE "done"
    BY <1>8 DEF Skip, NextSat
  <2> QED
    BY <1>1, <2>1 DEF ReportInv
<1>9. CASE Start
  BY <1>9, <1>2 DEF Start, Goto, Searching
<1>10. CASE Forward
  BY <1>10, <1>2 DEF Forward, Searching
<1>11. CASE ThisOrbit
  <2>1. /\ pc = "forward" /\ UNCHANGED << satellites, asked, sat, best >>
        /\ \/ pc' = "compare" /\ \E k \in {1, 2} : Seen(k) /\ Found(k)
           \/ pc' = "turning"
    BY <1>11 DEF ThisOrbit
  <2>2. t = asked.t /\ pc \in Searching
    BY <2>1 DEF SinceInv, Searching
  <2>3. CASE pc' = "compare"
    <3>1. PICK k \in {1, 2} : Seen(k) /\ Found(k)
      BY <2>1, <2>3
    <3>2. Visible(crossings[k]) /\ asked.t < crossings[k].t
      BY <2>2, <3>1, CrossingIs DEF Seen, TypeInv, AskedOK
    <3> QED
      BY <1>3, <2>1, <2>2, <2>3, <3>1, <3>2, FoundPass
  <2>4. CASE pc' = "turning"
    BY <1>2, <2>1, <2>4 DEF Searching
  <2> QED
    BY <2>1, <2>3, <2>4
<1>12. CASE TurnEarth
  BY <1>12, <1>2 DEF TurnEarth, Goto, Searching
<1>13. CASE FollowFound
  <2>1. /\ pc = "following" /\ UNCHANGED << satellites, asked, sat, best >> /\ pc' = "compare"
        /\ Ahead /\ Seen(index) /\ Found(index) /\ index \in {1, 2}
    BY <1>13 DEF FollowFound, Goto, TypeInv
  <2>2. pc \in Searching /\ t \in Int /\ asked.t \in Int /\ crossings[index].t \in Int
    BY <2>1, CrossingIs DEF Searching, TypeInv, AskedOK
  <2>3. FirstOrbit <= orbit /\ FirstOrbit \in Nat /\ orbit \in Nat
    BY <2>2 DEF TypeInv, OrbitOK
  <2>4. asked.t < crossings[index].t
    <3>1. CASE orbit = FirstOrbit
      <4>1. index = Closest /\ (t >= asked.t \/ ~AheadOf(Closest))
        BY <2>1, <3>1 DEF SinceInv
      <4>2. AheadOf(index)
        BY <2>1 DEF Ahead, AheadOf
      <4>3. t >= asked.t
        BY <4>1, <4>2
      <4> QED
        BY <2>1, <2>2, <4>3 DEF Seen
    <3>2. CASE orbit # FirstOrbit
      BY <2>1, <2>2, <2>3, <3>2, LaterOrbit
    <3> QED
      BY <3>1, <3>2
  <2>5. Visible(crossings[index])
    BY <2>1 DEF Seen
  <2> QED
    BY <1>3, <2>1, <2>2, <2>4, <2>5, FoundPass
<1>14. CASE FollowNext
  BY <1>14, <1>2 DEF FollowNext, Searching
<1>15. CASE FollowPast
  BY <1>15, <1>2 DEF FollowPast, Goto, Searching
<1>16. CASE Compare
  <2>1. /\ pc = "compare" /\ UNCHANGED << satellites, asked >>
        /\ pc' \in {"satellite", "error", "done"}
        /\ pc' = "done" => best'.culmination # Never
    BY <1>16 DEF Compare, NextSat
  <2>2. found \in Reports /\ found.sat = sat /\ IsPass(found)
    BY <2>1 DEF DurationInv, ReportInv
  <2>3. best'.culmination = Never \/ (IsPass(best') /\ Served(satellites[best'.sat]))
    <3>1. CASE best' = best
      BY <2>1, <3>1 DEF ReportInv
    <3>2. CASE /\ Served(Sat)
               /\ best'.culmination = found.culmination /\ best'.lon = found.lon
               /\ best'.ascending = found.ascending /\ best'.sat = found.sat
      BY <2>2, <3>2, PassCopied DEF Sat
    <3> QED
      BY <1>16, <2>2, <3>1, <3>2, CompareIs
  <2> QED
    BY <1>1, <2>1, <2>3 DEF ReportInv
<1> QED
  BY <1>4, <1>5, <1>6, <1>7, <1>8, <1>9, <1>10, <1>11, <1>12, <1>13, <1>14, <1>15, <1>16
     DEF Next, Search

(* By the definition of the passes, what IsPass says is one of them.         *)
LEMMA PassReported ==
  ASSUME TypeInv, IsPass(best), Served(satellites[best.sat])
  PROVE  \E p \in Reported : asked.region \/ asked.lat # 0 => p.up = best.ascending
<1>1. PICK m \in 1 .. Len(satellites) : m = best.sat
  BY DEF IsPass
<1>2. PICK n \in 0 .. LastOrbit, k \in {1, 2} :
        /\ best.culmination = Time(satellites[m], asked.lat, n, k)
        /\ best.lon = HalfTurn(Angle(satellites[m], asked.lat, n, k))
        /\ best.ascending = Going(k)
  BY <1>1 DEF IsPass
<1>3. satellites[m] \in Satellite /\ asked.lat \in Int /\ DOMAIN satellites = 1 .. Len(satellites)
  BY TableIs DEF TypeInv, AskedOK
<1>4. Usable(satellites[m])
  BY <1>1 DEF IsPass, Usable
<1>5. PICK c : c = Crossings(satellites[m], asked.lat, n)
  OBVIOUS
<1>6. c[k].t = best.culmination /\ c[k].lon = best.lon
  <2>1. n \in Int /\ Reaches(satellites[m], asked.lat)
    BY <1>4, PassSearchAssumption DEF Usable
  <2> QED
    BY <1>2, <1>3, <1>5, <2>1, CrossingsAre
<1>7. Visible(c[k]) /\ c[k].t > asked.t
  BY <1>6 DEF IsPass, Visible
<1>8. PICK up \in BOOLEAN : up = ((asked.lat >= 0) = (k = 1))
  OBVIOUS
<1> DEFINE p == [ sat |-> m, t |-> c[k].t, lon |-> c[k].lon, up |-> up ]
<1>9. p \in PassesOf(m)
  <2>1. k \in { j \in 1 .. 2 : Visible(c[j]) /\ c[j].t > asked.t }
    BY <1>7
  <2> QED
    BY <1>5, <1>8, <2>1 DEF PassesOf
<1>10. p \in Passes
  BY <1>3, <1>4, <1>9 DEF Passes
<1>11. p \in Reported
  BY <1>1, <1>6, <1>10 DEF Reported
<1>12. asked.region \/ asked.lat # 0 => up = Going(k)
  <2>1. CASE k = 1
    BY <1>3, <1>8, <2>1 DEF Going, Ascending
  <2>2. CASE k = 2
    BY <1>3, <1>8, <2>2 DEF Going, Ascending
  <2> QED
    BY <2>1, <2>2
<1> QED
  BY <1>2, <1>11, <1>12

(* What is reported is a pass over the place after the time asked for, with  *)
(* the satellite's direction, whatever the satellites and their orbits.      *)
THEOREM ReportedIsPass == Spec => []PassVisible
<1>1. Init => SinceInv /\ DurationInv /\ ReportInv
  BY DEF Init, SinceInv, DurationInv, ReportInv
<1>2. TypeInv /\ ReportInv => PassVisible
  BY PassReported DEF ReportInv, PassVisible
<1> QED
  BY TypeInit, TypeNext, SinceStep, DurationStep, ReportStep, <1>1, <1>2, PTL DEF Spec

-----------------------------------------------------------------------------
(* Where a crossing is, relative to the window. *)

LEMMA BackTurn ==
  ASSUME NEW b \in Int
  PROVE  Day - Turn(b) \in 1 .. Day /\ Same(Day - Turn(b), -b)
<1>1. PICK r \in Int : r = Turn(b) /\ r \in 0 .. Day - 1 /\ Same(r, b)
  BY TurnIs, DayOK
<1>2. Same(-r, -b)
  BY <1>1, SameNegated
<1>3. Day - r = -r + 1 * Day /\ Day - r \in Int /\ -r \in Int /\ -b \in Int
  BY <1>1, DayOK
<1>4. Same(Day - r, -r)
  BY <1>3, SameInt
<1>5. Same(Day - r, -b)
  BY <1>2, <1>3, <1>4, SameChain
<1>6. Day - r \in 1 .. Day
  BY <1>1, DayOK
<1> QED
  BY <1>1, <1>5, <1>6

(* A device and a crossing at angle a; o is how far east of the eastern      *)
(* limit that is, to within whole turns.                                     *)
At(o, a) == Same(o, a - asked.lon - asked.tol)

LEMMA DistanceAt ==
  ASSUME AskedOK, NEW a \in Int, NEW o \in Int, At(o, a)
  PROVE  \E d \in Int :
           /\ -(Day \div 2) <= d /\ d < Day \div 2
           /\ Distance(HalfTurn(a), asked.lon) = IF d < 0 THEN -d ELSE d
           /\ Same(d - asked.tol, o)
<1>1. PICK x \in Int, y \in Int : x = asked.lon /\ y = asked.tol
  BY DEF AskedOK
<1>2. PICK l \in Int : l = HalfTurn(a) /\ Same(l, a)
  BY HalfTurnIs
<1>3. PICK d \in Int : /\ Same(d, l - x) /\ -(Day \div 2) <= d /\ d < Day \div 2
                       /\ Distance(l, x) = IF d < 0 THEN -d ELSE d
  BY DistanceIs
<1>4. Same(l - x, a - x)
  BY <1>2, SameMoved
<1>5. Same(d, a - x)
  <2>1. l - x \in Int /\ a - x \in Int
    OBVIOUS
  <2> QED
    BY <1>3, <1>4, <2>1, SameChain
<1>6. Same(d - y, (a - x) - y)
  <2>1. a - x \in Int
    OBVIOUS
  <2> QED
    BY <1>5, <2>1, SameMoved
<1>7. Same((a - x) - y, o)
  <2>1. (a - x) - y \in Int /\ Same(o, (a - x) - y)
    BY <1>1 DEF At
  <2> QED
    BY <2>1, SameBack
<1>8. Same(d - y, o)
  <2>1. (a - x) - y \in Int /\ d - y \in Int
    OBVIOUS
  <2> QED
    BY <1>6, <1>7, <2>1, SameChain
<1> QED
  BY <1>1, <1>2, <1>3, <1>8

LEMMA OutsideIs ==
  ASSUME AskedOK, NEW a \in Int, NEW o \in Int, At(o, a), 0 <= o, o <= Day - 2 * asked.tol
  PROVE  /\ ~(Distance(HalfTurn(a), asked.lon) < asked.tol)
         /\ 0 < o /\ o < Day - 2 * asked.tol => ~(Distance(HalfTurn(a), asked.lon) <= asked.tol)
<1>1. PICK y \in Nat : y = asked.tol
  BY DEF AskedOK
<1>2. PICK d \in Int : /\ Distance(HalfTurn(a), asked.lon) = IF d < 0 THEN -d ELSE d
                       /\ Same(d - y, o)
  BY <1>1, DistanceAt
<1>3. d - y \in Int /\ Day \in Int
  BY DayOK
<1>4. ASSUME d - y - o < Day, o - (d - y) < Day PROVE d - y = o
  BY <1>2, <1>3, <1>4, SameNear
<1>5. ASSUME -y < d, d < y PROVE FALSE
  <2>1. d - y - o < Day /\ o - (d - y) < Day
    BY <1>1, <1>3, <1>5
  <2>2. d - y = o
    BY <1>4, <2>1
  <2> QED
    BY <1>5, <2>2
<1>6. ASSUME -y <= d, d <= y, 0 < o, o < Day - 2 * y PROVE FALSE
  <2>1. d - y - o < Day /\ o - (d - y) < Day
    BY <1>1, <1>3, <1>6
  <2>2. d - y = o
    BY <1>4, <2>1
  <2> QED
    BY <1>6, <2>2
<1>7. ~((IF d < 0 THEN -d ELSE d) < y)
  BY <1>5
<1>8. 0 < o /\ o < Day - 2 * y => ~((IF d < 0 THEN -d ELSE d) <= y)
  BY <1>6
<1> QED
  BY <1>1, <1>2, <1>7, <1>8

LEMMA WithinIs ==
  ASSUME AskedOK, NEW a \in Int, NEW o \in Int, At(o, a), -(2 * asked.tol) <= o, o <= 0
  PROVE  Distance(HalfTurn(a), asked.lon) <= asked.tol
<1>1. PICK y \in Nat : y = asked.tol /\ 4 * y <= Day
  BY DEF AskedOK
<1>2. PICK d \in Int : /\ Distance(HalfTurn(a), asked.lon) = IF d < 0 THEN -d ELSE d
                       /\ -(Day \div 2) <= d /\ d < Day \div 2
                       /\ Same(d - y, o)
  BY <1>1, DistanceAt
<1>3. PICK h \in Nat \ {0} : h = Day \div 2 /\ Day = 2 * h
  BY HalfDayIs
<1>4. d - y \in Int /\ d - y - o < Day /\ o - (d - y) < Day
  BY <1>1, <1>2, <1>3
<1>5. d - y = o
  BY <1>2, <1>4, SameNear
<1>6. -y <= d /\ d <= y
  BY <1>1, <1>5
<1> QED
  BY <1>1, <1>2, <1>6

(* The western limit is to come, or behind. *)
LEMMA AheadIs ==
  ASSUME AskedOK, NEW a \in Int, NEW o \in Int, At(o, a)
  PROVE  /\ 0 < o + 2 * asked.tol /\ o + 2 * asked.tol < Day \div 2 =>
              Day - Turn(asked.lon - asked.tol - HalfTurn(a)) < Day \div 2
         /\ -(Day \div 2) <= o + 2 * asked.tol /\ o + 2 * asked.tol <= 0 =>
              ~(Day - Turn(asked.lon - asked.tol - HalfTurn(a)) < Day \div 2)
<1>1. PICK x \in Int, y \in Nat : x = asked.lon /\ y = asked.tol
  BY DEF AskedOK
<1>2. PICK l \in Int : l = HalfTurn(a) /\ Same(l, a)
  BY HalfTurnIs
<1>3. PICK b \in Int : b = x - y - l
  OBVIOUS
<1>4. PICK w \in Int : w = Day - Turn(b) /\ w \in 1 .. Day /\ Same(w, -b)
  BY <1>3, BackTurn
<1>5. PICK h \in Nat \ {0} : h = Day \div 2 /\ Day = 2 * h
  BY HalfDayIs
<1>6. Same(w, o + 2 * y)
  <2>1. -b = l - (x - y) /\ -b \in Int /\ x - y \in Int
    BY <1>3
  <2>2. Same(l - (x - y), a - (x - y))
    BY <1>2, <2>1, SameMoved
  <2>3. Same(o + 2 * y, (a - x - y) + 2 * y)
    <3>1. a - x - y \in Int /\ 2 * y \in Int /\ Same(o, a - x - y)
      BY <1>1 DEF At
    <3> QED
      BY <3>1, SameMoved
  <2>4. (a - x - y) + 2 * y = a - (x - y) /\ a - (x - y) \in Int /\ o + 2 * y \in Int
    OBVIOUS
  <2>5. Same(a - (x - y), o + 2 * y)
    BY <2>3, <2>4, SameBack
  <2>6. Same(w, a - (x - y))
    BY <1>4, <2>1, <2>2, <2>4, SameChain
  <2> QED
    BY <2>4, <2>5, <2>6, SameChain
<1>7. ASSUME 0 < o + 2 * y, o + 2 * y < h PROVE w < h
  <2>1. w - (o + 2 * y) < Day /\ (o + 2 * y) - w < Day /\ o + 2 * y \in Int
    BY <1>4, <1>5, <1>7
  <2>2. w = o + 2 * y
    BY <1>6, <2>1, SameNear
  <2> QED
    BY <1>7, <2>2
<1>8. ASSUME -h <= o + 2 * y, o + 2 * y <= 0 PROVE ~(w < h)
  <2>0. o + 2 * y \in Int /\ w \in Int /\ w >= 1
    BY <1>4
  <2>1. SUFFICES ASSUME w < h PROVE FALSE
    OBVIOUS
  <2>2. w - (o + 2 * y) < Day /\ (o + 2 * y) - w < Day
    BY <1>5, <1>8, <2>0, <2>1
  <2>3. w = o + 2 * y
    BY <1>6, <2>0, <2>2, SameNear
  <2> QED
    BY <1>8, <2>0, <2>3
<1> QED
  BY <1>1, <1>2, <1>3, <1>4, <1>5, <1>7, <1>8

-----------------------------------------------------------------------------
(* The crossings of one orbit and of the next ones. *)

LEMMA AtOrbitMoved ==
  ASSUME NEW s \in Satellite, NEW n \in Int, NEW d \in Int
  PROVE  AtOrbit(s, n + d) = AtOrbit(s, n) + d * PeriodOf(s)
<1>1. PICK p \in Nat : p = PeriodOf(s)
  BY SatelliteIs
<1>2. (n + d) * p = n * p + d * p
  BY <1>1
<1>3. n * p \in Int /\ d * p \in Int
  BY <1>1
<1> QED
  BY <1>1, <1>2, <1>3, SatelliteIs DEF AtOrbit

(* Each orbit crosses the latitude a period further west.                    *)
LEMMA OffsetMoved ==
  ASSUME TypeInv, pc \in Searching, NEW k \in {1, 2}, NEW n \in Int, NEW d \in Int
  PROVE  /\ Offset(k, n) \in Int
         /\ Offset(k, n + d) = Offset(k, n) - d * PeriodOf(Sat)
<1>1. Sat \in Satellite /\ asked.lat \in Int /\ Reaches(Sat, asked.lat)
  BY SatIs DEF TypeInv, AskedOK, OrbitOK
<1>2. PICK x \in Int, y \in Nat : x = asked.lon /\ y = asked.tol
  BY DEF TypeInv, AskedOK
<1>3. PICK r \in Int, u \in Int : r = Sat.raan /\ u = Ascent(asked.lat, k)
  <2>1. Sat.raan \in Int /\ Ascent(asked.lat, k) \in Int
    BY <1>1, SatelliteIs, PhaseIs
  <2> QED
    BY <2>1
<1>4. PICK f \in Int, a \in Int, e \in Int :
        f = Phase(Sat, asked.lat, k) /\ a = AtOrbit(Sat, n) /\ e = d * PeriodOf(Sat)
  <2>1. Phase(Sat, asked.lat, k) \in Int
    BY <1>1, PhaseIs
  <2>2. AtOrbit(Sat, n) \in Int
    BY <1>1, OrbitType
  <2>3. d * PeriodOf(Sat) \in Int
    BY <1>1, SatelliteIs
  <2> QED
    BY <2>1, <2>2, <2>3
<1>5. AtOrbit(Sat, n + d) = a + e
  BY <1>1, <1>4, AtOrbitMoved
<1>6. Offset(k, n) = r + u - (a + f) - x - y
  BY <1>2, <1>3, <1>4 DEF Offset, Angle, Time
<1>7. Offset(k, n + d) = r + u - ((a + e) + f) - x - y
  BY <1>2, <1>3, <1>4, <1>5 DEF Offset, Angle, Time
<1> QED
  BY <1>4, <1>6, <1>7

(* The second crossing of an orbit is half a day east of the first one, but  *)
(* for what the Earth turns in half an orbit.                                *)
LEMMA OffsetOther ==
  ASSUME TypeInv, pc \in Searching, NEW n \in Int
  PROVE  Same(Offset(2, n) - Offset(1, n), Day \div 2 - 2 * Sat.quarter)
<1>1. Sat \in Satellite /\ asked.lat \in Int /\ Reaches(Sat, asked.lat)
  BY SatIs DEF TypeInv, AskedOK, OrbitOK
<1>2. PICK x \in Int, y \in Nat, lat \in Int : x = asked.lon /\ y = asked.tol /\ lat = asked.lat
  BY DEF TypeInv, AskedOK
<1>3. PICK h \in Nat \ {0} : h = Day \div 2 /\ Day = 2 * h
  BY HalfDayIs
<1>4. PICK a \in Int, q \in Int, r \in Int :
        a = AtOrbit(Sat, n) /\ q = Sat.quarter /\ r = Sat.raan
  <2>1. AtOrbit(Sat, n) \in Int
    BY <1>1, OrbitType
  <2> QED
    BY <1>1, <2>1, SatelliteIs
<1>5. ASSUME NEW k \in {1, 2}
      PROVE  Offset(k, n) = r + Ascent(lat, k) - (a + Phase(Sat, lat, k)) - x - y
  <2>1. /\ Ascent(lat, k) \in Int /\ Phase(Sat, lat, k) \in Int
    BY <1>1, <1>2, PhaseIs
  <2> QED
    BY <1>2, <1>4, <2>1 DEF Offset, Angle, Time
<1>6. CASE lat >= 0
  <2>1. /\ Ascent(lat, 1) = lat /\ Phase(Sat, lat, 1) = lat
        /\ Ascent(lat, 2) = h - lat /\ Phase(Sat, lat, 2) = 2 * q - lat
    BY <1>3, <1>4, <1>6 DEF Ascent, Phase
  <2>2. Offset(1, n) = r + lat - (a + lat) - x - y
    BY <1>5, <2>1
  <2>3. Offset(2, n) = r + (h - lat) - (a + (2 * q - lat)) - x - y
    BY <1>5, <2>1
  <2>4. Offset(2, n) - Offset(1, n) = h - 2 * q
    BY <2>2, <2>3
  <2>5. h - 2 * q \in Int
    OBVIOUS
  <2> QED
    BY <1>3, <1>4, <2>4, <2>5, SameSelf
<1>7. CASE ~(lat >= 0)
  <2>1. /\ Ascent(lat, 2) = lat /\ Phase(Sat, lat, 2) = lat + 4 * q
        /\ Ascent(lat, 1) = h - lat /\ Phase(Sat, lat, 1) = 2 * q - lat
    BY <1>3, <1>4, <1>7 DEF Ascent, Phase
  <2>2. Offset(2, n) = r + lat - (a + (lat + 4 * q)) - x - y
    BY <1>5, <2>1
  <2>3. Offset(1, n) = r + (h - lat) - (a + (2 * q - lat)) - x - y
    BY <1>5, <2>1
  <2>4. Offset(2, n) - Offset(1, n) = -h - 2 * q
    BY <2>2, <2>3
  <2>5. -h - 2 * q = (h - 2 * q) + (-1) * Day
    BY <1>3
  <2>6. Same(-h - 2 * q, h - 2 * q)
    <3>1. -h - 2 * q \in Int /\ h - 2 * q \in Int /\ -1 \in Int
      OBVIOUS
    <3> QED
      BY <2>5, <3>1, SameInt
  <2> QED
    BY <1>3, <1>4, <2>4, <2>6
<1> QED
  BY <1>6, <1>7

LEMMA LowIs ==
  ASSUME TypeInv, LowOrbits, Narrow, pc \in Searching
  PROVE  /\ PeriodOf(Sat) \in Nat \ {0} /\ PeriodOf(Sat) = 4 * Sat.quarter
         /\ 4 * PeriodOf(Sat) <= Day /\ 2 * asked.tol < PeriodOf(Sat)
         /\ asked.tol \in Nat
<1>1. sat \in DOMAIN satellites /\ Sat \in Satellite /\ satellites \in Ephemerides
  BY SatIs, TableIs DEF TypeInv
<1>2. 4 * PeriodOf(Sat) <= Day
  BY <1>1 DEF LowOrbits, Sat
<1>3. 2 * asked.tol < PeriodOf(Sat) /\ asked.tol \in Nat
  BY <1>1 DEF Narrow, Sat, TypeInv, AskedOK
<1> QED
  BY <1>1, <1>2, <1>3, SatelliteIs

(* The crossing that is not the closest is a good deal further away.         *)
LEMMA OtherIsFar ==
  ASSUME TypeInv, LowOrbits, Narrow, pc \in Searching
  PROVE  /\ Closest \in {1, 2} /\ Other(Closest) \in {1, 2}
         /\ Turning(Other(Closest)) >= Turning(Closest) + Day \div 2 - 2 * Sat.quarter
<1>1. PICK h \in Nat \ {0} : h = Day \div 2 /\ Day = 2 * h
  BY HalfDayIs
<1>2. PICK q \in Nat \ {0} : q = Sat.quarter /\ 8 * q <= h
  <2>1. PeriodOf(Sat) = 4 * Sat.quarter /\ 4 * PeriodOf(Sat) <= Day
    BY LowIs
  <2>2. Sat.quarter \in Nat \ {0}
    BY SatIs, SatelliteIs
  <2> QED
    BY <1>1, <2>1, <2>2
<1>3. PICK a \in Int, b \in Int :
        /\ a = Turning(1) /\ b = Turning(2) /\ a \in 1 .. Day /\ b \in 1 .. Day
        /\ Same(a, Offset(1, orbit)) /\ Same(b, Offset(2, orbit))
  BY TurningIs, DayOK
<1>4. PICK x \in Int, y \in Int : x = Offset(1, orbit) /\ y = Offset(2, orbit)
  BY TurningIs
<1>5. Same(b - a, h - 2 * q)
  <2>1. orbit \in Int
    BY DEF TypeInv, OrbitOK
  <2>2. Same(y - x, h - 2 * q)
    BY <1>1, <1>2, <1>4, <2>1, OffsetOther
  <2>3. Same(b - a, y - a)
    <3>1. b \in Int /\ y \in Int /\ a \in Int /\ Same(b, y)
      BY <1>3, <1>4
    <3> QED
      BY <3>1, SameMoved
  <2>4. Same(y - a, y - x)
    <3>1. Same(-a, -x) /\ -a \in Int /\ -x \in Int
      BY <1>3, <1>4, SameNegated
    <3>2. Same(-a + y, -x + y)
      BY <3>1, <1>4, SameMoved
    <3>3. -a + y = y - a /\ -x + y = y - x
      BY <1>3, <1>4
    <3> QED
      BY <3>2, <3>3
  <2>5. b - a \in Int /\ y - a \in Int /\ y - x \in Int /\ h - 2 * q \in Int
    BY <1>3, <1>4
  <2>6. Same(b - a, y - x)
    BY <2>3, <2>4, <2>5, SameChain
  <2> QED
    BY <2>2, <2>5, <2>6, SameChain
<1>6. CASE a < b
  <2>1. Closest = 1 /\ Other(Closest) = 2
    BY <1>3, <1>6 DEF Closest, Other
  <2>2. b - a \in Int /\ h - 2 * q \in Int
    BY <1>3
  <2>3. b - a - (h - 2 * q) < Day /\ (h - 2 * q) - (b - a) < Day
    BY <1>1, <1>2, <1>3, <1>6
  <2>4. b - a = h - 2 * q
    BY <1>5, <2>2, <2>3, SameNear
  <2> QED
    BY <1>1, <1>2, <1>3, <2>1, <2>4
<1>7. CASE ~(a < b)
  <2>1. Closest = 2 /\ Other(Closest) = 1
    BY <1>3, <1>7 DEF Closest, Other
  <2>2. b - a + Day \in Int /\ h - 2 * q \in Int /\ b - a \in Int
    BY <1>1, <1>3
  <2>3. Same(b - a + Day, h - 2 * q)
    <3>1. b - a + Day = (b - a) + 1 * Day
      BY <1>1, <1>3
    <3>2. Same(b - a + Day, b - a)
      BY <2>2, <3>1, SameInt
    <3> QED
      BY <1>5, <2>2, <3>2, SameChain
  <2>4. PICK d \in Int, g \in Int : d = b - a + Day /\ g = h - 2 * q
    BY <2>2
  <2>5. d - g < Day /\ g - d < Day
    BY <1>1, <1>2, <1>3, <1>7, <2>4
  <2>6. d = g
    BY <2>3, <2>4, <2>5, SameNear
  <2> QED
    BY <1>1, <1>2, <1>3, <2>1, <2>4, <2>6
<1> QED
  BY <1>3, <1>6, <1>7

-----------------------------------------------------------------------------
(* No pass is missed within the search of a satellite. *)

LEMMA TimesFollow ==
  ASSUME NEW s \in Satellite, NEW lat \in Int, Reaches(s, lat), NEW n \in Int, NEW m \in Int,
         n < m, NEW j \in {1, 2}, NEW k \in {1, 2}
  PROVE  Time(s, lat, n, j) < Time(s, lat, m, k)
<1>1. Time(s, lat, n, j) < AtOrbit(s, n + 1) /\ Time(s, lat, n, j) \in Int
  BY TimeIs
<1>2. AtOrbit(s, m) <= Time(s, lat, m, k) /\ Time(s, lat, m, k) \in Int
  BY TimeIs
<1>3. AtOrbit(s, n) + PeriodOf(s) <= AtOrbit(s, m) /\ AtOrbit(s, m) \in Int
  BY OrbitsAfter, OrbitType
<1>4. AtOrbit(s, n + 1) = AtOrbit(s, n) + PeriodOf(s) /\ AtOrbit(s, n + 1) \in Int
  <2>1. n + 1 \in Int
    OBVIOUS
  <2> QED
    BY <2>1, OrbitType
<1> QED
  BY <1>1, <1>2, <1>3, <1>4

(* The position of a crossing some orbits later. *)
LEMMA AtMoved ==
  ASSUME TypeInv, pc \in Searching, NEW k \in {1, 2}, NEW n \in Int, NEW d \in Int,
         NEW o \in Int, Same(o, Offset(k, n))
  PROVE  /\ Angle(Sat, asked.lat, n + d, k) \in Int
         /\ d * PeriodOf(Sat) \in Int
         /\ At(o - d * PeriodOf(Sat), Angle(Sat, asked.lat, n + d, k))
<1>1. PICK e \in Int : e = d * PeriodOf(Sat)
  <2>1. PeriodOf(Sat) \in Int
    BY SatIs, SatelliteIs
  <2> QED
    BY <2>1
<1>2. Offset(k, n) \in Int /\ Offset(k, n + d) = Offset(k, n) - e
  <2>1. Offset(k, n) \in Int /\ Offset(k, n + d) = Offset(k, n) - d * PeriodOf(Sat)
    BY OffsetMoved
  <2> QED
    BY <1>1, <2>1
<1>3. Same(o - e, Offset(k, n) - e)
  BY <1>2, SameMoved
<1>4. Same(o - e, Offset(k, n + d))
  BY <1>2, <1>3
<1>5. Angle(Sat, asked.lat, n + d, k) \in Int
  <2>1. n + d \in Int /\ Sat \in Satellite /\ asked.lat \in Int /\ Reaches(Sat, asked.lat)
    BY SatIs DEF TypeInv, AskedOK, OrbitOK
  <2> QED
    BY <2>1, TimeIs
<1> QED
  BY <1>1, <1>4, <1>5 DEF At, Offset

LEMMA OutsideMoved ==
  ASSUME TypeInv, LowOrbits, Narrow, pc \in Searching,
         NEW k \in {1, 2}, NEW n \in Int, NEW d \in Int, NEW o \in Int, Same(o, Offset(k, n)),
         0 <= o - d * PeriodOf(Sat), o - d * PeriodOf(Sat) <= Day - PeriodOf(Sat)
  PROVE  ~Inside(Sat, n + d, k)
<1>1. /\ Angle(Sat, asked.lat, n + d, k) \in Int /\ d * PeriodOf(Sat) \in Int
      /\ At(o - d * PeriodOf(Sat), Angle(Sat, asked.lat, n + d, k))
  BY AtMoved
<1>2. PICK x \in Int : x = o - d * PeriodOf(Sat)
  BY <1>1
<1>3. 0 <= x /\ x <= Day - 2 * asked.tol
  BY <1>2, LowIs, DayOK
<1>4. AskedOK
  BY DEF TypeInv
<1>5. ~(Distance(HalfTurn(Angle(Sat, asked.lat, n + d, k)), asked.lon) < asked.tol)
  BY <1>1, <1>2, <1>3, <1>4, OutsideIs
<1> QED
  BY <1>5 DEF Inside

(* What has been searched before the Earth is turned, and what is passed     *)
(* over while it turns.                                                      *)
LEMMA TurnedFollows ==
  ASSUME TypeInv, LowOrbits, Narrow, pc = "turning", NEW i \in {1, 2}, i = Closest,
         \A k \in {1, 2} : NoneUpTo(k, orbit), t < AtOrbit(Sat, orbit + 1),
         NEW m, m = OrbitAt(Sat, crossings[i].t + Turning(i))
  PROVE  \E o \in Int : Follows(o, i, m)
<1>0. pc \in Searching /\ Sat \in Satellite
  BY SatIs DEF Searching
<1>1. PICK n \in Nat : n = orbit
  BY <1>0 DEF TypeInv, OrbitOK
<1>2. PICK p \in Nat \ {0}, q \in Nat \ {0} : p = PeriodOf(Sat) /\ q = Sat.quarter /\ p = 4 * q
  BY <1>0, SatelliteIs
<1>3. PICK h \in Nat \ {0} : h = Day \div 2 /\ Day = 2 * h
  BY HalfDayIs
<1>4. 2 * p <= h
  BY <1>0, <1>2, <1>3, LowIs
<1>5. m \in Nat /\ n <= m
  BY <1>1, TurnedOrbit
<1>6. PICK a \in Int, c \in Int, u \in Int :
        /\ a = AtOrbit(Sat, n) /\ a + p = AtOrbit(Sat, n + 1)
        /\ c = crossings[i].t /\ a <= c /\ c < a + p
        /\ u = Turning(i) /\ 1 <= u /\ u <= Day
  <2>1. /\ AtOrbit(Sat, orbit) <= crossings[i].t /\ crossings[i].t < AtOrbit(Sat, orbit + 1)
        /\ crossings[i].t \in Int
    BY <1>0, CrossingIs
  <2>2. AtOrbit(Sat, n) \in Int /\ AtOrbit(Sat, n + 1) = AtOrbit(Sat, n) + p
    <3>1. n \in Int
      OBVIOUS
    <3>2. AtOrbit(Sat, n) \in Int /\ AtOrbit(Sat, n + 1) = AtOrbit(Sat, n) + PeriodOf(Sat)
      BY <1>0, <3>1, OrbitType
    <3> QED
      BY <1>2, <3>2
  <2>3. Turning(i) \in 1 .. Day
    BY <1>0, TurningIs
  <2> QED
    BY <1>1, <1>3, <2>1, <2>2, <2>3
<1>7. PICK d \in Nat : d = m - n /\ m = n + d
  BY <1>5
<1>8. PICK e \in Int : e = d * p /\ e >= 0
  BY <1>2
<1>9. AtOrbit(Sat, m) = a + e /\ AtOrbit(Sat, m + 1) = a + e + p
  <2>1. n \in Int /\ d \in Int /\ m \in Int
    BY <1>5
  <2>2. AtOrbit(Sat, n + d) = AtOrbit(Sat, n) + d * PeriodOf(Sat)
    BY <1>0, <2>1, AtOrbitMoved
  <2>3. AtOrbit(Sat, m + 1) = AtOrbit(Sat, m) + PeriodOf(Sat)
    BY <1>0, <2>1, OrbitType
  <2> QED
    BY <1>2, <1>6, <1>7, <1>8, <2>2, <2>3
<1>10. a + e <= c + u /\ c + u < a + e + p
  BY <1>5, <1>6, <1>9, TurnedOrbit
<1>11. PICK o \in Int : o = u - e
  BY <1>6, <1>8
<1>12. -p < o /\ o < p
  BY <1>6, <1>10, <1>11
<1>13. d = 0 => o > 0
  <2>1. d = 0 => e = 0
    BY <1>2, <1>8
  <2> QED
    BY <1>6, <1>11, <2>1
<1>14. Same(u, Offset(i, n))
  BY <1>0, <1>1, <1>6, TurningIs
<1>15. Same(o, Offset(i, m))
  <2>1. Offset(i, n) \in Int /\ Offset(i, n + d) = Offset(i, n) - e
    <3>1. n \in Int /\ d \in Int
      OBVIOUS
    <3>2. Offset(i, n) \in Int /\ Offset(i, n + d) = Offset(i, n) - d * PeriodOf(Sat)
      BY <1>0, <3>1, OffsetMoved
    <3> QED
      BY <1>2, <1>8, <3>2
  <2>2. Same(u - e, Offset(i, n) - e)
    BY <1>6, <1>8, <1>14, <2>1, SameMoved
  <2> QED
    BY <1>7, <1>11, <2>1, <2>2
<1>16. PICK v \in Int : v = Turning(Other(i)) /\ v >= u + h - 2 * q /\ v <= Day
                        /\ Same(v, Offset(Other(i), n)) /\ Other(i) \in {1, 2}
  <2>1. /\ Other(i) \in {1, 2}
        /\ Turning(Other(i)) >= Turning(i) + Day \div 2 - 2 * Sat.quarter
    BY <1>0, OtherIsFar
  <2>2. Turning(Other(i)) \in 1 .. Day /\ Same(Turning(Other(i)), Offset(Other(i), n))
    BY <1>0, <1>1, <2>1, TurningIs
  <2>3. Turning(Other(i)) \in Int /\ Turning(Other(i)) <= Day
    BY <1>3, <2>2
  <2> QED
    BY <1>2, <1>3, <1>6, <2>1, <2>2, <2>3
<1>17. ASSUME NEW l \in Nat, n < l
       PROVE  \E b \in Nat, g \in Int :
                b = l - n /\ l = n + b /\ g = b * p /\ g >= p
                /\ (l <= m => g <= e) /\ (l <= m - 1 => g <= e - p) /\ (l <= m + 1 => g <= e + p)
  <2>1. PICK b \in Nat : b = l - n /\ l = n + b /\ b >= 1
    BY <1>1, <1>17
  <2>2. PICK g \in Int : g = b * p /\ g >= p
    <3>1. b * p >= p
      BY <1>2, <2>1
    <3> QED
      BY <1>2, <2>1, <3>1
  <2>3. AtOrbit(Sat, l) = a + g
    <3>1. n \in Int /\ b \in Int
      OBVIOUS
    <3>2. AtOrbit(Sat, n + b) = AtOrbit(Sat, n) + b * PeriodOf(Sat)
      BY <1>0, <3>1, AtOrbitMoved
    <3> QED
      BY <1>2, <1>6, <2>1, <2>2, <3>2
  <2>4. ASSUME NEW z \in Int, l < z PROVE AtOrbit(Sat, l) + p <= AtOrbit(Sat, z)
    <3>1. l \in Int
      OBVIOUS
    <3>2. AtOrbit(Sat, l) + PeriodOf(Sat) <= AtOrbit(Sat, z)
      BY <1>0, <2>4, <3>1, OrbitsAfter
    <3> QED
      BY <1>2, <3>2
  <2>5. l <= m => g <= e
    <3>1. CASE l = m
      BY <1>9, <2>3, <3>1, <1>6, <1>8, <2>2
    <3>2. CASE l < m
      <4>1. AtOrbit(Sat, l) + p <= AtOrbit(Sat, m)
        BY <1>5, <2>4, <3>2
      <4> QED
        BY <1>2, <1>6, <1>8, <1>9, <2>2, <2>3, <4>1
    <3> QED
      BY <1>5, <3>1, <3>2
  <2>6. l <= m - 1 => g <= e - p
    <3>1. SUFFICES ASSUME l <= m - 1 PROVE g <= e - p
      OBVIOUS
    <3>2. l < m
      BY <1>5, <3>1
    <3>3. AtOrbit(Sat, l) + p <= AtOrbit(Sat, m)
      BY <1>5, <2>4, <3>2
    <3> QED
      BY <1>2, <1>6, <1>8, <1>9, <2>2, <2>3, <3>3
  <2>7. l <= m + 1 => g <= e + p
    <3>1. CASE l = m + 1
      BY <1>9, <2>3, <3>1, <1>2, <1>6, <1>8, <2>2
    <3>2. CASE l <= m
      BY <2>5, <3>2, <1>2, <1>8, <2>2
    <3> QED
      BY <1>5, <3>1, <3>2
  <2> QED
    BY <2>1, <2>2, <2>5, <2>6, <2>7
<1>18. ASSUME NEW l \in Nat, l <= n, NEW k \in {1, 2} PROVE ~Inside(Sat, l, k)
  BY <1>1, <1>18 DEF NoneUpTo
<1>19. ASSUME NEW l \in Nat, l <= m - 1 \/ (o > 0 /\ l <= m) PROVE ~Inside(Sat, l, i)
  <2>1. CASE l <= n
    BY <1>18, <2>1
  <2>2. CASE n < l
    <3>1. PICK b \in Nat, g \in Int :
            /\ b = l - n /\ l = n + b /\ g = b * p /\ g >= p
            /\ (l <= m => g <= e) /\ (l <= m - 1 => g <= e - p)
      BY <1>17, <2>2
    <3>2. 0 <= u - g /\ u - g <= Day - p
      BY <1>2, <1>3, <1>6, <1>8, <1>11, <1>12, <1>19, <3>1
    <3>3. b \in Int /\ n \in Int
      OBVIOUS
    <3>4. ~Inside(Sat, n + b, i)
      BY <1>0, <1>2, <1>6, <1>14, <3>1, <3>2, <3>3, OutsideMoved
    <3> QED
      BY <3>1, <3>4
  <2> QED
    BY <1>1, <2>1, <2>2
<1>20. ASSUME NEW l \in Nat, l <= m \/ (o > 0 /\ l <= m + 1) PROVE ~Inside(Sat, l, Other(i))
  <2>1. CASE l <= n
    BY <1>16, <1>18, <2>1
  <2>2. CASE n < l
    <3>1. PICK b \in Nat, g \in Int :
            /\ b = l - n /\ l = n + b /\ g = b * p /\ g >= p
            /\ (l <= m => g <= e) /\ (l <= m + 1 => g <= e + p)
      BY <1>17, <2>2
    <3>2. v - g <= Day - p
      BY <1>2, <1>3, <1>16, <3>1
    <3>3. 0 <= v - g
      <4>1. v >= o + e + h - 2 * q
        BY <1>6, <1>8, <1>11, <1>16
      <4>2. h - 2 * q >= p + 2 * q
        BY <1>2, <1>4
      <4>3. CASE l <= m
        BY <1>2, <1>8, <1>12, <3>1, <4>1, <4>2, <4>3
      <4>4. CASE o > 0 /\ l <= m + 1
        BY <1>2, <1>8, <1>12, <3>1, <4>1, <4>2, <4>4
      <4> QED
        BY <1>20, <4>3, <4>4
    <3>4. b \in Int /\ n \in Int
      OBVIOUS
    <3>5. ~Inside(Sat, n + b, Other(i))
      BY <1>0, <1>2, <1>16, <3>1, <3>2, <3>3, <3>4, OutsideMoved
    <3> QED
      BY <3>1, <3>5
  <2> QED
    BY <1>1, <2>1, <2>2
<1>21. PICK w \in Int : w = t /\ w < a + p
  BY <1>1, <1>6 DEF TypeInv
<1>22. w < a + e + p
  BY <1>2, <1>6, <1>8, <1>21
<1>23. o <= 0 => w < a + e
  <2>1. o <= 0 => d >= 1
    BY <1>13, <1>7
  <2>2. d >= 1 => e >= p
    BY <1>2, <1>8
  <2> QED
    BY <1>2, <1>6, <1>8, <1>21, <2>1, <2>2
<1>24. o > 0 => /\ NoneUpTo(i, m) /\ NoneUpTo(Other(i), m + 1)
                /\ t < AtOrbit(Sat, m + 1)
  BY <1>9, <1>19, <1>20, <1>21, <1>22 DEF NoneUpTo
<1>25. o <= 0 => /\ NoneUpTo(i, m - 1) /\ NoneUpTo(Other(i), m)
                 /\ t < AtOrbit(Sat, m)
  BY <1>9, <1>19, <1>20, <1>21, <1>23 DEF NoneUpTo
<1>26. Follows(o, i, m)
  BY <1>2, <1>12, <1>15, <1>24, <1>25 DEF Follows
<1> QED
  BY <1>26

(* Where the crossing that is followed is, as the code sees it. *)
LEMMA FollowedIs ==
  ASSUME TypeInv, LowOrbits, Narrow, pc = "following",
         NEW o \in Int, Follows(o, index, orbit)
  PROVE  /\ o > 0 => Ahead /\ ~Visible(crossings[index])
         /\ o <= 0 /\ 0 < o + 2 * asked.tol => Ahead /\ Visible(crossings[index])
         /\ o + 2 * asked.tol <= 0 => ~Ahead /\ ~Inside(Sat, orbit, index)
<1>0. pc \in Searching /\ index \in {1, 2} /\ AskedOK
  BY DEF TypeInv, Searching
<1>1. PICK a \in Int : a = Angle(Sat, asked.lat, orbit, index)
                       /\ crossings[index].lon = HalfTurn(a)
  BY <1>0, CrossingIs
<1>2. PICK h \in Nat \ {0} : h = Day \div 2 /\ Day = 2 * h
  BY HalfDayIs
<1>3. PICK p \in Nat \ {0}, y \in Nat : /\ p = PeriodOf(Sat) /\ y = asked.tol
                                        /\ 4 * p <= Day /\ 2 * y < p
  BY <1>0, LowIs
<1>4. -p < o /\ o < p /\ At(o, a)
  BY <1>1, <1>3 DEF Follows, Offset, At
<1>5. Ahead <=> Day - Turn(asked.lon - asked.tol - HalfTurn(a)) < h
  BY <1>1, <1>2 DEF Ahead
<1>6. 0 < o + 2 * y => Ahead
  <2>1. o + 2 * y < h
    BY <1>2, <1>3, <1>4
  <2> QED
    BY <1>0, <1>2, <1>3, <1>4, <1>5, <2>1, AheadIs
<1>7. o + 2 * y <= 0 => ~Ahead
  <2>1. -h <= o + 2 * y
    BY <1>2, <1>3, <1>4
  <2> QED
    BY <1>0, <1>2, <1>3, <1>4, <1>5, <2>1, AheadIs
<1>8. o > 0 => ~Visible(crossings[index])
  <2>1. o < Day - 2 * y
    BY <1>2, <1>3, <1>4
  <2>2. o > 0 => ~(Distance(HalfTurn(a), asked.lon) <= asked.tol)
    BY <1>0, <1>2, <1>3, <1>4, <2>1, OutsideIs
  <2> QED
    BY <1>1, <2>2 DEF Visible
<1>9. o <= 0 /\ 0 < o + 2 * y => Visible(crossings[index])
  <2>1. o <= 0 /\ 0 < o + 2 * y => Distance(HalfTurn(a), asked.lon) <= asked.tol
    BY <1>0, <1>3, <1>4, WithinIs
  <2> QED
    BY <1>1, <2>1 DEF Visible
<1>10. o + 2 * y <= 0 => ~Inside(Sat, orbit, index)
  <2>1. SUFFICES ASSUME o + 2 * y <= 0 PROVE ~Inside(Sat, orbit, index)
    OBVIOUS
  <2>2. PICK g \in Int : g = o + Day
    BY <1>2
  <2>3. 0 <= g /\ g <= Day - 2 * y
    BY <1>2, <1>3, <1>4, <2>1, <2>2
  <2>4. Same(g, o)
    <3>1. g = o + 1 * Day
      BY <1>2, <2>2
    <3> QED
      BY <3>1, SameInt
  <2>5. At(g, a)
    <3>1. a - asked.lon - asked.tol \in Int
      BY <1>0 DEF AskedOK
    <3> QED
      BY <1>4, <2>4, <3>1, SameChain DEF At
  <2>6. ~(Distance(HalfTurn(a), asked.lon) < asked.tol)
    BY <1>0, <1>3, <2>3, <2>5, OutsideIs
  <2> QED
    BY <1>1, <2>6 DEF Inside
<1> QED
  BY <1>3, <1>6, <1>7, <1>8, <1>9, <1>10

(* One more orbit, where the crossing is east of the window. *)
LEMMA FollowsNext ==
  ASSUME TypeInv, LowOrbits, Narrow, pc = "following",
         NEW o \in Int, Follows(o, index, orbit), Ahead, ~Seen(index)
  PROVE  \E x \in Int : Follows(x, index, orbit + 1)
<1>0. pc \in Searching /\ index \in {1, 2} /\ orbit \in Nat /\ t \in Int
  BY DEF TypeInv, Searching, OrbitOK
<1>1. PICK p \in Nat \ {0}, y \in Nat : p = PeriodOf(Sat) /\ y = asked.tol
  BY <1>0, LowIs
<1>2. o > 0
  <2>1. SUFFICES ASSUME o <= 0 PROVE FALSE
    OBVIOUS
  <2>2. ~(o + 2 * y <= 0)
    BY <1>1, FollowedIs
  <2>3. Visible(crossings[index])
    BY <1>1, <2>1, <2>2, FollowedIs
  <2>4. t < AtOrbit(Sat, orbit)
    BY <2>1 DEF Follows
  <2>5. crossings[index].t > t
    BY <1>0, <2>4, CrossingIs
  <2> QED
    BY <2>3, <2>5 DEF Seen
<1>3. PICK x \in Int : x = o - p
  OBVIOUS
<1>4. -p < x /\ x < p /\ x <= 0
  BY <1>1, <1>2, <1>3 DEF Follows
<1>5. Same(x, Offset(index, orbit + 1))
  <2>1. orbit \in Int /\ 1 \in Int
    BY <1>0
  <2>2. /\ Offset(index, orbit) \in Int
        /\ Offset(index, orbit + 1) = Offset(index, orbit) - 1 * PeriodOf(Sat)
    BY <1>0, <2>1, OffsetMoved
  <2>3. Offset(index, orbit + 1) = Offset(index, orbit) - p
    BY <1>1, <2>2
  <2>4. Same(o - p, Offset(index, orbit) - p)
    <3>1. p \in Int /\ Same(o, Offset(index, orbit))
      BY DEF Follows
    <3> QED
      BY <2>2, <3>1, SameMoved
  <2> QED
    BY <1>3, <2>3, <2>4
<1>6. (orbit + 1) - 1 = orbit
  BY <1>0
<1>7. /\ NoneUpTo(index, (orbit + 1) - 1) /\ NoneUpTo(Other(index), orbit + 1)
      /\ t < AtOrbit(Sat, orbit + 1)
  BY <1>2, <1>6 DEF Follows
<1>8. Follows(x, index, orbit + 1)
  BY <1>1, <1>4, <1>5, <1>7 DEF Follows
<1> QED
  BY <1>8

LEMMA OtherIs ==
  ASSUME NEW i \in {1, 2}, NEW k \in {1, 2}
  PROVE  k = i \/ k = Other(i)
BY DEF Other

(* The pass that the crossing followed makes is the first one. *)
LEMMA FollowedIsFirst ==
  ASSUME TypeInv, LowOrbits, Narrow, pc = "following",
         NEW o \in Int, Follows(o, index, orbit), Seen(index),
         NEW n \in Nat, NEW k \in {1, 2}, Inside(Sat, n, k)
  PROVE  crossings[index].t <= Time(Sat, asked.lat, n, k)
<1>0. /\ pc \in Searching /\ index \in {1, 2} /\ orbit \in Nat
      /\ Sat \in Satellite /\ asked.lat \in Int /\ Reaches(Sat, asked.lat)
  BY SatIs DEF TypeInv, Searching, OrbitOK, AskedOK
<1>1. o <= 0
  BY FollowedIs DEF Seen
<1>2. NoneUpTo(index, orbit - 1) /\ NoneUpTo(Other(index), orbit)
  BY <1>1 DEF Follows
<1>3. crossings[index].t = Time(Sat, asked.lat, orbit, index) /\ crossings[index].t \in Int
  BY <1>0, CrossingIs
<1>4. Time(Sat, asked.lat, n, k) \in Int
  BY <1>0, TimeIs
<1>5. CASE orbit < n
  <2>1. Time(Sat, asked.lat, orbit, index) < Time(Sat, asked.lat, n, k)
    BY <1>0, <1>5, TimesFollow
  <2> QED
    BY <1>3, <1>4, <2>1
<1>6. CASE ~(orbit < n)
  <2>1. k # Other(index)
    BY <1>0, <1>2, <1>6 DEF NoneUpTo
  <2>2. k = index
    BY <1>0, <2>1, OtherIs
  <2>3. ~(n <= orbit - 1)
    BY <1>2, <2>2 DEF NoneUpTo
  <2>4. n = orbit
    BY <1>0, <1>6, <2>3
  <2> QED
    BY <1>3, <2>2, <2>4
<1> QED
  BY <1>5, <1>6

(* Where the crossing has left the window, the orbit has no other.           *)
LEMMA FollowedIsPast ==
  ASSUME TypeInv, LowOrbits, Narrow, pc = "following",
         NEW o \in Int, Follows(o, index, orbit), ~Ahead, NEW k \in {1, 2}
  PROVE  NoneUpTo(k, orbit)
<1>0. index \in {1, 2} /\ orbit \in Nat /\ asked.tol \in Nat
  BY DEF TypeInv, Searching, OrbitOK, AskedOK
<1>1. ~(o > 0)
  BY FollowedIs
<1>2. NoneUpTo(index, orbit - 1) /\ NoneUpTo(Other(index), orbit)
  BY <1>1 DEF Follows
<1>3. ~(0 < o + 2 * asked.tol)
  BY <1>1, FollowedIs
<1>4. ~Inside(Sat, orbit, index)
  BY <1>0, <1>3, FollowedIs
<1>5. CASE k = Other(index)
  BY <1>2, <1>5
<1>6. CASE k = index
  <2>1. \A n \in Nat : n <= orbit => n <= orbit - 1 \/ n = orbit
    BY <1>0
  <2> QED
    BY <1>2, <1>4, <1>6, <2>1 DEF NoneUpTo
<1> QED
  BY <1>0, <1>5, <1>6, OtherIs

(* The passes of the orbits before the one of the time asked for are past.   *)
LEMMA NoneBefore ==
  ASSUME TypeInv, pc = "satellite", OrbitAt(Sat, asked.t) >= 0, Reaches(Sat, asked.lat),
         NEW k \in {1, 2}
  PROVE  NoneUpTo(k, FirstOrbit - 1)
<1>1. Sat \in Satellite /\ asked.t \in Int /\ asked.lat \in Int
  BY SatIs DEF TypeInv, AskedOK
<1>2. PICK f \in Nat : /\ f = FirstOrbit
                       /\ AtOrbit(Sat, f) <= asked.t \/ f = 0
  BY <1>1, OrbitAtIs DEF FirstOrbit
<1>3. ASSUME NEW n \in Nat, n <= f - 1, Inside(Sat, n, k)
      PROVE  FALSE
  <2>1. n < f
    BY <1>3
  <2>2. AtOrbit(Sat, f) <= asked.t
    BY <1>2, <2>1
  <2>3. Time(Sat, asked.lat, n, k) < AtOrbit(Sat, n + 1) /\ Time(Sat, asked.lat, n, k) \in Int
    BY <1>1, TimeIs
  <2>4. AtOrbit(Sat, n) + PeriodOf(Sat) <= AtOrbit(Sat, f)
    BY <1>1, <2>1, OrbitsAfter
  <2>5. /\ AtOrbit(Sat, n + 1) = AtOrbit(Sat, n) + PeriodOf(Sat)
        /\ AtOrbit(Sat, n) \in Int /\ AtOrbit(Sat, f) \in Int /\ PeriodOf(Sat) \in Int
    BY <1>1, OrbitType, SatelliteIs
  <2>6. Time(Sat, asked.lat, n, k) > asked.t
    BY <1>3 DEF Inside
  <2> QED
    BY <1>1, <2>2, <2>3, <2>4, <2>5, <2>6
<1> QED
  BY <1>2, <1>3 DEF NoneUpTo

(* What Inside says of the orbit that is searched. *)
LEMMA InsideIsSeen ==
  ASSUME TypeInv, pc = "forward", t = asked.t, NEW k \in {1, 2}, Inside(Sat, orbit, k)
  PROVE  Seen(k)
<1>1. pc \in Searching
  BY DEF Searching
<1>2. /\ crossings[k].t = Time(Sat, asked.lat, orbit, k)
      /\ crossings[k].lon = HalfTurn(Angle(Sat, asked.lat, orbit, k))
      /\ crossings[k].lon \in Int
  BY <1>1, CrossingIs
<1>3. Distance(crossings[k].lon, asked.lon) \in Nat /\ asked.tol \in Nat
  BY <1>2, DistanceIs DEF TypeInv, AskedOK
<1> QED
  BY <1>2, <1>3 DEF Inside, Seen, Visible

-----------------------------------------------------------------------------
LEMMA SearchFrame ==
  ASSUME UNCHANGED << satellites, asked, sat >>
  PROVE  /\ Sat' = Sat
         /\ \A k, last : NoneUpTo(k, last)' = NoneUpTo(k, last)
         /\ \A o, k, n : t' = t => Follows(o, k, n)' = Follows(o, k, n)
         /\ \A n, k : Inside(Sat, n, k)' = Inside(Sat, n, k)
<1>1. Sat' = Sat
  BY DEF Sat
<1>2. \A n, k : Inside(Sat, n, k)' = Inside(Sat, n, k)
  BY <1>1 DEF Inside
<1>3. \A k, last : NoneUpTo(k, last)' = NoneUpTo(k, last)
  BY <1>2 DEF NoneUpTo
<1>4. \A k, n : Offset(k, n)' = Offset(k, n)
  BY <1>1 DEF Offset
<1>5. \A o, k, n : t' = t => Follows(o, k, n)' = Follows(o, k, n)
  BY <1>1, <1>3, <1>4 DEF Follows
<1> QED
  BY <1>1, <1>2, <1>3, <1>5

LEMMA MissedStep ==
  ASSUME TypeInv, SinceInv, LowOrbits, Narrow, NoneMissed, [Next]_vars
  PROVE  NoneMissed'
<1>1. ASSUME pc' \notin Searching PROVE NoneMissed'
  BY <1>1 DEF NoneMissed, Searching
<1>2. CASE UNCHANGED vars
  <2>1. /\ UNCHANGED << satellites, asked, sat, t, pc, index, orbit, found >>
    BY <1>2 DEF vars
  <2>2. /\ \A k, last : NoneUpTo(k, last)' = NoneUpTo(k, last)
        /\ \A o, k, n : Follows(o, k, n)' = Follows(o, k, n)
        /\ \A n, k : Inside(Sat, n, k)' = Inside(Sat, n, k)
        /\ Sat' = Sat
    BY <2>1, SearchFrame
  <2> QED
    BY <2>1, <2>2 DEF NoneMissed
<1>3. CASE NoSatellites \/ Call \/ Skip \/ Compare
  <2>1. pc' \in {"error", "satellite", "done"}
    BY <1>3 DEF NoSatellites, Call, Skip, Compare, Goto, NextSat
  <2> QED
    BY <2>1, <1>1 DEF Searching
<1>4. CASE Finished
  BY <1>2, <1>4 DEF Finished
<1>5. CASE Start
  <2>1. /\ pc = "satellite" /\ pc' = "forward" /\ UNCHANGED << satellites, asked, sat >>
        /\ orbit' = FirstOrbit /\ OrbitAt(Sat, asked.t) >= 0 /\ Reaches(Sat, asked.lat)
    BY <1>5 DEF Start, Goto, FirstOrbit
  <2>2. \A k \in {1, 2} : NoneUpTo(k, orbit' - 1)
    BY <2>1, NoneBefore
  <2>3. \A k \in {1, 2} : NoneUpTo(k, orbit - 1)'
    BY <2>1, <2>2 DEF NoneUpTo, Inside, Sat
  <2> QED
    BY <2>1, <2>3 DEF NoneMissed
<1>6. CASE Forward
  <2>1. /\ pc = "forward" /\ pc' = "forward" /\ UNCHANGED << satellites, asked, sat >>
        /\ orbit' = orbit + 1 /\ Past /\ t = asked.t
    BY <1>6 DEF Forward, NextOrbit, SinceInv
  <2>2. orbit \in Nat /\ asked.t \in Int /\ pc \in Searching
    BY <2>1 DEF TypeInv, OrbitOK, AskedOK, Searching
  <2>3. ASSUME NEW k \in {1, 2} PROVE NoneUpTo(k, orbit)
    <3>1. crossings[k].t <= asked.t
      BY <2>1 DEF Past
    <3>2. crossings[k].t = Time(Sat, asked.lat, orbit, k) /\ crossings[k].t \in Int
      BY <2>2, CrossingIs
    <3>3. ~Inside(Sat, orbit, k)
      BY <2>2, <3>1, <3>2 DEF Inside
    <3>4. NoneUpTo(k, orbit - 1)
      BY <2>1 DEF NoneMissed
    <3>5. \A n \in Nat : n <= orbit => n <= orbit - 1 \/ n = orbit
      BY <2>2
    <3> QED
      BY <3>3, <3>4, <3>5 DEF NoneUpTo
  <2>4. orbit' - 1 = orbit
    BY <2>1, <2>2
  <2>5. \A k \in {1, 2} : NoneUpTo(k, orbit - 1)'
    BY <2>1, <2>3, <2>4 DEF NoneUpTo, Inside, Sat
  <2> QED
    BY <2>1, <2>5 DEF NoneMissed
<1>7. CASE ThisOrbit
  <2>1. /\ pc = "forward" /\ pc \in Searching /\ t = asked.t /\ ~Past
        /\ UNCHANGED << satellites, asked, sat, orbit, t >>
    BY <1>7 DEF ThisOrbit, SinceInv, Searching
  <2>2. /\ orbit \in Nat /\ asked.t \in Int /\ Sat \in Satellite
        /\ asked.lat \in Int /\ Reaches(Sat, asked.lat)
    BY <2>1, SatIs DEF TypeInv, OrbitOK, AskedOK
  <2>3. \A k \in {1, 2} : NoneUpTo(k, orbit - 1)
    BY <2>1 DEF NoneMissed
  <2>4. \A n \in Nat : n <= orbit => n <= orbit - 1 \/ n = orbit
    BY <2>2
  <2>5. ASSUME NEW k \in {1, 2}, ~Seen(k) PROVE NoneUpTo(k, orbit)
    <3>1. ~Inside(Sat, orbit, k)
      BY <2>1, <2>5, InsideIsSeen
    <3> QED
      BY <2>3, <2>4, <3>1 DEF NoneUpTo
  <2>6. CASE Seen(1) \/ Seen(2)
    <3>1. PICK i \in {1, 2} : i = (IF Seen(1) THEN 1 ELSE 2) /\ Seen(i)
      BY <2>6
    <3>2. pc' = "compare" /\ Found(i)
      BY <1>7, <2>6, <3>1 DEF ThisOrbit
    <3>3. found'.culmination = Time(Sat, asked.lat, orbit, i)
      BY <2>1, <3>2, FoundIs, CrossingIs
    <3>4. ASSUME NEW n \in Nat, NEW k \in {1, 2}, Inside(Sat, n, k)
          PROVE  found'.culmination <= Time(Sat, asked.lat, n, k)
      <4>1. /\ Time(Sat, asked.lat, n, k) \in Int /\ Time(Sat, asked.lat, orbit, i) \in Int
            /\ Time(Sat, asked.lat, orbit, 1) < Time(Sat, asked.lat, orbit, 2)
        BY <2>2, TimeIs
      <4>2. CASE orbit < n
        <5>1. Time(Sat, asked.lat, orbit, i) < Time(Sat, asked.lat, n, k)
          BY <2>2, <4>2, TimesFollow
        <5> QED
          BY <3>3, <4>1, <5>1
      <4>3. CASE ~(orbit < n)
        <5>1. n = orbit
          BY <2>2, <2>3, <2>4, <3>4, <4>3 DEF NoneUpTo
        <5>2. Seen(k)
          BY <2>1, <3>4, <5>1, InsideIsSeen
        <5>3. i = 1 \/ k = 2
          BY <3>1, <5>2
        <5>4. i = k \/ (i = 1 /\ k = 2)
          BY <5>3
        <5> QED
          BY <3>3, <4>1, <5>1, <5>4
      <4> QED
        BY <4>2, <4>3
    <3>5. \A n \in Nat, k \in {1, 2} :
            Inside(Sat, n, k)' => found'.culmination <= Time(Sat, asked.lat, n, k)'
      BY <2>1, <3>4 DEF Inside, Sat
    <3> QED
      BY <3>2, <3>5 DEF NoneMissed
  <2>7. CASE ~(Seen(1) \/ Seen(2))
    <3>1. pc' = "turning"
      BY <1>7, <2>7 DEF ThisOrbit
    <3>2. \A k \in {1, 2} : NoneUpTo(k, orbit)
      BY <2>5, <2>7
    <3>3. t < AtOrbit(Sat, orbit + 1)
      <4>1. PICK k \in {1, 2} : ~(crossings[k].t <= t)
        BY <2>1 DEF Past
      <4>2. /\ crossings[k].t < AtOrbit(Sat, orbit + 1) /\ crossings[k].t \in Int
            /\ AtOrbit(Sat, orbit + 1) \in Int
        BY <2>1, CrossingIs
      <4> QED
        BY <2>1, <2>2, <4>1, <4>2
    <3>4. (t < AtOrbit(Sat, orbit + 1))' /\ \A k \in {1, 2} : NoneUpTo(k, orbit)'
      BY <2>1, <3>2, <3>3 DEF NoneUpTo, Inside, Sat
    <3> QED
      BY <3>1, <3>4 DEF NoneMissed
  <2> QED
    BY <2>6, <2>7
<1>8. CASE TurnEarth
  <2>1. /\ pc = "turning" /\ pc' = "following" /\ UNCHANGED << satellites, asked, sat, t >>
        /\ index' = Closest /\ index' \in {1, 2}
        /\ orbit' = OrbitAt(Sat, crossings[index'].t + Turning(index'))
    BY <1>8 DEF TurnEarth, Goto, Closest
  <2>2. (\A k \in {1, 2} : NoneUpTo(k, orbit)) /\ t < AtOrbit(Sat, orbit + 1)
    BY <2>1 DEF NoneMissed
  <2>3. \E o \in Int : Follows(o, index', orbit')
    BY <2>1, <2>2, TurnedFollows
  <2>4. \E o \in Int : Follows(o, index, orbit)'
    BY <2>1, <2>3 DEF Follows, Offset, NoneUpTo, Inside, Sat
  <2> QED
    BY <2>1, <2>4 DEF NoneMissed
<1>9. ASSUME pc = "following" PROVE \E o \in Int : Follows(o, index, orbit)
  BY <1>9 DEF NoneMissed
<1>10. CASE FollowFound
  <2>1. /\ pc = "following" /\ pc' = "compare" /\ Seen(index) /\ Found(index)
        /\ index \in {1, 2} /\ pc \in Searching
        /\ UNCHANGED << satellites, asked, sat >>
    BY <1>10 DEF FollowFound, Goto, TypeInv, Searching
  <2>2. PICK o \in Int : Follows(o, index, orbit)
    BY <1>9, <2>1
  <2>3. found'.culmination = crossings[index].t
    BY <2>1, FoundIs
  <2>4. \A n \in Nat, k \in {1, 2} :
          Inside(Sat, n, k) => found'.culmination <= Time(Sat, asked.lat, n, k)
    BY <2>1, <2>2, <2>3, FollowedIsFirst
  <2>5. \A n \in Nat, k \in {1, 2} :
          Inside(Sat, n, k)' => found'.culmination <= Time(Sat, asked.lat, n, k)'
    BY <2>1, <2>4 DEF Inside, Sat
  <2> QED
    BY <2>1, <2>5 DEF NoneMissed
<1>11. CASE FollowNext
  <2>1. /\ pc = "following" /\ pc' = "following" /\ Ahead /\ ~Seen(index)
        /\ UNCHANGED << satellites, asked, sat, t, index >> /\ orbit' = orbit + 1
    BY <1>11 DEF FollowNext, NextOrbit
  <2>2. PICK o \in Int : Follows(o, index, orbit)
    BY <1>9, <2>1
  <2>3. \E x \in Int : Follows(x, index', orbit')
    BY <2>1, <2>2, FollowsNext
  <2>4. \E x \in Int : Follows(x, index, orbit)'
    BY <2>1, <2>3 DEF Follows, Offset, NoneUpTo, Inside, Sat
  <2> QED
    BY <2>1, <2>4 DEF NoneMissed
<1>12. CASE FollowPast
  <2>1. /\ pc = "following" /\ pc \in Searching /\ pc' = "turning" /\ ~Ahead
        /\ t' = crossings[index].t /\ index \in {1, 2}
        /\ UNCHANGED << satellites, asked, sat, orbit >>
    BY <1>12 DEF FollowPast, Goto, TypeInv, Searching
  <2>2. PICK o \in Int : Follows(o, index, orbit)
    BY <1>9, <2>1
  <2>3. \A k \in {1, 2} : NoneUpTo(k, orbit)
    BY <2>1, <2>2, FollowedIsPast
  <2>4. t' < AtOrbit(Sat, orbit + 1)
    BY <2>1, CrossingIs
  <2>5. (t < AtOrbit(Sat, orbit + 1))' /\ \A k \in {1, 2} : NoneUpTo(k, orbit)'
    BY <2>1, <2>3, <2>4 DEF NoneUpTo, Inside, Sat
  <2> QED
    BY <2>1, <2>5 DEF NoneMissed
<1> QED
  BY <1>2, <1>3, <1>4, <1>5, <1>6, <1>7, <1>8, <1>10, <1>11, <1>12 DEF Next, Search

-----------------------------------------------------------------------------
(* No satellite's pass is missed. *)

LEMMA ArgumentsKept ==
  ASSUME [Next]_vars
  PROVE  UNCHANGED << satellites, asked >>
BY DEF Next, Search, vars, NoSatellites, Call, Skip, Start, Forward, ThisOrbit, TurnEarth,
       FollowFound, FollowNext, FollowPast, Compare, Finished

LEMMA BestType ==
  ASSUME TypeInv, ReportInv, pc \notin {"idle", "error"}
  PROVE  best.culmination \in Int
<1>1. CASE best.culmination = Never
  BY <1>1, PassSearchAssumption
<1>2. CASE IsPass(best)
  <2>1. PICK n \in 0 .. LastOrbit, k \in {1, 2} :
          best.culmination = Time(satellites[best.sat], asked.lat, n, k)
    BY <1>2 DEF IsPass
  <2>2. /\ satellites[best.sat] \in Satellite /\ asked.lat \in Int /\ n \in Int
        /\ Reaches(satellites[best.sat], asked.lat)
    BY <1>2, TableIs, PassSearchAssumption DEF IsPass, TypeInv, AskedOK
  <2> QED
    BY <2>1, <2>2, TimeIs
<1> QED
  BY <1>1, <1>2 DEF ReportInv

(* The best pass comes no later than any pass of satellite m. *)
Covers(time, m) ==
  Usable(satellites[m]) =>
    \A n \in Nat, k \in {1, 2} :
      Inside(satellites[m], n, k) => time <= Time(satellites[m], asked.lat, n, k)

LEMMA BestNextSat ==
  ASSUME TypeInv, BestSoFar, pc \in {"satellite", "compare"}, NextSat,
         UNCHANGED << satellites, asked >>,
         \A m \in 1 .. Len(satellites) : m <= sat => Covers(best'.culmination, m)
  PROVE  BestSoFar'
<1>1. sat \in 1 .. Len(satellites) /\ Len(satellites) \in Nat
  BY TableIs DEF TypeInv, Searching
<1>2. /\ pc' = "satellite" => sat < Len(satellites)
      /\ pc' \in {"done", "error"} => ~(sat < Len(satellites))
      /\ pc' \in {"satellite", "done", "error"} /\ sat' = sat + 1
      /\ pc' = "error" => best'.culmination = Never
  BY DEF NextSat
<1>3. ASSUME NEW m \in 1 .. Len(satellites), Compared(m)' PROVE Covers(best'.culmination, m)
  <2>1. m <= sat
    <3>1. CASE pc' = "satellite"
      BY <1>1, <1>2, <1>3, <3>1 DEF Compared
    <3>2. CASE pc' \in {"done", "error"}
      BY <1>1, <1>2, <3>2
    <3> QED
      BY <1>2, <3>1, <3>2
  <2> QED
    BY <2>1
<1>4. ASSUME NEW m \in 1 .. Len(satellites), Covers(best'.culmination, m), Usable(satellites[m])',
             NEW n \in Nat, NEW k \in {1, 2}, Inside(satellites[m], n, k)'
      PROVE  best'.culmination <= Time(satellites[m], asked.lat, n, k)
  <2>1. Usable(satellites[m]) /\ Inside(satellites[m], n, k)
    BY <1>4 DEF Usable, Served, South, NorthLimit, Inside
  <2> QED
    BY <1>4, <2>1 DEF Covers
<1> QED
  BY <1>2, <1>3, <1>4 DEF BestSoFar

LEMMA BestStep ==
  ASSUME TypeInv, DurationInv, ReportInv, NoneMissed, BestSoFar, [Next]_vars
  PROVE  BestSoFar'
<1>0. UNCHANGED << satellites, asked >>
  BY ArgumentsKept
<1>1. ASSUME UNCHANGED << sat, best >>, pc \in {"satellite"} \cup Searching,
             pc' \in {"satellite"} \cup Searching
      PROVE  BestSoFar'
  BY <1>0, <1>1 DEF BestSoFar, Compared, Usable, Served, South, NorthLimit, Inside, Searching
<1>2. CASE UNCHANGED vars
  BY <1>2 DEF vars, BestSoFar, Compared, Usable, Served, South, NorthLimit, Inside
<1>3. CASE NoSatellites
  BY <1>3 DEF NoSatellites, Goto, BestSoFar
<1>4. CASE Call
  <2>1. pc' = "satellite" /\ sat' = 1
    BY <1>4 DEF Call, Goto
  <2>2. Len(satellites) \in Nat
    BY TableIs DEF TypeInv
  <2>3. ASSUME NEW m \in 1 .. Len(satellites) PROVE ~Compared(m)'
    BY <2>1, <2>2 DEF Compared
  <2> QED
    BY <1>0, <2>1, <2>3 DEF BestSoFar
<1>5. CASE Finished
  BY <1>2, <1>5 DEF Finished
<1>6. ASSUME pc \in {"satellite"} \cup Searching, NEW m \in 1 .. Len(satellites), m < sat
      PROVE  Covers(best.culmination, m)
  BY <1>6 DEF BestSoFar, Compared, Covers, Searching
<1>7. CASE Skip
  <2>1. pc = "satellite" /\ best' = best /\ NextSat
        /\ (OrbitAt(Sat, asked.t) < 0 \/ ~Reaches(Sat, asked.lat))
    BY <1>7 DEF Skip
  <2>2. OrbitAt(Sat, asked.t) \in Int /\ sat \in 1 .. Len(satellites) /\ Len(satellites) \in Nat
    BY <2>1, SatIs, OrbitAtType, TableIs DEF TypeInv, AskedOK
  <2>3. ~Usable(Sat)
    BY <2>1, <2>2 DEF Usable
  <2>4. Covers(best'.culmination, sat)
    BY <2>3 DEF Covers, Sat
  <2>5. ASSUME NEW m \in 1 .. Len(satellites), m <= sat PROVE Covers(best'.culmination, m)
    <3>1. m < sat \/ m = sat
      BY <2>2, <2>5
    <3> QED
      BY <1>6, <2>1, <2>4, <3>1
  <2> QED
    BY <1>0, <2>1, <2>5, BestNextSat
<1>8. CASE Start
  BY <1>1, <1>8 DEF Start, Goto, Searching
<1>9. CASE Forward
  BY <1>1, <1>9 DEF Forward, Searching
<1>10. CASE ThisOrbit
  BY <1>1, <1>10 DEF ThisOrbit, Searching
<1>11. CASE TurnEarth
  BY <1>1, <1>11 DEF TurnEarth, Goto, Searching
<1>12. CASE FollowFound
  BY <1>1, <1>12 DEF FollowFound, Goto, Searching
<1>13. CASE FollowNext
  BY <1>1, <1>13 DEF FollowNext, Searching
<1>14. CASE FollowPast
  BY <1>1, <1>14 DEF FollowPast, Goto, Searching
<1>15. CASE Compare
  <2>1. pc = "compare" /\ NextSat /\ found \in Reports
    BY <1>15 DEF Compare, DurationInv
  <2>2. /\ sat \in 1 .. Len(satellites) /\ Len(satellites) \in Nat
        /\ asked.lat \in Int /\ Sat \in Satellite
    BY <2>1, SatIs, TableIs DEF TypeInv, AskedOK, Searching
  <2>3. PICK b \in Int, f \in Int : b = best.culmination /\ f = found.culmination
    BY <2>1, BestType DEF Reports
  <2>4. PICK x \in Int : /\ x = best'.culmination /\ x <= b
                         /\ Served(Sat) => x <= f
    <3>1. CASE Served(Sat) /\ b > f /\ best'.culmination = f
      BY <3>1
    <3>2. CASE ~(Served(Sat) /\ b > f) /\ best' = best
      BY <2>3, <3>2
    <3> QED
      BY <1>15, <2>1, <2>3, <3>1, <3>2, CompareIs
  <2>5. ASSUME Usable(Sat), NEW n \in Nat, NEW k \in {1, 2}, Inside(Sat, n, k)
        PROVE  x <= Time(Sat, asked.lat, n, k)
    <3>1. f <= Time(Sat, asked.lat, n, k)
      BY <2>1, <2>3, <2>5 DEF NoneMissed
    <3>2. x <= f
      BY <2>4, <2>5 DEF Usable
    <3>3. Reaches(Sat, asked.lat) /\ n \in Int
      BY <2>5 DEF Usable
    <3>4. Time(Sat, asked.lat, n, k) \in Int
      BY <2>2, <2>5, <3>3, TimeIs
    <3> QED
      BY <2>3, <2>4, <3>1, <3>2, <3>4
  <2>6. ASSUME NEW m \in 1 .. Len(satellites), m < sat, Usable(satellites[m]),
               NEW n \in Nat, NEW k \in {1, 2}, Inside(satellites[m], n, k)
        PROVE  x <= Time(satellites[m], asked.lat, n, k)
    <3>1. b <= Time(satellites[m], asked.lat, n, k)
      BY <1>6, <2>1, <2>3, <2>6 DEF Covers, Searching
    <3>2. satellites[m] \in Satellite /\ Reaches(satellites[m], asked.lat) /\ n \in Int
      BY <2>6, TableIs DEF TypeInv, Usable
    <3>3. Time(satellites[m], asked.lat, n, k) \in Int
      BY <2>2, <2>6, <3>2, TimeIs
    <3> QED
      BY <2>3, <2>4, <3>1, <3>3
  <2>7. ASSUME NEW m \in 1 .. Len(satellites), m <= sat PROVE Covers(best'.culmination, m)
    <3>1. CASE m < sat
      BY <2>4, <2>6, <3>1 DEF Covers
    <3>2. CASE m = sat
      BY <2>4, <2>5, <3>2 DEF Covers, Sat
    <3> QED
      BY <2>2, <2>7, <3>1, <3>2
  <2> QED
    BY <1>0, <2>1, <2>7, BestNextSat
<1> QED
  BY <1>2, <1>3, <1>4, <1>5, <1>7, <1>8, <1>9, <1>10, <1>11, <1>12, <1>13, <1>14, <1>15
     DEF Next, Search

(* Within the bound on the orbits every pass is before the time that stands  *)
(* for none.                                                                 *)
LEMMA BeforeNever ==
  ASSUME TypeInv, NEW m \in 1 .. Len(satellites), Reaches(satellites[m], asked.lat),
         NEW n \in 0 .. LastOrbit, NEW k \in {1, 2}
  PROVE  /\ Time(satellites[m], asked.lat, n, k) \in Int
         /\ Time(satellites[m], asked.lat, n, k) < Never
<1>1. /\ satellites[m] \in Satellite /\ asked.lat \in Int /\ satellites \in Ephemerides
      /\ LastOrbit \in Nat /\ Never \in Nat /\ n \in Int
  BY TableIs, PassSearchAssumption DEF TypeInv, AskedOK
<1>2. PICK s \in Satellite : s = satellites[m]
  BY <1>1
<1>3. s.t0 + (LastOrbit + 1) * PeriodOf(s) + Day < Never
  BY <1>1, <1>2, PassSearchAssumption
<1>4. PICK x \in Int : x = AtOrbit(s, LastOrbit + 1)
  BY <1>1, OrbitType
<1>5. x + Day < Never
  BY <1>3, <1>4 DEF AtOrbit
<1>6. AtOrbit(s, n) + PeriodOf(s) <= x
  <2>1. n < LastOrbit + 1 /\ LastOrbit + 1 \in Int
    BY <1>1
  <2> QED
    BY <1>1, <1>4, <2>1, OrbitsAfter
<1>7. /\ Time(s, asked.lat, n, k) \in Int
      /\ Time(s, asked.lat, n, k) < AtOrbit(s, n + 1)
      /\ AtOrbit(s, n + 1) = AtOrbit(s, n) + PeriodOf(s) /\ AtOrbit(s, n + 1) \in Int
  <2>1. n + 1 \in Int
    BY <1>1
  <2> QED
    BY <1>1, <1>2, <2>1, TimeIs, OrbitType
<1>8. PICK y \in Int : y = Time(s, asked.lat, n, k)
  BY <1>7
<1>9. Day \in Int /\ 0 < Day
  BY DayOK
<1>10. y < x /\ x < Never
  <2>1. y < AtOrbit(s, n + 1) /\ AtOrbit(s, n + 1) <= x /\ AtOrbit(s, n + 1) \in Int
    BY <1>6, <1>7, <1>8
  <2>2. PICK z \in Int : z = AtOrbit(s, n + 1)
    BY <2>1
  <2>3. y < z /\ z <= x
    BY <2>1, <2>2
  <2>4. y < x
    BY <1>4, <1>8, <2>2, <2>3
  <2>5. PICK v \in Int : v = Never
    BY <1>1
  <2>6. x + Day < v
    BY <1>5, <2>5
  <2>7. x < v
    BY <1>4, <1>9, <2>5, <2>6
  <2> QED
    BY <2>4, <2>5, <2>7
<1>11. y \in Int /\ y < Never
  BY <1>1, <1>4, <1>8, <1>10
<1> QED
  BY <1>2, <1>8, <1>11

LEMMA PassIs ==
  ASSUME TypeInv, NEW p \in Passes
  PROVE  \E m \in 1 .. Len(satellites), n \in 0 .. LastOrbit, k \in {1, 2} :
           /\ Usable(satellites[m])
           /\ p.t = Time(satellites[m], asked.lat, n, k)
           /\ p.lon = HalfTurn(Angle(satellites[m], asked.lat, n, k))
           /\ p.t > asked.t
<1>1. DOMAIN satellites = 1 .. Len(satellites)
  BY TableIs DEF TypeInv
<1>2. PICK m \in 1 .. Len(satellites) : Usable(satellites[m]) /\ p \in PassesOf(m)
  BY <1>1 DEF Passes
<1>3. PICK n \in 0 .. LastOrbit, k \in 1 .. 2 :
        LET c == Crossings(satellites[m], asked.lat, n)
        IN  /\ p = [ sat |-> m, t |-> c[k].t, lon |-> c[k].lon,
                     up |-> (asked.lat >= 0) = (k = 1) ]
            /\ c[k].t > asked.t
  BY <1>2 DEF PassesOf
<1>4. k \in {1, 2} /\ n \in Int
  BY PassSearchAssumption
<1>5. satellites[m] \in Satellite /\ asked.lat \in Int /\ Reaches(satellites[m], asked.lat)
  BY <1>2, TableIs DEF TypeInv, AskedOK, Usable
<1>6. /\ p.t = Crossings(satellites[m], asked.lat, n)[k].t
      /\ p.lon = Crossings(satellites[m], asked.lat, n)[k].lon
      /\ p.t > asked.t
  BY <1>3
<1> QED
  BY <1>2, <1>4, <1>5, <1>6, CrossingsAre

LEMMA FirstIsReported ==
  ASSUME TypeInv, ReportInv, SearchedInv
  PROVE  EarliestIfNarrow
<1>1. SUFFICES ASSUME Narrow, pc \in {"done", "error"},
                      NEW p \in Passes, Distance(p.lon, asked.lon) < asked.tol
               PROVE  pc = "done" /\ best.culmination <= p.t
  BY DEF EarliestIfNarrow, Earliest, Narrow
<1>2. PICK m \in 1 .. Len(satellites), n \in 0 .. LastOrbit, k \in {1, 2} :
        /\ Usable(satellites[m])
        /\ p.t = Time(satellites[m], asked.lat, n, k)
        /\ p.lon = HalfTurn(Angle(satellites[m], asked.lat, n, k))
        /\ p.t > asked.t
  BY PassIs
<1>3. Inside(satellites[m], n, k) /\ Compared(m) /\ n \in Nat
  BY <1>1, <1>2, PassSearchAssumption DEF Inside, Compared, Searching
<1>4. best.culmination <= p.t
  BY <1>1, <1>2, <1>3 DEF SearchedInv, BestSoFar
<1>5. p.t \in Int /\ p.t < Never /\ Never \in Nat
  BY <1>2, BeforeNever, PassSearchAssumption DEF Usable
<1>6. satellites # << >>
  BY <1>2
<1>7. pc # "error"
  BY <1>1, <1>4, <1>5, <1>6 DEF SearchedInv, BestSoFar
<1> QED
  BY <1>1, <1>4, <1>7

(* Of satellites in low orbits no pass comes before the one reported, and    *)
(* none is missed, whatever the orbits and however many satellites, while    *)
(* the window is narrower than two orbits of one are apart.                  *)
THEOREM NoneEarlier ==
  ASSUME LowOrbits
  PROVE  Spec => []EarliestIfNarrow
<1>1. Init => SinceInv /\ DurationInv /\ ReportInv /\ SearchedInv
  BY DEF Init, SinceInv, DurationInv, ReportInv, SearchedInv, NoneMissed, BestSoFar
<1>2. TypeInv /\ SinceInv /\ DurationInv /\ ReportInv /\ SearchedInv /\ [Next]_vars
        => SearchedInv'
  <2> SUFFICES ASSUME TypeInv, SinceInv, DurationInv, ReportInv, SearchedInv, [Next]_vars,
                      Narrow'
               PROVE  NoneMissed' /\ BestSoFar'
    BY DEF SearchedInv
  <2>1. Narrow
    BY ArgumentsKept DEF Narrow
  <2>2. NoneMissed /\ BestSoFar
    BY <2>1 DEF SearchedInv
  <2> QED
    BY <2>1, <2>2, MissedStep, BestStep
<1> QED
  BY TypeInit, TypeNext, SinceStep, DurationStep, ReportStep, FirstIsReported,
     <1>1, <1>2, PTL DEF Spec


-----------------------------------------------------------------------------
(* The send: SatSchedule. *)

ModeNames == {"none", "normal", "high"}

(* A call is under way. *)
Sending == {"sending", "pausing", "sent", "failed"}

SendTypes ==
  /\ stage \in {"idle", "waiting"} \cup Sending
  /\ drift \in Nat /\ crossing \in Nat /\ duration \in Nat
  /\ error \in Int /\ start \in Int /\ now \in Int
  /\ mode \in ModeNames /\ within \in BOOLEAN
  /\ count \in Nat /\ left \in Nat /\ tx_index \in Nat /\ heard \in Nat

(* What was predicted, and what was planned from it.                         *)
PlanInv ==
  /\ stage # "idle" =>
       /\ drift \in Drifts /\ crossing \in RegionCrossings
       /\ error \in -drift .. drift
       /\ duration = crossing + Period(drift)
       /\ start = -Half(drift) - Half(duration)
  /\ stage \in Sending =>
       /\ within => mode # "none"
       /\ count = IF within THEN PlannedWithin(mode) ELSE Planned(mode)

(* The transmissions made so far, failed ones included, and the pauses.      *)
Tried == count - left
Pauses == IF stage = "sending" THEN Tried ELSE Tried - 1

(* The loop has made some of the planned transmissions; its callback was     *)
(* called for each of them that succeeded.                                   *)
LoopInv ==
  /\ stage \in {"idle", "waiting"} => heard = 0 /\ tx_index = 0
  /\ stage \in {"sending", "pausing"} => left > 0
  /\ stage = "sent" => left = 0
  /\ stage \in Sending =>
       /\ left <= count /\ count > 0
       /\ stage # "sending" => Tried > 0
       /\ heard = IF stage = "failed" THEN Tried - 1 ELSE Tried
  /\ heard > 0 => tx_index = heard - 1
  /\ heard = 0 => tx_index = 0

(* The clock of a call is between the shortest and the longest it can have   *)
(* taken: its transmissions, and a pause between each two of them.           *)
ClockInv ==
  stage \in Sending =>
    /\ start + Tried * AirTime + Pauses * (Interval(mode) - Second) <= now
    /\ now <= start + Tried * AirTime + Pauses * (Interval(mode) + Second)

SendInv == SendTypes /\ PlanInv /\ LoopInv /\ ClockInv

-----------------------------------------------------------------------------
LEMMA Constants ==
  /\ Drifts \subseteq Nat /\ RegionCrossings \subseteq Nat /\ Modes \subseteq ModeNames
  /\ Errors \subseteq Int /\ AirTime \in Nat
  /\ Uint8Max \in Nat /\ Uint8Max > 0
BY SatScheduleAssumption DEF ModeNames

(* The parameters of the modes. *)
LEMMA ModeParameters ==
  /\ Interval("none") = 0 /\ Interval("normal") = 40 /\ Interval("high") = 20
  /\ Retries("none") = 1 /\ Retries("normal") = 8 /\ Retries("high") = 16
BY DEF Interval, Retries, Second

LEMMA Quotient == \A n, k \in Nat : k > 0 => n \div k \in Nat
OBVIOUS

LEMMA HalfType == \A time \in Nat : Half(time) \in Nat /\ 2 * Half(time) <= time
                                    /\ time - 3 <= 2 * Half(time)
BY DEF Half, Second

(* The drift adds no fewer than 0 and no more than UINT8_MAX transmissions.  *)
LEMMA AdditionalType ==
  ASSUME NEW m \in ModeNames, NEW d \in Nat
  PROVE  Additional(m, d) \in Nat
<1>1. CASE m = "none"
  BY <1>1, ModeParameters DEF Additional
<1>2. CASE m = "normal"
  <2>1. d \div 40 \in Nat
    BY Quotient
  <2> QED
    BY <1>2, <2>1, Constants, ModeParameters DEF Additional, Least
<1>3. CASE m = "high"
  <2>1. d \div 20 \in Nat
    BY Quotient
  <2> QED
    BY <1>3, <2>1, Constants, ModeParameters DEF Additional, Least
<1> QED
  BY <1>1, <1>2, <1>3 DEF ModeNames

LEMMA PeriodType == \A d \in Nat : Period(d) \in Nat /\ Period(d) >= 320
<1> SUFFICES ASSUME NEW d \in Nat PROVE Period(d) \in Nat /\ Period(d) >= 320
  OBVIOUS
<1>1. PICK n \in Nat : n = Additional("normal", d)
  BY AdditionalType DEF ModeNames
<1> QED
  BY <1>1, ModeParameters DEF Period

(* At least one transmission is planned, whatever the drift and the pass.    *)
LEMMA PlannedType ==
  ASSUME SendTypes, NEW m \in ModeNames
  PROVE  /\ Planned(m) \in Nat /\ Planned(m) > 0
         /\ m = "none" => Planned(m) = 1
         /\ m # "none" => PlannedWithin(m) \in Nat /\ PlannedWithin(m) > 0
<1>1. PICK n \in Nat : n = Additional(m, drift)
  BY AdditionalType DEF SendTypes
<1>2. Planned(m) \in Nat /\ Planned(m) > 0
  <2>1. Retries(m) \in Nat /\ Retries(m) > 0
    BY ModeParameters DEF ModeNames
  <2> QED
    BY <1>1, <2>1, Constants DEF Planned, Least
<1>3. ASSUME m = "none" PROVE Planned(m) = 1
  BY <1>3, Constants, ModeParameters DEF Planned, Additional, Least
<1>4. ASSUME m # "none" PROVE PlannedWithin(m) \in Nat /\ PlannedWithin(m) > 0
  <2>1. duration \in Nat
    BY DEF SendTypes
  <2>2. PICK q \in Nat : q = duration \div Interval(m)
    BY <1>4, <2>1, ModeParameters, Quotient DEF ModeNames
  <2> QED
    BY <2>2, Constants DEF PlannedWithin, Least, Greatest
<1> QED
  BY <1>2, <1>3, <1>4

-----------------------------------------------------------------------------
LEMMA SendInvInit == SendInit => SendInv
<1> SUFFICES ASSUME SendInit PROVE SendInv
  OBVIOUS
<1>1. stage \in {"idle", "waiting"} \cup Sending /\ mode \in ModeNames /\ within \in BOOLEAN
  BY DEF SendInit, ModeNames
<1>2. SendTypes
  BY <1>1 DEF SendInit, SendTypes
<1>3. PlanInv /\ LoopInv /\ ClockInv
  BY DEF SendInit, PlanInv, LoopInv, ClockInv, Sending
<1> QED
  BY <1>2, <1>3 DEF SendInv

LEMMA InvPredict == ASSUME SendInv, Predict PROVE SendInv'
<1>1. PICK d \in Drifts, e \in Errors, c \in RegionCrossings :
        /\ e \in -d .. d /\ drift' = d /\ error' = e /\ crossing' = c
        /\ duration' = c + Period(d)
        /\ start' = -Half(d) - Half(duration')
  BY DEF Predict
<1>2. d \in Nat /\ c \in Nat /\ e \in Int
  BY Constants
<1>3. duration' \in Nat /\ start' \in Int
  BY <1>1, <1>2, PeriodType, HalfType
<1>4. error' \in Int /\ error' \in -d .. d
  BY <1>1, <1>2
<1>5. stage = "idle" /\ stage' = "waiting" /\ UNCHANGED << send, progress >>
  BY DEF Predict, Advance
<1>6. SendTypes'
  BY <1>1, <1>2, <1>3, <1>4, <1>5 DEF SendInv, SendTypes, send, progress
<1>7. PlanInv'
  BY <1>1, <1>4, <1>5 DEF PlanInv, Sending
<1>8. LoopInv' /\ ClockInv'
  BY <1>5 DEF SendInv, LoopInv, ClockInv, Sending, send, progress
<1> QED
  BY <1>6, <1>7, <1>8 DEF SendInv

LEMMA InvSendCall == ASSUME SendInv, SendCall PROVE SendInv'
<1>1. PICK m \in Modes :
        \/ mode' = m /\ within' = FALSE /\ count' = Planned(m)
        \/ m # "none" /\ mode' = m /\ within' = TRUE /\ count' = PlannedWithin(m)
  BY DEF SendCall
<1>2. /\ stage = "waiting" /\ stage' = "sending" /\ left' = count' /\ now' = start
      /\ UNCHANGED << pass, tx_index, heard >>
  BY DEF SendCall, Advance
<1>3. m \in ModeNames /\ mode' = m
  BY <1>1, Constants
<1>4. count' \in Nat /\ count' > 0
  BY <1>1, <1>3, PlannedType DEF SendInv
<1>5. SendTypes'
  BY <1>1, <1>2, <1>3, <1>4 DEF SendInv, SendTypes, Sending, pass
<1>6. PlanInv'
  BY <1>1, <1>2, <1>3 DEF SendInv, PlanInv, Planned, PlannedWithin, Sending, pass
<1>7. LoopInv'
  <2>1. PICK n \in Nat \ {0} : count' = n /\ left' = n
    BY <1>2, <1>4
  <2>2. heard' = 0 /\ tx_index' = 0
    BY <1>2 DEF SendInv, LoopInv
  <2> QED
    BY <1>2, <2>1, <2>2 DEF LoopInv, Tried, Sending
<1>8. ClockInv'
  <2>1. Tried' = 0 /\ Pauses' = 0
    <3>1. PICK n \in Nat : count' = n /\ left' = n
      BY <1>2, <1>4
    <3> QED
      BY <1>2, <3>1 DEF Tried, Pauses
  <2>2. Interval(mode)' \in Int /\ AirTime \in Int /\ start' = start /\ start \in Int
    BY <1>2, <1>3, Constants, ModeParameters DEF SendInv, SendTypes, pass, ModeNames
  <2> QED
    BY <1>2, <2>1, <2>2 DEF ClockInv, Second
<1> QED
  BY <1>5, <1>6, <1>7, <1>8 DEF SendInv

LEMMA InvTransmit == ASSUME SendInv, Transmit PROVE SendInv'
<1>1. /\ stage = "sending" /\ stage' \in {"pausing", "sent", "failed"}
      /\ left' = left - 1 /\ now' = now + AirTime
      /\ stage' = "pausing" => left' > 0
      /\ stage' = "sent" => ~(left' > 0)
      /\ UNCHANGED << pass, send >>
  BY DEF Transmit, Advance
<1>2. /\ count \in Nat /\ left \in Nat /\ left > 0 /\ left <= count
      /\ now \in Int /\ AirTime \in Nat /\ start \in Int /\ mode \in ModeNames
      /\ heard = count - left
  BY <1>1, Constants DEF SendInv, SendTypes, LoopInv, Sending, Tried
<1>3. /\ count' = count /\ start' = start /\ mode' = mode
      /\ left' \in Nat /\ now' \in Int
  BY <1>1, <1>2 DEF pass, send
<1>4. \/ stage' \in {"pausing", "sent"} /\ tx_index' = (count - left') - 1 /\ heard' = heard + 1
      \/ stage' = "failed" /\ tx_index' = tx_index /\ heard' = heard
  BY <1>1 DEF Transmit, Advance
<1>5. SendTypes'
  <2>1. tx_index' \in Nat /\ heard' \in Nat
    BY <1>1, <1>2, <1>4 DEF SendInv, SendTypes
  <2> QED
    BY <1>1, <1>3, <2>1 DEF SendInv, SendTypes, Sending, pass, send
<1>6. PlanInv'
  BY <1>1 DEF SendInv, PlanInv, Planned, PlannedWithin, Sending, pass, send
<1>7. Tried' = Tried + 1 /\ Pauses' = Tried /\ Pauses = Tried /\ Tried \in Nat
  BY <1>1, <1>2, <1>3 DEF Tried, Pauses
<1>8. LoopInv'
  <2>1. heard = Tried /\ (heard = 0 => tx_index = 0) /\ (heard > 0 => tx_index = heard - 1)
    BY <1>1, <1>2 DEF SendInv, LoopInv, Tried
  <2>2. CASE stage' \in {"pausing", "sent"}
    BY <1>1, <1>2, <1>3, <1>4, <1>7, <2>1, <2>2 DEF LoopInv, Sending, Tried
  <2>3. CASE stage' = "failed"
    BY <1>1, <1>2, <1>3, <1>4, <1>7, <2>1, <2>3 DEF LoopInv, Sending, Tried
  <2> QED
    BY <1>1, <2>2, <2>3
<1>9. ClockInv'
  <2>1. PICK i \in Int : i = Interval(mode)
    BY <1>2, ModeParameters DEF ModeNames
  <2>2. PICK k \in Nat : k = Tried
    BY <1>7
  <2>3. start + k * AirTime + k * (i - 2) <= now /\ now <= start + k * AirTime + k * (i + 2)
    BY <1>1, <1>7, <2>1, <2>2 DEF SendInv, ClockInv, Sending, Second
  <2>4. (k + 1) * AirTime = k * AirTime + AirTime
    BY <1>2
  <2>5. PICK a \in Int, low \in Int, high \in Int :
          a = k * AirTime /\ low = k * (i - 2) /\ high = k * (i + 2)
    BY <1>2
  <2>6. /\ start + (k + 1) * AirTime + k * (i - 2) <= now'
        /\ now' <= start + (k + 1) * AirTime + k * (i + 2)
    BY <1>1, <1>2, <2>3, <2>4, <2>5
  <2> QED
    BY <1>3, <1>7, <2>1, <2>2, <2>6 DEF ClockInv, Second
<1> QED
  BY <1>5, <1>6, <1>8, <1>9 DEF SendInv

(* A call that pauses has planned more than one transmission: it has a mode. *)
LEMMA PausesInMode == ASSUME SendInv, stage = "pausing" PROVE mode \in {"normal", "high"}
<1>1. count > 1 /\ mode \in ModeNames
  BY DEF SendInv, SendTypes, LoopInv, Sending, Tried
<1>2. mode # "none"
  BY <1>1, PlannedType DEF SendInv, PlanInv, Sending
<1> QED
  BY <1>1, <1>2 DEF ModeNames

LEMMA InvPause == ASSUME SendInv, Pause PROVE SendInv'
<1>1. /\ stage = "pausing" /\ stage' = "sending"
      /\ UNCHANGED << pass, send, left, tx_index, heard >>
  BY DEF Pause, Advance
<1>2. PICK i \in {20, 40} : i = Interval(mode)
  BY <1>1, PausesInMode, ModeParameters
<1>3. PICK offset \in -2 .. 2 : now' = now + i + offset
  BY <1>2 DEF Pause, Offsets, Greatest, SendInv, SendTypes
<1>4. /\ count \in Nat /\ left \in Nat /\ left > 0 /\ left < count
      /\ now \in Int /\ AirTime \in Nat /\ start \in Int
  BY <1>1, Constants DEF SendInv, SendTypes, LoopInv, Sending, Tried
<1>5. SendTypes'
  BY <1>1, <1>2, <1>3, <1>4 DEF SendInv, SendTypes, Sending, pass, send
<1>6. PlanInv'
  BY <1>1 DEF SendInv, PlanInv, Planned, PlannedWithin, Sending, pass, send
<1>7. LoopInv'
  BY <1>1 DEF SendInv, LoopInv, Tried, Sending, send
<1>8. PICK k \in Nat : Tried = k /\ Pauses = k - 1 /\ Tried' = k /\ Pauses' = k
  BY <1>1, <1>4 DEF Tried, Pauses, send
<1>9. ClockInv'
  <2>1. PICK a \in Int : a = k * AirTime
    BY <1>4
  <2>2. /\ start + a + (k - 1) * (i - 2) <= now
        /\ now <= start + a + (k - 1) * (i + 2)
    BY <1>1, <1>2, <1>8, <2>1 DEF SendInv, ClockInv, Sending, Second
  <2>3. start + a + k * (i - 2) <= now' /\ now' <= start + a + k * (i + 2)
    <3>1. CASE i = 20
      BY <1>3, <1>4, <2>1, <2>2, <3>1
    <3>2. CASE i = 40
      BY <1>3, <1>4, <2>1, <2>2, <3>2
    <3> QED
      BY <3>1, <3>2
  <2> QED
    BY <1>1, <1>2, <1>8, <2>1, <2>3 DEF ClockInv, Second, pass, send
<1> QED
  BY <1>5, <1>6, <1>7, <1>9 DEF SendInv

LEMMA InvReturn == ASSUME SendInv, Return PROVE SendInv'
<1>1. /\ stage' \in {"idle", "waiting"} \cup Sending
      /\ mode' \in ModeNames /\ within' \in BOOLEAN
  BY DEF Return, ModeNames
<1>2. SendTypes'
  BY <1>1 DEF Return, SendTypes
<1>3. PlanInv' /\ LoopInv' /\ ClockInv'
  BY DEF Return, PlanInv, LoopInv, ClockInv, Sending
<1> QED
  BY <1>2, <1>3 DEF SendInv

LEMMA SendInvNext == SendInv /\ [SendNext]_send_vars => SendInv'
<1>1. SendInv /\ UNCHANGED send_vars => SendInv'
  BY DEF SendInv, SendTypes, PlanInv, LoopInv, ClockInv, Tried, Pauses, Planned,
         PlannedWithin, send_vars, pass, send, progress
<1> QED
  BY <1>1, InvPredict, InvSendCall, InvTransmit, InvPause, InvReturn DEF SendNext

(* hubble_sat_packet_sent_cb is called once, in order, for each transmission *)
(* that succeeded, with its index, and for all of them in a call that        *)
(* returns 0: for any plan and any drift.                                    *)
THEOREM CallbackOncePerTransmission == SendSpec => []CallbackContract
<1>1. SendInv => CallbackContract
  BY DEF SendInv, LoopInv, SendTypes, CallbackContract, Sending, Tried
<1> QED
  BY SendInvInit, SendInvNext, <1>1, PTL DEF SendSpec

-----------------------------------------------------------------------------
(* Where a call ends. *)

LEMMA Division ==
  /\ \A n \in Nat : n \div 20 \in Nat /\ 20 * (n \div 20) <= n /\ n <= 20 * (n \div 20) + 19
  /\ \A n \in Nat : n \div 40 \in Nat /\ 40 * (n \div 40) <= n /\ n <= 40 * (n \div 40) + 39
OBVIOUS

(* The length of the window, in the intervals of the normal mode.            *)
LEMMA PeriodCounts ==
  ASSUME NEW d \in Nat
  PROVE  /\ Additional("normal", d) \in Nat
         /\ Period(d) = 40 * (8 + Additional("normal", d))
         /\ Additional("normal", d) = Least(Uint8Max, d \div 40)
<1>1. Additional("normal", d) \in Nat
  BY AdditionalType DEF ModeNames
<1> QED
  BY <1>1, ModeParameters DEF Period, Additional

(* A call for the pass plans no more than fits into the window.              *)
LEMMA PlanFits ==
  ASSUME SendInv, stage = "sent", Fitted
  PROVE  /\ mode \in {"normal", "high"}
         /\ Interval(mode) * count <= duration
<1>1. /\ drift \in Nat /\ duration \in Nat /\ crossing \in Nat /\ count \in Nat
      /\ mode \in ModeNames /\ duration = crossing + Period(drift)
      /\ count = IF within THEN PlannedWithin(mode) ELSE Planned(mode)
      /\ within => mode # "none"
  BY DEF SendInv, SendTypes, PlanInv, Sending
<1>2. duration >= 320
  BY <1>1, PeriodType
<1>3. CASE within
  <2>1. mode \in {"normal", "high"} /\ count = PlannedWithin(mode)
    BY <1>1, <1>3 DEF ModeNames
  <2>2. CASE mode = "normal"
    <3>1. PICK q \in Nat : q = duration \div 40 /\ 40 * q <= duration
      BY <1>1, Division
    <3>2. count <= Greatest(1, q)
      BY <2>1, <2>2, <3>1, Constants, ModeParameters DEF PlannedWithin, Least, Greatest
    <3> QED
      BY <1>1, <1>2, <2>1, <2>2, <3>1, <3>2, ModeParameters DEF Greatest
  <2>3. CASE mode = "high"
    <3>1. PICK q \in Nat : q = duration \div 20 /\ 20 * q <= duration
      BY <1>1, Division
    <3>2. count <= Greatest(1, q)
      BY <2>1, <2>3, <3>1, Constants, ModeParameters DEF PlannedWithin, Least, Greatest
    <3> QED
      BY <1>1, <1>2, <2>1, <2>3, <3>1, <3>2, ModeParameters DEF Greatest
  <2> QED
    BY <2>1, <2>2, <2>3
<1>4. CASE ~within
  <2>1. mode = "normal" /\ crossing = 0 /\ count = Planned("normal")
    BY <1>1, <1>4 DEF Fitted
  <2>2. PICK n \in Nat : n = Additional("normal", drift) /\ Period(drift) = 40 * (8 + n)
    BY <1>1, PeriodCounts
  <2>3. count <= 8 + n
    BY <2>1, <2>2, Constants, ModeParameters DEF Planned, Least
  <2> QED
    BY <1>1, <2>1, <2>2, <2>3, ModeParameters
<1> QED
  BY <1>3, <1>4

(* A call for the pass ends before the window does, but for the time on air  *)
(* and the random part of its pauses.                                        *)
THEOREM SendFitsWindow == SendSpec => []FitsWindow
<1>1. SendInv => FitsWindow
  <2> SUFFICES ASSUME SendInv, stage = "sent", Fitted
               PROVE  now <= start + (duration - Interval(mode))
                             + (count - 1) * Second + count * AirTime
    BY DEF FitsWindow
  <2>1. PICK i \in {20, 40} : i = Interval(mode) /\ i * count <= duration
    BY PlanFits, ModeParameters
  <2>2. /\ count \in Nat /\ start \in Int /\ now \in Int /\ duration \in Nat
        /\ left = 0 /\ Tried = count /\ Pauses = count - 1
    BY DEF SendInv, SendTypes, LoopInv, Tried, Pauses
  <2>3. PICK a \in Nat : a = count * AirTime
    BY <2>2, Constants
  <2>4. now <= start + a + (count - 1) * (i + 2)
    BY <2>1, <2>2, <2>3 DEF SendInv, ClockInv, Sending, Second
  <2>5. CASE i = 20
    BY <2>1, <2>2, <2>3, <2>4, <2>5 DEF Second
  <2>6. CASE i = 40
    BY <2>1, <2>2, <2>3, <2>4, <2>6 DEF Second
  <2> QED
    BY <2>1, <2>5, <2>6
<1> QED
  BY SendInvInit, SendInvNext, <1>1, PTL DEF SendSpec

-----------------------------------------------------------------------------
(* Whether a call is on the air when the satellite culminates.               *)

(* The 8-bit count holds the plan of every pass; and what the pauses can     *)
(* lose, a second in every interval, is made up by the time on air or small  *)
(* beside the window: at half a second of it, drifts up to 290 s.            *)
Uncapped ==
  \A d \in Drifts, c \in RegionCrossings : c + Period(d) <= Interval("high") * Uint8Max
SmallLoss ==
  \A d \in Drifts : AirTime < Second => (Period(0) + d) * (Second - AirTime) <= 900

(* The window is longer than the drift it allows for, but not by much more.  *)
LEMMA WindowAllowsDrift ==
  ASSUME Uncapped, SendInv, stage # "idle"
  PROVE  /\ drift + crossing + 281 <= duration
         /\ duration <= drift + crossing + 320
<1>1. /\ drift \in Drifts /\ crossing \in RegionCrossings /\ drift \in Nat /\ crossing \in Nat
      /\ duration = crossing + Period(drift)
  BY DEF SendInv, SendTypes, PlanInv
<1>2. PICK q \in Nat : q = drift \div 40 /\ drift <= 40 * q + 39 /\ 40 * q <= drift
  BY <1>1, Division
<1>3. PICK n \in Nat : n = Least(Uint8Max, q) /\ Period(drift) = 40 * (8 + n)
  BY <1>1, <1>2, PeriodCounts
<1>4. 40 * (8 + n) <= 20 * Uint8Max
  BY <1>1, <1>3, Constants, ModeParameters DEF Uncapped
<1>5. n = q
  BY <1>2, <1>3, <1>4, Constants DEF Least
<1> QED
  BY <1>1, <1>2, <1>3, <1>5

(* A call for the pass plans all that fits into the window.                  *)
LEMMA PlanFills ==
  ASSUME Uncapped, SendInv, stage = "sent", Fitted
  PROVE  duration < Interval(mode) * (count + 1)
<1>1. /\ drift \in Drifts /\ crossing \in RegionCrossings
      /\ drift \in Nat /\ duration \in Nat /\ crossing \in Nat /\ count \in Nat
      /\ mode \in {"normal", "high"} /\ duration = crossing + Period(drift)
      /\ count = IF within THEN PlannedWithin(mode) ELSE Planned(mode)
  BY PlanFits DEF SendInv, SendTypes, PlanInv, Sending
<1>2. duration <= 20 * Uint8Max
  BY <1>1, ModeParameters DEF Uncapped
<1>3. CASE within /\ mode = "normal"
  <2>1. PICK q \in Nat : q = duration \div 40 /\ 40 * q <= duration /\ duration <= 40 * q + 39
    BY <1>1, Division
  <2>2. count >= q
    BY <1>1, <1>2, <1>3, <2>1, Constants, ModeParameters
       DEF PlannedWithin, Least, Greatest
  <2> QED
    BY <1>1, <1>3, <2>1, <2>2, ModeParameters
<1>4. CASE within /\ mode = "high"
  <2>1. PICK q \in Nat : q = duration \div 20 /\ 20 * q <= duration /\ duration <= 20 * q + 19
    BY <1>1, Division
  <2>2. count >= q
    BY <1>1, <1>2, <1>4, <2>1, Constants, ModeParameters
       DEF PlannedWithin, Least, Greatest
  <2> QED
    BY <1>1, <1>4, <2>1, <2>2, ModeParameters
<1>5. CASE ~within
  <2>1. mode = "normal" /\ crossing = 0 /\ count = Planned("normal")
    BY <1>1, <1>5 DEF Fitted
  <2>2. PICK n \in Nat : n = Additional("normal", drift) /\ Period(drift) = 40 * (8 + n)
    BY <1>1, PeriodCounts
  <2>3. count = 8 + n
    BY <1>1, <1>2, <2>1, <2>2, Constants, ModeParameters DEF Planned, Least
  <2> QED
    BY <1>1, <2>1, <2>2, <2>3, ModeParameters
<1> QED
  BY <1>1, <1>3, <1>4, <1>5

(* With the clock behind by up to the drift or ahead by up to the margin, a  *)
(* call for the pass has started when the satellite culminates and has not   *)
(* ended, to within one pause.                                               *)
THEOREM PassIsCovered ==
  ASSUME Uncapped, SmallLoss
  PROVE  SendSpec => []PassCoveredUnlessAhead
<1>0. Period(0) = 320 /\ AheadMargin = 80
  <2>1. 0 \div 40 = 0
    OBVIOUS
  <2>2. Additional("normal", 0) = 0
    BY <2>1, PeriodCounts, Constants DEF Least
  <2>3. Period(0) = 320
    BY <2>2, PeriodCounts
  <2> QED
    BY <2>3 DEF AheadMargin
<1>1. ASSUME SendInv, stage = "sent", Fitted, error <= AheadMargin
      PROVE  start <= error /\ error <= now + Interval(mode) + Second
  <2>1. /\ drift \in Drifts /\ drift \in Nat /\ duration \in Nat /\ count \in Nat
        /\ crossing \in Nat
        /\ now \in Int /\ error \in Int /\ -drift <= error /\ error <= 80
        /\ start = -Half(drift) - Half(duration)
        /\ left = 0 /\ Tried = count /\ Pauses = count - 1
    BY <1>0, <1>1 DEF SendInv, SendTypes, PlanInv, LoopInv, Tried, Pauses
  <2>2. drift + crossing + 281 <= duration /\ duration <= drift + crossing + 320
    BY <1>1, WindowAllowsDrift
  <2>3. PICK h \in Nat, k \in Nat : h = Half(drift) /\ k = Half(duration)
    BY <2>1, HalfType
  <2>4. /\ 2 * h <= drift /\ drift - 3 <= 2 * h
        /\ 2 * k <= duration /\ duration - 3 <= 2 * k
    BY <2>1, <2>3, HalfType
  <2>5. start <= error
    BY <2>1, <2>2, <2>3, <2>4
  <2>6. PICK i \in {20, 40} : i = Interval(mode) /\ i * count <= duration
    BY <1>1, PlanFits, ModeParameters
  <2>7. duration < i * (count + 1)
    BY <1>1, <2>6, PlanFills
  <2>8. PICK a \in Nat : a = count * AirTime
    BY <2>1, Constants
  <2>9. -h - k + a + (count - 1) * (i - 2) <= now
    BY <1>1, <2>1, <2>3, <2>6, <2>8 DEF SendInv, ClockInv, Sending, Second
  <2>10. h + k + 80 <= a + count * (i - 2) + 4
    <3>1. CASE AirTime = 0
      <4>1. drift <= 130 /\ a = 0
        BY <1>0, <2>1, <2>8, <3>1 DEF SmallLoss, Second
      <4>2. CASE i = 20
        BY <2>1, <2>2, <2>4, <2>6, <2>7, <4>1, <4>2
      <4>3. CASE i = 40
        BY <2>1, <2>2, <2>4, <2>6, <2>7, <4>1, <4>3
      <4> QED
        BY <4>2, <4>3
    <3>2. CASE AirTime = 1
      <4>1. drift <= 580 /\ a = count
        BY <1>0, <2>1, <2>8, <3>2 DEF SmallLoss, Second
      <4>2. CASE i = 20
        BY <2>1, <2>2, <2>4, <2>6, <2>7, <4>1, <4>2
      <4>3. CASE i = 40
        BY <2>1, <2>2, <2>4, <2>6, <2>7, <4>1, <4>3
      <4> QED
        BY <4>2, <4>3
    <3>3. CASE AirTime >= 2
      <4>1. PICK more \in Nat : AirTime = 2 + more
        BY <3>3, Constants
      <4>2. PICK b \in Nat : b = count * more
        BY <2>1
      <4>3. count * (2 + more) = 2 * count + count * more
        BY <2>1
      <4>4. 2 * count <= a
        BY <2>1, <2>8, <4>1, <4>2, <4>3
      <4>5. CASE i = 20
        BY <2>1, <2>2, <2>4, <2>7, <4>4, <4>5
      <4>6. CASE i = 40
        BY <2>1, <2>2, <2>4, <2>7, <4>4, <4>6
      <4> QED
        BY <4>5, <4>6
    <3> QED
      BY <3>1, <3>2, <3>3, Constants
  <2>11. 80 <= now + i + 2
    <3>1. CASE i = 20
      BY <2>1, <2>8, <2>9, <2>10, <3>1
    <3>2. CASE i = 40
      BY <2>1, <2>8, <2>9, <2>10, <3>2
    <3> QED
      BY <3>1, <3>2
  <2> QED
    BY <2>1, <2>5, <2>6, <2>11 DEF Second
<1>2. SendInv => PassCoveredUnlessAhead
  BY <1>1 DEF PassCoveredUnlessAhead, PassCovered
<1> QED
  BY SendInvInit, SendInvNext, <1>2, PTL DEF SendSpec
=============================================================================
