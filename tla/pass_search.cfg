SPECIFICATION Spec
CONSTANTS
  Day = 62
  Ephemerides <- MCEphemerides
  Latitudes <- MCLatitudes
  Longitudes <- MCLongitudes
  Tolerances <- MCTolerances
  Heights <- MCHeights
  Times <- MCTimes
  Never = 10000
  LastOrbit = 80
INVARIANTS PassVisible EarliestIfNarrow DurationRight
PROPERTIES SearchEnds
