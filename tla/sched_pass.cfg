SPECIFICATION SendSpec
CONSTANTS
  Modes = {"none", "normal", "high"}
  Drifts = {0, 79, 190, 700}
  Errors <- AnyError
  RegionCrossings = {0, 130}
  AirTime = 1
  Uint8Max = 255
INVARIANTS PassCoveredUnlessAhead FitsWindow CallbackContract
