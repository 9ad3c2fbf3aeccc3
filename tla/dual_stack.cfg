\* Every platform, with and without failing calls.
SPECIFICATION Spec
CONSTANTS
  Platforms <- MCPlatforms
  MaxSat = 2
  QueueRoom = 3
INVARIANTS
  Quiet
  LoopRepeats
PROPERTIES
  Pairable
  Refreshed
\* A task that ended, with nobody to connect to, stops the device.
CHECK_DEADLOCK FALSE
