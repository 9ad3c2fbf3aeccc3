\* Every platform.
SPECIFICATION Spec
CONSTANTS
  Platforms <- MCPlatforms
  NumChannels = 19
  Channels <- MCChannels
  Lengths <- MCLengths
  MaxCommands = 10
  NoPacket = NoPacket
INVARIANTS
  StopEnds
  AsAsked
PROPERTIES
  StopReturns
  Repeats
\* A boot that fails ends the sample.
CHECK_DEADLOCK FALSE
