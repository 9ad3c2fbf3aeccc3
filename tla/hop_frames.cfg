SPECIFICATION PacketSpec
CONSTANTS
  Threads = {t1, t2}
  NumChannels = 19
  Rows = {1, 3}
  Hops <- HopTable
  FrameCounts = {1, 3, 4}
  NoThread = NoThread
  Messages <- SomeMessages
  NoMessage = NoMessage
SYMMETRY Symmetry
INVARIANTS
  HeaderPredicts
  EveryChannelInTurn
  PacketReadable
  FramesReadable
