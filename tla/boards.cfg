\* Every driver, with a test mode that behaves or does not.
SPECIFICATION Spec
CONSTANTS
  Boards <- MCBoards
  Symbols = 2
INVARIANTS
  OneSender
  WholePacket
  HandedBack
PROPERTY SendReturns
\* Two tasks that the test mode has left waiting on each other stop.
CHECK_DEADLOCK FALSE
