CONSTANTS
  Chats = {c1, c2, c3}
  NoChat = NoChat
  MaxStreams = 2
  MaxPending = 1
  MaxLeaves = 1
  MaxFaults = 1
SPECIFICATION Spec
SYMMETRY ChatSymmetry
INVARIANTS SupersededIsCancelled  
CHECK_DEADLOCK FALSE
