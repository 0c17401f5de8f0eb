SPECIFICATION Spec
CONSTANTS
  Client = Client
  Server = Server
  Channel = {c1, c2}
  NoChannel = NoChannel
  x = x
  y = y
  Pdu = {x, y}
  DeferQueueSize = 2
  DeferWindow = 1
  Stream = TRUE
  MaxSend <- MCMaxSend
  ClientSends = 4
  ServerSends = 2
  MaxDuplicates = 0
INVARIANTS
  DeferQueueWellFormed
PROPERTIES
  OnlyOverloadDiscards
  ImplementsOrderedLink
SYMMETRY MCSymmetry
CHECK_DEADLOCK FALSE
