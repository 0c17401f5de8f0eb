SPECIFICATION FairSpec
CONSTANTS
  Client = Client
  Server = Server
  Channel = {c1, c2}
  NoChannel = NoChannel
  x = x
  y = y
  Pdu = {x, y}
  DeferQueueSize = 2
  DeferWindow = 1
  Stream = FALSE
  MaxSend <- MCMaxSend
  ClientSends = 3
  ServerSends = 1
  MaxDuplicates = 1
INVARIANTS
  TypeOK
  DeliveredInOrder
  EveryCopyAccounted
PROPERTIES
  RecoverableIsDelivered
CONSTRAINT MCConstraint
CHECK_DEADLOCK FALSE
