SPECIFICATION FairSpec
CONSTANTS
  Client = Client
  Server = Server
  SnMod = 64
  InitialSns <- MCInitialSns
  Numbers = {1}
  SnWindow = 100
  MaxPacket = 2
  RetransmissionSize = 2
  ReceiveSize = 2
  DeferQueueSize = 2
  VersionVerdicts = {TRUE}
  MaxMessages <- MCMaxMessages
  ClientMessages = 5
  ServerMessages = 1
  MaxBeats <- MCMaxBeats
  ClientBeats = 0
  ServerBeats = 1
  MaxDamages = 0
  MaxLate = 0
PROPERTIES
  Conserved
  AcceptedIsDelivered
  ClosePropagates
CHECK_DEADLOCK FALSE
