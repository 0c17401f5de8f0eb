SPECIFICATION Spec
CONSTANTS
  Client = Client
  Server = Server
  SnMod = 64
  InitialSns <- MCInitialSns
  Numbers = {1}
  SnWindow = 100
  MaxPacket = 1
  RetransmissionSize = 2
  ReceiveSize = 2
  DeferQueueSize = 2
  VersionVerdicts = {TRUE}
  MaxMessages <- MCMaxMessages
  ClientMessages = 2
  ServerMessages = 0
  MaxBeats <- MCMaxBeats
  ClientBeats = 1
  ServerBeats = 1
  MaxDamages = 1
  MaxLate = 0
INVARIANTS
  DamagedIsDiscarded
CHECK_DEADLOCK FALSE
