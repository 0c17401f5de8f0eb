SPECIFICATION Spec
CONSTANTS
  Client = Client
  Server = Server
  SnMod = 64
  InitialSns <- MCInitialSns
  Numbers = {1, 61}
  SnWindow = 10
  MaxPacket = 1
  RetransmissionSize = 1
  ReceiveSize = 5
  DeferQueueSize = 2
  VersionVerdicts = {TRUE, FALSE}
  MaxMessages <- MCMaxMessages
  ClientMessages = 4
  ServerMessages = 1
  MaxBeats <- MCMaxBeats
  ClientBeats = 1
  ServerBeats = 1
  MaxDamages = 1
  MaxLate = 1
INVARIANTS
  TypeOK
  QueuesBounded
  NoRepetition
  ConfirmationsSound
  GenuinePasses
PROPERTIES
  SupervisionKept
CONSTRAINT MCConstraint
CHECK_DEADLOCK FALSE
