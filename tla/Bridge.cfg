SPECIFICATION FairSpec
CONSTANTS
  Modes <- MCModes
  PipeSize = 2
  MaxMessages = 4
  MaxReceived = 2
  MaxSessions = 2
INVARIANTS TypeOK RelayConserved NothingStranded WriteUsesLiveStream ForwarderOwnsPipes
PROPERTIES StreamEndDisconnects CancelledSessionEnds
CHECK_DEADLOCK FALSE
