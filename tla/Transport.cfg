SPECIFICATION FairSpec
CONSTANTS
    Listens = {TRUE, FALSE}
    N = 2
    Descriptors = 7
    MaxMishaps = 3
    MaxDials = 2
INVARIANTS
    TypeOK
    EventsOwned
    DescriptorsBounded
PROPERTIES
    LossKeepsConnection
    Redialled
CHECK_DEADLOCK FALSE
