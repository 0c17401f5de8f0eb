SPECIFICATION Spec
CONSTANTS
    Listens = {FALSE}
    N = 2
    Descriptors = 5
    MaxMishaps = 1
    MaxDials = 0
INVARIANT
    FiresWhenReadable
CHECK_DEADLOCK FALSE
