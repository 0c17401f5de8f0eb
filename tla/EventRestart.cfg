SPECIFICATION Spec
CONSTANTS
    TimedEvents <- MCTimedEvents
    FdEvents <- MCFdEvents
    Interval <- MCInterval
    CallbackTime = 1
    Watched <- MCWatched
INVARIANTS
    FiresInInterval
