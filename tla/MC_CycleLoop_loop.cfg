\* Signals, deadlines, failing cycles and SIGTERM in any order.
SPECIFICATION FairSpec
CONSTANTS
    Interval = 2
    WatchdogSec = 6
    QueueSize = 2
    Outcomes = {TRUE, FALSE}
    MaxCycleTime = 5
    MaxSignals = 3
    MaxOrphans = 2
CHECK_DEADLOCK FALSE   \* the loop ends at SIGTERM
INVARIANTS
    WatchdogFed
PROPERTIES
    CycleHasCause
    LoopEnds
    KeepsCycling
