\* Two tasks of the daemon and a CLI at one file, with every crash and failure.
SPECIFICATION FairSpec
CONSTANTS
    Cycle = Cycle
    Choreography = Choreography
    Ctl = Ctl
    Daemon = Daemon
    Cli = Cli
    A = A
    B = B
    Tasks <- ThreeTasks
    Procs <- TwoProcs
    ProcOf <- Homes
    Values <- TwoValues
    Does <- Calls
    Fresh = A
    Cleared <- WithoutCounters
    Legacy = Legacy
    Newer = Newer
    Torn = Torn
    None = None
INVARIANTS
    Exclusive
    NeverTorn
    AckedDurable
PROPERTIES
    LegacyKept
    ImplementsRegister
    Released
