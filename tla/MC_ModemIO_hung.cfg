\* One hung modem, probed over and over.
SPECIFICATION FairSpec
CONSTANTS
    Modems <- TwoModems
    Grace = 1
    Drain = 1
    ProbeTimeout = 1
    QueryTimeout = 1
    ChangeTimeout = 2
    RebindDelay = 1
    Hangable = {2}
    Breakable <- FirstFaults
    ZaoLines = {2}
    Flaky <- FirstFlaky
    MaxSoft = 1
    MaxModem = 1
    MaxUsb = 1
    BackoffSeconds = 3
    LadderMinInterval = 2
    HealthyStreakDecayK = 2
    GlobalBackoff = 4
    ThresholdNum = 3
    ThresholdDen = 4
    DryRun = FALSE
PROPERTIES
    HungIsSeen
