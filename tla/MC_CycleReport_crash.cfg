\* One modem; crashes, reboots and time between any two steps.
SPECIFICATION ReportSpec
CONSTANTS
    Modems = {1}
    Snapshots <- Climbing
    MaxSoft = 1
    MaxModem = 1
    MaxUsb = 1
    BackoffSeconds = 3
    LadderMinInterval = 2
    HealthyStreakDecayK = 2
    GlobalBackoff = 4
    ThresholdNum = 3
    ThresholdDen = 4
    DryRun = FALSE
    Iccids = {sim1}
    WindowLengths = {}
    MaxTime = 4
    MaxInterrupts = 1
    MaxReboots = 1
    MaxSwaps = 0
INVARIANTS
    BudgetUpToLoss
    AnnouncedOnce
    SurfacesAgree
PROPERTIES
    DecisionSpacing
