\* Two modems in one cycle, an operator, a SIM exchanged and unreadable at times.
SPECIFICATION Spec
CONSTANTS
    Modems = {1, 2}
    Snapshots <- WithProxy
    MaxSoft = 1
    MaxModem = 1
    MaxUsb = 1
    BackoffSeconds = 1
    LadderMinInterval = 1
    HealthyStreakDecayK = 1
    GlobalBackoff = 4
    ThresholdNum = 3
    ThresholdDen = 4
    DryRun = FALSE
    Iccids = {sim1, sim2, sim3}
    WindowLengths = {1}
    MaxTime = 1
    MaxInterrupts = 0
    MaxReboots = 0
    MaxSwaps = 1
SYMMETRY AnyCard
INVARIANTS
    RunBeforeSave
    MaintenanceRespected
    SwapResetsBudget
PROPERTIES
    ImplementsBudget
