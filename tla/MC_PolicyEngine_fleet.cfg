\* Two modems whose channels may hang: global driver resets among the per-modem cycles.
SPECIFICATION Spec
CONSTANTS
    Modems = {m1, m2}
    Snapshots <- Fleet
    MaxSoft = 1
    MaxModem = 1
    MaxUsb = 1
    BackoffSeconds = 1
    LadderMinInterval = 1
    HealthyStreakDecayK = 2
    GlobalBackoff = 3
    ThresholdNum = 3
    ThresholdDen = 4
    DryRun = FALSE
    ExpectedCounts = {2}
    ThermalFlags = {FALSE, TRUE}
    MaxTime = 3
SYMMETRY Alike
INVARIANTS
    BudgetUpToResets
