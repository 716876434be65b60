\* One modem through the whole ladder, the decay and every gate, cycling for ever.
SPECIFICATION FairSpec
CONSTANTS
    Modems = {m1}
    Snapshots <- Observable
    MaxSoft = 2
    MaxModem = 1
    MaxUsb = 1
    BackoffSeconds = 3
    LadderMinInterval = 2
    HealthyStreakDecayK = 2
    GlobalBackoff = 4
    ThresholdNum = 3
    ThresholdDen = 4
    DryRun = FALSE
    ExpectedCounts = {1}
    ThermalFlags = {FALSE}
    MaxTime = 6
INVARIANTS
    LadderBudget
    NoRungSkipped
    DestructiveOnlyWhenCalledFor
PROPERTIES
    DestructiveSpacing
    ImplementsBudget
    BudgetRestored
