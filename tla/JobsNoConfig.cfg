SPECIFICATION Spec
CONSTANTS
    Day = 3
    Horizon = 8
    DefaultDays = 2
    DryRunDays = 1
    Fold <- MCFold
    Foreign <- MCForeign
    Setups <- TheImage
INVARIANTS
    ManagerNeedsNoConfig
