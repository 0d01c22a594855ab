SPECIFICATION Spec
CONSTANTS
    Nil = Nil
    None = None
    StandardName = {1, 2}
    MaxShares = 100
    HistoryLength = 2
    Scenarios <- MCScenarios
INVARIANT CorrectionStored
