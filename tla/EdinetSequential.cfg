\* Default commands, one at a time, again and again.
CONSTANTS
    r1 = r1
    r2 = r2
    Run = {r1}
    Filing <- TwoCompanies
    Codes <- MCCodes
    Stocks <- MCStocks
    Jpx = {1, 2}
    Unusable = {3}
    Silent = {}
    RawOnly = {2}
    Option = {}
    BatchSize = 1
    LastDay = 2
    MaxStamp = 6
SPECIFICATION LiveSpec
INVARIANTS PackageOnDisk CorrectionWins
PROPERTIES NoStaleSkip EventuallyMerged
