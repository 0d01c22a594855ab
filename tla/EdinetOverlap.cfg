\* Two commands at a time with every option.
CONSTANTS
    r1 = r1
    r2 = r2
    Run = {r1, r2}
    Filing <- OneReport
    Codes <- MCCodes
    Stocks <- MCStocks
    Jpx = {1, 2}
    Unusable = {}
    Silent = {1}
    RawOnly = {}
    Option = {"force", "single", "window", "from"}
    BatchSize = 1
    LastDay = 1
    MaxStamp = 2
SPECIFICATION Spec
SYMMETRY RunSymmetry
INVARIANTS PackageKept
