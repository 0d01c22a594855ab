\* Two processes, scheduled and default callers; two of three stocks are quoted
\* one by one, so that the processes time each other out.
CONSTANTS
    r1 = r1
    r2 = r2
    tse = tse
    nag = nag
    sap = sap
    NoRun = NoRun
    Run = {r1, r2}
    Ticker = {tse, nag, sap}
    InitialStock = {tse, nag, sap}
    NonTse = {nag, sap}
    Listing <- TseOnly
    Mode = {"default", "scheduled"}
    LastDay = 1
    BusinessDay = {0, 1}
    HoursPerDay = 2
    CloseHour = 1
SPECIFICATION LiveSpec
INVARIANTS ReportComplete CheckVouches
PROPERTIES SkipJustified ImplementsLedger EventuallyFresh
