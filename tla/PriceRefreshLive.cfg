\* Default callers that keep calling; a stock is added, a run passes midnight.
CONSTANTS
    r1 = r1
    r2 = r2
    tse = tse
    nag = nag
    sap = sap
    NoRun = NoRun
    Run = {r1}
    Ticker = {tse, nag, sap}
    InitialStock = {tse, sap}
    NonTse = {nag, sap}
    Listing <- SomeListings
    Mode = {"default"}
    LastDay = 2
    BusinessDay = {0, 1, 2}
    HoursPerDay = 2
    CloseHour = 1
SPECIFICATION LiveSpec
INVARIANT NoOrphanPrices
PROPERTIES StooqCooldownKept YahooAfterStooq EventuallyFresh
