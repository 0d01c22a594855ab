\* A refresh and a scrape share the download folder, two days a year apart; any
\* close of a session may fail for the scrape.
CONSTANTS
    refresh = refresh
    scrape = scrape
    None = None
    Run = {refresh, scrape}
    Scraper = {scrape}
    LastDate = 1
    YearLength = 1
    NamedByLabel = TRUE
    MaxAttempts = 2
    Unsure = {scrape}
SPECIFICATION LiveSpec
INVARIANTS RefreshImportsNew NoLeakedPage OneOpenSession
PROPERTIES KilledCleaned UpdateEnds
