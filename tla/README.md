# stock_db in TLA+

A verification development of stock_db: TLA+ modules of its concurrent and
failure-prone core, TLC configurations that check them on small instances, and
proofs that TLAPS checks for every value of the constants.  Paths are relative
to the repository.

## 1. The system

stock_db collects Japanese stock prices and annual-report figures into one
SQLite file.  Its parts share that file, some directories and a local browser
service, and nothing else: no component holds a lock around a whole command.

| component | state | operations | interacts with |
|---|---|---|---|
| price refresh orchestration (`sources/price_refresh.py`, `cli/*refresh_prices.py`) | locals of a run, an in-process lock of the API | check `--if-needed`, Stooq update, Yahoo fallback, record, report | Stooq update, Yahoo scraper, database; started by cron, by a downstream API call (a subprocess) or by hand |
| price storage (`storage/prices.py`, `stocks.py`, `connection.py`) | `stock_entities`, `price_observations`, `unresolved_price_observations`, `source_refresh_checks` | upsert, stale query, latest date, cooldown | every price command |
| Stooq update (`sources/stooq/updater.py`, `parser.py`) | downloaded file, open transaction | gate, download, parse, insert, quarantine, check row | browser service, database |
| Stooq download (`downloader.py`, `captcha_solver.py`, `download_wait.js`) | download directory, browser session | open session, solve captcha, wait for the file | browser service |
| Yahoo scraper (`sources/yahoo_finance_jp`) | open transaction | fetch a page per ticker, insert its quote | browser service, database |
| browser service (`services/browser/server.js`, `browser_pool.js`) | `browserPool`, `pendingConnections`, sessions, Chrome processes | `/fetch`, `/evaluate`, `/download`, session calls, idle sweep, `/shutdown` | Chrome; HTTP clients |
| browser client (`browser_client/client.py`) | service process handle | start, poll health, call, shut down | browser service |
| EDINET discovery and download (`rust/src/edinet`, `main.rs`) | package directories, `sec_report_records` | list days, select reports, download, install, record | EDINET, database |
| XBRL parse and store (`rust/src/db.rs`) | financial and raw-statement tables | load inputs, skip existing, parse batches, write | package directories, database |
| Shikiho sync and EPS (`rust/src/shikiho`) | forecast rows | sync, compute EPS | database |
| report reading (`rust/src/artifact.rs`, `linkbase.rs`, `inventory.rs`, `share_classes.rs`, `financials.rs`) | fact maps and rows of one report | scan documents, merge facts, total inventories, canonicalise | package directories, taxonomy, the parse |
| taxonomy (`rust/src/taxonomy.rs`, `taxonomy_registry.rs`, `build.rs`) | compiled-in tables | resolve a concept to item, priority, statement | report reading |
| read models (`rust/src/screening.rs`, `downstream.rs`, `storage/sql`) | the answer being built | screening stocks, balance sheet history | database |
| schema (`storage/schema.py`, `rust/src/schema.rs`) | `user_version`, tables | initialise | every command |
| Python EDINET helpers, reports, plots, tools | none (one-shot) | query, format | database |

What is hard, and what makes each part correct:

* *Price refresh.*  Several processes interleave between every read, insert
  and commit; any of them may time out on the lock, fail or die.  Check rows,
  written by one process, let others skip work.  Correct: check rows stand for
  what the table holds, skipping is justified, readers see whole transactions,
  no orphan prices, reports are complete, stocks become fresh in the end.
* *Browser service.*  Handlers interleave at each `await`; Chrome dies, the
  sweep and error paths close browsers others use.  Correct: no process is
  leaked, in-flight connects are shared, a retry gets another browser, each
  request is answered.
* *EDINET.*  Documents arrive, are corrected (corrections included) and
  withdrawn while commands run; a package is replaced by two renames; package,
  row and facts are written at different times.  Correct: selection is
  independent of the listing order and loses no period, a recorded package can
  be read, a correction's values stand, nothing new is skipped, and each report
  is merged in the end.
* *Stooq download.*  A client, its browser service and Chrome time out, fail and
  die apart from each other, and all Chromes of the machine write into one
  folder.  Correct: no page or session is left behind but by a close that fails,
  a refresh imports only what was written after it began, each update ends, a
  killed client's service is swept.
* *Reading a report.*  Documents come in the order of `read_dir` and concepts in
  the order of a hash set; one fact is stated in several documents at several
  precisions; many concepts compete for one item.  Correct: what is kept does
  not drift, does not depend on the order, has a source the group stated, and
  counts no inventory beside a part of it.
* *The tables of a ticker.*  Parses, syncs, EPS computations and price refreshes
  commit in any order, `compute-eps` reads before its transaction, readers take
  one SELECT after the other.  Correct: tables hold what the last store gives,
  the latest report's value stands, forecasts are of one edition and EPS of one
  commit, no period is lost, dilution counts an instrument once, a balance sheet
  hides no value.

## 2. The modules

### Price stack

`PriceTables` has the tables' rows and the freshness queries as operators.
`PriceRefresh` is the pipeline: one action per stretch of code that touches the
database at one moment.

| action | code |
|---|---|
| `Begin` | a caller's target date and the two `--if-needed` reads |
| `NeedStooq` | `is_stooq_price_update_required` |
| `Download`, `ReadKnown`, `Ingest`, `CommitStooq` | `update_stooq_daily_prices`, `ingest_daily_prices` |
| `ReadStale`, `ChooseFallback` | the stale list and the choice of Yahoo tickers |
| `Quote`, `QuoteFails`, `RereadStale` | `scrape_and_store` per ticker, the second stale query |
| `RecordCheck`, `LeaveUnresolved` | the end of `refresh_prices` |
| `SourceFails`, `LockTimeout`, `Kill` | exceptions, SQLITE_BUSY, process death: all roll back |
| `Tick`, `StooqPublishes`, `AddStock` | the clock, the site, another command |

SQLite is one write lock, taken by the first INSERT of a transaction, and
committed-only reads (`View` adds a process's own rows).  `PriceLedger` is the
abstract specification: tables that change by whole transactions only.  The
property `ImplementsLedger` says that `PriceRefresh` implements it.

Deliberate abstractions: close and volume are left out, as no query of the
refresh reads them; a Stooq file has one date; a tick is an hour and ages
saturate at a day, the longest cooldown; the two reads of the `--if-needed`
gate are one step, and so are the three of the Stooq gate.  The foreign key of
`price_observations` guards against orphans a second time; the model leaves it
out so that `NoOrphanPrices` shows the filter does it alone.  The API's gate in
front of a refresh (a lock inside the API process, a subprocess and its timeout)
is to the database a process that is killed, which `Kill` is.

### Browser service

`BrowserPool` has an action for the code between two awaits of `getBrowser`,
`closeBrowser`, `openRequestPage` and the handlers around them, and actions for
Chrome (`Connected`, `ConnectFails`, `Closed`, `Crash`) and the idle sweep.
`refused` is a history variable.  The site's side of a request is `Succeed` or
`WorkFails`.  The default `pool_size` is 1 and the Python clients use one key;
the instances also cover other settings the service accepts.

### EDINET

`EffectiveReports` states which documents count, as operators on sets.
`ReportSelection` is the loop of `select_effective_reports` over a list in any
order, and checks it against those operators.  `EdinetResolver` says which stock
a listed document is about, from its two codes and the stocks table.

`EdinetPipeline` composes the commands that write reports and facts, using
`Effective`:

| action | code |
|---|---|
| `BeginScrape`, `ScanDay`, `Choose` | `run_scrape_historical` up to its download loop, `discover_historical_reports` |
| `BeginSingle` | `run_download_xbrl` (fiscal year `latest`) |
| `DownloadFails`, `MoveAside`, `Install`, `InstallFails` | `download_xbrl_package`, `install_package` with its rollback |
| `ReadClock`, `Record`, `RecordFails`, `EndDownloads` | `upsert_sec_report` and the loop around it |
| `BeginParse`, `SkipExisting`, `ParseBatch`, `ParseFails`, `WriteBatch`, `EndParse` | `parse_xbrl_financials_to_db` |
| `CommandFails`, `Kill` | errors that end a command, process death |
| `NextDay`, `File`, `Withdraw` | EDINET |

`now` numbers the stamped commits, which is as far as `updated_at` tells times
apart.  What a package holds matters only to the parser's control flow, so
documents are readable, `Silent` (no parseable facts) or `Unusable` (facts that
fail the inventory checks).  `facts[t]` keeps which report rows were merged,
and which of them have values of their own period that stand: later reports in
merge order replace values of the same period.  A `FYyyyy` year is its number;
`latest` and `unknown` sort after every year, as their text does.
`CodesAssumption` makes a filing's `ticker` the one stock its codes can resolve
to; which of its documents a command resolves is left to `Resolves`.  `torn`
is a history variable: packages that a crash or a failed rollback took away.
Withdrawn documents are dropped by the scan's step, not after the loop: a
document is listed with the status it had at the request, so nothing is lost.
The parser's up-to-date query joins `financial_items`, so a ticker whose merged
reports give raw statement rows alone (`RawOnly`) is never up to date and is
parsed by each command.  Such a parse renews its stamp; while no other stamp was
taken or read since, the model keeps the old one, which nothing can tell from the
new (`StampOf`), so the clock stays bounded.  The memory stop is left out: the
binary passes no threshold.

### Stooq download

`StooqDownload` is the client (`download_daily_file` with its attempts), the
Stooq endpoints of its browser service, its Chrome, and the folder
`var/raw/stooq` that all Chromes share.

| action | code |
|---|---|
| `Begin`, `ReuseExisting`, `AnotherAttempt`, `CaptchaUnreadable`, `Submit`, `SessionUnknown`, `Import`, `Stop` | `downloader.py`, one attempt after the other, and `client.py` |
| `HttpTimeout` | a call ends by its timeout, its handler goes on |
| `OpenPage`, `PrepareAnswers`, `PrepareFails`, `Approve`, `Reject`, `CompleteAnswers`, `CompleteFails` | the handlers of `/stooq/prepare-daily-download` and `/stooq/complete-daily-download` |
| `SweepSession`, `SweepBrowser` | the timers of the service |
| `TransferBegins`, `FileAppears` | Chrome; a file of the same name is overwritten |
| `Killed`, `NewDay` | process death, the site |

What the OCR reads is a choice (unreadable, rejected or accepted); a crash of
Chrome is a handler that fails, as the code does nothing else about it.  The
service is started in a session of its own, so it survives a killed client.
A close of a session may fail in two ways, both of which are only logged: the
service's `page.close()`, after the entry is gone (`CloseSession`), and the
client's call (`CallClose`), which leaves entry and page.  `unclosed` is a history
variable: the sessions one of whose closes failed and that left something behind.
`changed` is the file that changed last since the snapshot, which is all the
wait in the page looks for.  Links are labelled by month and day, so with
`YearLength` days to a year two days share a label; `NamedByLabel` says whether
the site names its files so, which nothing in the code decides.

### Report reading

`ReportReading` reads one package, fact by fact in document order and, for each
context, concept by concept in any order.

| action | code |
|---|---|
| `Open`, `OpenEmpty`, `OpenFails`, `NextDocument` | which documents of a package hold its facts |
| `Read`, `Skip`, `Disagree`, `ReadEnds` | one fact: `artifact.rs` from the unit to the six maps |
| `Dedupe`, `DedupeFails`, `DedupeEnds` | raw statement rows merged by their key |
| `Total`, `TotalFails` | `inventory.rs` for one context |
| `NextContext`, `InsertConcept`, `InsertFails`, `InsertTotal`, `InsertShares`, `SharesFail` | `parse_financials_from_artifact` |
| `Flag`, `Finish` | `has_preferred_shares`, the end |

Its parts are operators: `Decimals` (what a precision tolerates and which of two
values is kept), `InstanceScan` (contexts, units, numbers), `TagLists` (what a
concept's name says of inventories and share counts), `SchemaLookup` (the concept
a linkbase locator names), `InventoryTotals` (the total of a context from facts,
calculation or presentation arcs) and `ConceptLookup` (item, priority and
statement of a concept).

The taxonomy's tables are data: thousands of reviewed aliases, with the code
generated from them.  `ConceptLookup` models how they are looked up: namespaces,
suffixes stripped in order, alias modules in order, family tables, cross-family
aliases, and what must stay an identity.  A local name is a stem and a tail of
words, as the lookup looks at nothing else.  `MCTaxonomy` has an entry of each
kind, so each way into an item occurs.

Abstractions: XML is the elements it holds; two documents that state one context
id agree on it; facts nested in an inline text block are swallowed with it, as in
the scanner; amounts are integers in half yen, so that the tolerance of
`decimals` d is exact, and the floating-point slack is left out; the prefixes that
`linkbase.rs` falls back on are a map from element ids to concepts; labels are
only well-formed or not.  Calculation arcs are a sequence: `inventory.rs` pushes
an edge for each one it reads, so one that a second file, link or locator repeats
is another edge (`Occurrences`), while the presentation graph is a set of edges in
the code too.  Weights are integers.  The calculation walk gives a concept it is
visiting no value, and its memo then makes the sums around a cycle depend on the
order of a HashSet; that is left out: arcs form no cycle (`LinkbaseAssumption`).

### Tables of a ticker

`TickerParse` merges a ticker's reports into rows (`parse_ticker`),
`EquityTerms` is the scan of equity texts (`preferred_terms.rs`,
`potential_terms.rs`), `TickerTables` is `write_ticker_in_tx`, and `ReadModels`
is one operator per SELECT of the readers with what is made of its rows.
`FinancialStore` composes them: each command and each reader is a process of its
own, a transaction is one step and so is each SELECT outside of one.

| action | code |
|---|---|
| `Record` | a command that records a report with its package |
| `BeginParse`, `ReadReports`, `WriteTicker`, `KillParse`, `RunAgain` | `parse-xbrl-financials` for the ticker |
| `SyncForecasts`, `SyncDividends` | `shikiho/sync.rs` |
| `ReadEps`, `WriteEps`, `KillEps` | `shikiho/eps.rs`: the reads, then the transaction |
| `SetShares` | the share count a price refresh stores |
| `SelectPlPeriod` ... `Screened` | `load_screening_stocks` for the stock |
| `SelectSheetPeriods` ... `Answered` | `get_balance_sheet_history` |

The handbook is another program's database: a sync may import any edition, in
any order.  A text is the phrases and numbers the scans find in it, in the order
in which they look; issue price, capitalised amount and exercise price are left
out.  Class names are numbers in their order, EPS is in
thousandths.  Rows of one item come in any order where a query does not order
them.  Skipping and batches of tickers are in `EdinetPipeline`.  `stored` and
`current` are auxiliary: the reports of the last store, and the EPS that were
right in some commit.

`Sums` is the sum both walks of the inventory arcs take, by its recursion rather
than by the folds of the community modules, which the provers cannot unfold.
`DataInduction` models nothing: it is the induction the proofs of the last two
parts need (section 4).

Definitions such as `RecentOneLess`, `UpsertEps` or `StoredOver`, next to a
definition of similar name, are wrong variants on purpose.  `PROJECT.json` lists
them as mutants: substituted for the right definition, each makes TLC find the
property it is paired with violated.

## 3. The runs

| run | configuration | question |
|---|---|---|
| `price_concurrent` | `PriceRefreshConcurrent` | two interleaved refreshes, that hold the write lock over their Yahoo requests and time each other out: `ReportComplete`, `CheckVouches`, `SkipJustified`, the pipeline implements `PriceLedger`, and stocks become fresh in the end, for a run that leaves one unresolved keeps what it quoted |
| `price_live` | `PriceRefreshLive` | stocks become fresh in the end, with the Stooq cooldown, the Yahoo gate (a quote taken past midnight apart) and `NoOrphanPrices` kept on the way |
| `pool_full` | `BrowserPoolFull` | two keys, a pool of one: no settled connect stays pending, second try elsewhere |
| `pool_live` | `BrowserPoolLive` | one key: connects shared, no leak, each request is answered |
| `report_selection` | `ReportSelection` | the loop agrees with `Effective` in every order; no period lost |
| `edinet_sequential` | `EdinetSequential` | one command after the other: packages readable, corrections win, nothing new skipped, each report in force merged in the end |
| `edinet_overlap` | `EdinetOverlap` | two commands, every option: packages kept |
| `stooq_download` | `StooqDownload` | a refresh and a scrape in one folder, the closes of one of which may fail: only new files imported by the refresh, each open page has a handler, a session or a failed close behind it, an attempt begins with no other session open, updates end, a killed client is cleaned up after |
| `report_reading` | `ReportReading` | a package in every order: no drift, raw rows and canonical values agree, best evidence, provenance, inventories counted as their arcs lead to them |
| `financial_store` | `FinancialStore` | commands and readers of one ticker interleaved |
| `restated_period` | `RestatedPeriod` | violation: see section 6 |
| `amended_terms` | `AmendedTerms` | violation: see section 6 |

The type invariants of `PriceRefresh`, `BrowserPool`, `EdinetPipeline` and
`StooqDownload` are proved, and not run a second time.

### Bounds, and why they are enough

* Prices, two processes: each property that speaks of overlap relates one
  process to one other, or to the tables.  A slot is reused, so any number run
  in turn.
* Tickers: one on the Tokyo exchange, in every Stooq file, and two of Nagoya and
  Sapporo: these are the two classes the fallback tells apart.  There are two in
  the second class, since only then one run takes quotes with midnight between
  them (`price_live`), or loses one quote to the lock another run keeps over its
  requests and stores the other (`price_concurrent`).  In `price_live` the Stooq
  file has the stock of Nagoya sometimes, in `price_concurrent` never: the
  fallback is always needed.
* `LastDay` 1 or 2 and two hours per day: the cooldowns are a tick and a day,
  so both ends of each comparison occur; the cron gate is the second hour.
  Where runs of one day are compared one day is enough; the cooldown and Yahoo
  gate need runs over midnight.
* Three browsers, two requests: enough for a pooled, a pending and a closing
  browser at once.  `pool_live` has one key: with two, requests that
  remember the browser which refused them could use up the three identities
  and wait for the bound instead of for Chrome.  `Browser` is a bound on
  identities, which are reused; `IdleLimit` 0 lets the sweep come at any time
  after a tick.
* `ReportSelection`: every list of three documents, so chains of two
  corrections, ties and self-made cycles occur.
* `EdinetPipeline`: a report, its correction a day later that has no secCode
  (its EDINET code finds the stock), another company, and a correction whose two
  codes name different stocks, which no command may take.
  The other company's report is unusable, so one ticker fails beside another.
  `MaxStamp` 6 is more than the commits default commands can make (three rows,
  and a write of facts for each of the two of the readable company, one of them
  renewed after the other company's row).  The correction is `RawOnly`: merged
  alone, its company is parsed again and again; with the report, it is up to date.
  In
  `edinet_overlap`, where forced commands repeat, the report is silent, so both
  stamps go to recording a package and recording its replacement.
* `StooqDownload`: a refresh and a scrape, the two kinds of callers; two
  attempts, so one follows another; two days that share a label, so an old file
  can have the new one's name.  Each process has a service of its own, so the
  closes of one of them may fail (`Unsure`), those of the scrape, which closes at
  one more place; failing or not, they touch no file.
* `ReportReading`: `MCPackage` is a union of families, each for one question:
  three concepts for one item with every value and precision of a few, one
  concept in three documents, four inventory concepts under calculation arcs of
  several weights that are repeated or lead to a shared child, and under every
  arrangement of presentation arcs, every kind of period, dimension, unit and role, share classes by axis
  and by concept, locators that resolve by path, by file name, by prefix and not
  at all, a name for each tag list, and every subset of five documents.  Three values are needed
  for a drift, two for a conflict.
* `FinancialStore`: one ticker, as no statement of it looks at another's rows.
  A scenario fixes what may be recorded, imported and read; within one, all
  interleavings are explored.  Scenarios are restatements with a correction,
  balance sheets that lack something in ten ways, equity texts that agree,
  differ or have no number, and three editions with three share counts, one of
  them 0.
  `HistoryLength` 2 is less than the periods there are, so the cut occurs;
  `MaxShares` is the code's limit of a plausible count, scaled down.

Symmetry is used in safety runs only, for requests and browsers (`pool_full`) and
processes (`edinet_overlap`).

### Fairness

* `PriceRefresh!LiveSpec`: time passes, Stooq publishes, callers for the latest
  business day keep calling, whoever else does (strong fairness, as they share a
  slot with the others), a process that can step does, and failures of sites,
  browser and operator stop at some point, however late.  A quote for a close that
  is not on Yahoo's page yet is no failure and need not stop (`QuoteTooOld`).
  Failures of one kind need never stop either (`LosesToQuotes`): a run that finds the write lock held over another's
  Yahoo requests is timed out, or loses a quote to it, as often as that happens.
  A lock held for inserts alone is gone within SQLite's busy timeout, so nobody
  loses to it for ever.
* `BrowserPool!LiveSpec`: Node resumes each handler whose await has settled;
  connect and close settle.  Strong fairness on handlers is needed only because
  the bound on browser identities can disable a connect for a while.
* `EdinetPipeline!LiveSpec`: someone keeps running both commands (strong
  fairness, since they share a slot of the model), a command that can step
  does, failures stop at some point.
* `StooqDownload!LiveSpec`: weak fairness, per process, of its client, its
  service and the service's timers taken together.  It is weak enough to let any
  one of them starve, so what ends an update are the timeouts and the bound on
  attempts.  Nothing is assumed of Chrome, the site or the OCR.

## 4. The proofs

| theorem | module | inductive invariant |
|---|---|---|
| `TypeCorrect` | `PriceRefreshProofs` | `TypeOK` itself |
| `NoOrphans` | | `KnownRows`: what is pending, stale or still to fetch is of known stocks |
| `ChecksVouch`, `ReportsComplete` | | `Vouching`: a run's list misses no stale stock it scanned, in all states between its query and its report; it is stable because prices only grow (`FreshMonotone`, `PricesGrow`) |
| `SkipsJustified` | | action property, from `CheckVouches` |
| `YahooWaits` | | `Gate`: for each row, committed or in hand, there is a row of Stooq or a quote that overran its target at least as new; a quote has it because its run passed the gate before |
| `CooldownKept` | | `Cooled`, of one default caller: the check row's target is a business day before today that no later target goes behind, and if Stooq was updated this hour the row is of this hour and no older than the update |
| `LedgerImplemented` | | `Provenance`: pending rows have the source and date of the stage their run is in; then each step maps to a ledger step or a stutter |
| `TypeCorrect` | `BrowserPoolProofs` | `TypeOK` with `KeyChosen`: a waiting request has a key |
| `InFlight`, `NoLeak` | | `Bookkeeping`: every launch is pending, every process is pooled under its owner, never both, and nobody evicts |
| `PendingInFlight`, `RetryElsewhere` | | `PoolSound`: a connect is of the key it is pending for, and a browser that refused is closed before the second try looks for one; of a pool of any size |
| `SelectionCorrect`, `PeriodsCovered` | `ReportSelectionProofs` | `Selecting`: what is selected is the best of what the loop has passed, at most one per period |
| `TypeCorrect` | `StooqDownloadProofs` | `DownloadTypeOK` with `FilesInHand`: a client that imports has a file |
| `NoPageLeaks`, `SessionsClosed`, `ImportsNew` | | `OneSession`: a service has no session but that of its client's attempt and those whose close failed, only the latter while it prepares one; `ImportsNew` follows from `FilesInHand`: the file a refresh has in hand was written since it began |
| `OnePerPeriod` | `EdinetPipelineProofs` | a lemma on `Effective` |
| `TypeCorrect` | | `TypeOK` with `DocInHand`: a command that installs or records has a document |
| `PackagesKept` | | `AllKept`: `PackageKept` also for packages a command is about to record; without it `Record` could add a row for a package another command had taken |
| `SkipsCurrent` | | `Clocked`, of one command at a time: the clock is past all stamps, a parse holds all reports of a ticker or none, and reports no newer than the facts are in them |
| `RecordedOnDisk`, `CorrectionsWin` | | `Sequential`, of one default command at a time: what a scan has chosen, has in hand, has recorded and what was merged are of effective reports in filing order, and each recorded package is on disk |
| `ForecastsOfOneEdition`, `EpsConsistent`, `TablesRebuilt` | `FinancialStoreProofs` | `StoreSound` |
| `LatestValueStands` | | `Rebuilt` with `ReportsGrow`: a parse reads what is listed, and listed reports stay |
| `PeriodsStay` | | `KeysStored`: the stored keys are those of the last store's reports, which only grow |
| `HistoriesReach` | | `ScreenSound`: an answer's period is still one of the tables, its histories reach it |
| `HistoriesShowAll` | | `SheetSound`: a call reads edges of one report, without a cycle; in such a presentation each node is below a root (`RootsReach`), so the tree of the roots has all that stays (`TreeShowsAll`) |
| `InstrumentsSummedOnce` | | of any rows: there is one choice of a quantity per instrument exactly if each states one (`PicksAre`) |
| `ValuesDriftLittle` | `ReportReadingProofs` | `Drifts`: the distance of the kept value from each value merged leaves two tolerances of the kept one to spare, for what a merge may still add; it needs that tolerances at least halve from one precision to the next |
| `ValuesHaveSources` | | `Sourced` (each bucket is a fact of a chosen document) and `Founded` (each canonical value is taken from a standing bucket) |
| `RowsMatchBuckets` | | `Matching`: of the rows left to merge and the row kept so far none ranks above its bucket, and the first that does not rank below has its value |
| `InventoriesCountedAsLinked` | | `Counted` (a total is a candidate of the facts read) with `LinkedIs`: what `evaluate_calculation` adds up arc by arc is the sum of the lowest facts, each times the weighted number of paths to it, which sums over arcs and over facts give in either order (`SumSwap`) |
| `BestEvidenceWins` | | `Served`: contexts come from the latest on, and what the concepts done so far offered is met; an insertion never lowers an item |

`StoreSound` adds to the three properties what makes them inductive: the EPS of
the tables as they are, and those a `compute-eps` has in hand, are among the
`current` ones, and every income of the handbook lies in the forecast statement,
where the deletes of a sync look for it.  Its argument is that each command
replaces the rows of one source (`Replacing`) and that forecasts, EPS and EDINET
values depend on the rows of their own source alone (`SameForecasts`, `SameEps`,
`SameEdinet`).  It assumes nothing of reports, editions or share counts.

Five theorems are about what a loop or a recursion over data computes.  The library's induction
rules take an operator, which the provers cannot instantiate, so `DataInduction`
states induction over a *set* of naturals (`InductionBySet`, from the library's
well-foundedness of <) and brings finite sets back to it: a last element exists
and a first one (`LastExists`, `LeastExists`), a finite set can be sorted
(`SortedExists`), a sorted list covers it (`SortedCovers`), images are finite
(`FiniteImage`).  With it `MergeLoop` shows
that the merge of `parse_ticker`, a recursive function over the sorted reports,
keeps the last statement of each item, and `PeriodsFinite` that the history's cut
has a latest period.  Nothing is assumed of the order in which reports are
recorded or parsed.  `AdderExists` and `AdderUnique` give a sum its recursion,
`SumTakes` that any element may be taken first, `SumSwap` that a sum of sums may
be taken in either order.

A recursion along arcs is shown to have one solution.  That there is one is seen
by giving it (`SubtreesKeep`, `BelowIs`, `TimesExist`, `WorthEvaluates`); that there is no other
takes that the arcs have no cycle: of the nodes at which two solutions differ one
has no child that differs, and its value follows from its children's.

The theorems hold for every value of the constants under the named assumptions
of the modules, which TLC evaluates in the runs:

* `CalendarAssumption`, `MarketAssumption`, `PoolAssumption`, `FilingAssumption`,
  `NumberAssumption`, `DownloadAssumption`: the types of the constants.
* `LatestAssumption`: of any submission times one is the last; a listing is
  finite.
* `CodesAssumption`: a filing's ticker is the stock its codes resolve to.
* `PeriodAssumption`: no fiscal year reaches the number that stands for `latest`.
* `ScenarioAssumption`: a document has one record, a package states finitely many
  items, rows and edges, and its balance sheet presentation has no cycle
  (`build_balance_sheet_node` has no guard against one and would not return).
* `ToleranceAssumption`: a decimal more at least halves the tolerance (it makes a
  tenth of it), and no stated precision is coarser than none.
* `PackageAssumption`: a package's facts are in sequences, its linkbases are
  finitely many, its contexts are ordered (ids are strings), values and weights
  are integers.
* `LinkbaseAssumption`: the arcs of a role form no cycle.

Some theorems have conditions of their own, as they are false without them
(section 5): `Roomy` (the pool has room for every key; `InFlight`, `NoLeak`),
`OneRun` and `DefaultCallers` (`CooldownKept`), `OneCommand` (`SkipsCurrent`),
`OneCommand` and `DefaultOptions` (`RecordedOnDisk`, `CorrectionsWin`),
and `CorrectionsRestate`, that a correction is of the period of its report
(`CorrectionsWin`).

Only model-checked is liveness (`EventuallyFresh`, `EveryRequestAnswered`,
`EventuallyMerged`, `UpdateEnds`, `KilledCleaned`), as fairness and ENABLED are out
of the prover's reach.

## 5. Properties that need their conditions

* `PackageOnDisk`, `CorrectionWins` and `NoStaleSkip` are checked for default
  options and commands that do not overlap.  With `--force` or `download-xbrl`
  a crash can take a recorded package away; with windows fetched newest first,
  or with the year `latest`, an original is merged after its correction; and a
  report recorded while a parse runs may be older than the facts the parse
  writes.  No document promises otherwise, so no run claims it.  `NoStaleSkip`
  needs only that commands do not overlap: the options do not matter to it.
* `CorrectionWins` speaks of values of one period.  A correction of another
  period than its report's would be filed under another year and be merged
  before or after it.
* `EventuallyMerged` exempts tickers with an unusable report: the parser
  reports an error for them and leaves them alone.
* `StooqCooldownKept` is checked and proved for default callers, who choose one
  target, and one refresh at a time.  With callers of two kinds it is false, as
  one check row serves them all; and so it is for two overlapping refreshes at
  midnight, when the one that began before it may write the older target back.
* `YahooAfterStooq` holds for all callers, but has an exception: a quote that is
  taken past midnight is newer than its run's target, and may open the gate for
  the next day before Stooq does.
* `EventuallyFresh` needs that a run waiting for a site is not timed out for ever
  by another's quotes: it may lose to them again and again only as
  `LosesToQuotes` says, while the lock is held over a Yahoo request.
* `CountedAsLinked` counts a fact as often as arcs lead to it: an inventory under
  two subtotals of a total counts twice, as does one whose arc two files repeat.
  What it excludes is that a fact counts beside one above it, in whatever order
  the walk and its memo reach them.
* `NoLeakedPage` and `OneOpenSession` except what a failed close left: a page
  whose `page.close()` failed is open until its browser goes.  `KilledCleaned` and
  `UpdateEnds` have no such exception.
* `InFlightTracked` is false for a full pool: two connects for one key run at
  once while an eviction is awaited, and one is not in `pendingConnections`.
* `RefreshImportsNew` speaks of refreshes.  `scrape-stooq-prices` reuses a file
  by its name, and if the site names files by their label that may be last
  year's; how it names them is not in the code.
* `EpsOfOneCommit` does not say that EPS follow the next sync at once: that takes
  the next `compute-eps`.
* `HistoriesNotBehind` is as much as an answer of separate SELECTs can promise;
  its other parts may be of different commits.

## 6. Where code and documents disagree

* A report that restates its prior year leaves the month with two canonical
  values of an item (`restated_period`): the view strips a context to its month,
  and the readers take the last or the first row of an unordered query, against
  `ARCHITECTURE.md`:205, "Overlapping values cannot win through insertion order".
* A correction that rewrites the text about an instrument ends
  `parse-xbrl-financials` with a UNIQUE failure, at every later run too
  (`amended_terms`): both texts are kept, share one block row, and their facts
  collide, although `historical.rs`:29 wants a correction to supersede.

Seen while modelling, and not runs, as no sentence of the repository is plainly
against them: a withdrawn correction stays in force once it is recorded; nothing
serialises two refresh processes, though `ARCHITECTURE.md` calls price scraping
serial by design; it gives schema version 3 where the code has 4; by its line 129
component-only disclosures make no inventory total, and
`taxonomy_reviewed_aliases.rs`:51 maps two components to the total; the gate of
the Yahoo fallback (`price_refresh.py`:183) looks at the newest price of any
source where the message beside it names the date `stooq_latest_date`; a nil fact of a
higher priority hides a value of a lower one; `has_preferred_shares` is set
over what a fact said; which text of a block with equal names stays depends on
the order of a hash map; a calculation arc that
two files of a package repeat is counted twice in an inventory total; the scope is chosen per period, so a history may mix consolidated and
other balance sheets; a class that is named by its axis in one place and by a
concept in another is two instruments.

## 7. The plan

Done: the price stack, the browser pool, the EDINET commands, the Stooq
download, the reading of reports with the taxonomy's lookup, and the tables of a
ticker with their writers and two readers; proofs for all of them.

Every safety invariant and action property of the passing runs is proved.  Left
is what the code makes of a cyclic calculation linkbase.

## 8. Not modelled

* XML syntax, the scanner's byte handling, labels and file names of packages:
  data to what is read from them.
* The contents of the taxonomy tables, `build.rs` and the JSON they come from.
* Market capitalisation and price lookups of the read models, and the JSON
  around the answers: arithmetic on one row.
* Schema initialisation: statements with IF NOT EXISTS; every module starts from
  the schema in place.
* The API's gate, the transaction of the stand-alone Stooq command (its download
  is modelled; the rest is that of a refresh), the headless fallback of the
  browser service, suffix discovery on Yahoo, `--ticker` of `scrape-historical`
  (the same scan for one stock), a stocks table that changes under a command.
* The Python EDINET helpers (`ARCHITECTURE.md` calls them compatibility
  residue), and one-shot report and plot commands.
