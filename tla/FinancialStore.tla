--------------------------- MODULE FinancialStore ---------------------------
(***************************************************************************)
(* The financial tables of one ticker, the commands that write them and    *)
(* the read models that read them while they do: write_ticker_in_tx of     *)
(* rust/src/db.rs, shikiho/sync.rs and shikiho/eps.rs, screening.rs and    *)
(* downstream.rs.  Every command and reader is a process of its own on the *)
(* SQLite file: a transaction is one step, and so is each SELECT outside   *)
(* of one.  A scenario [reports, editions, counts, readers] says what may  *)
(* be recorded, which editions of the handbook a sync may import, which    *)
(* share counts a price refresh may set and which readers run.  An edition *)
(* is [forecasts, dividends]: a sequence of [period, income] by period and *)
(* a map of periods to dividends, the overrides applied.                   *)
(***************************************************************************)
EXTENDS ReadModels, TickerTables

CONSTANTS
    Scenarios,
    HistoryLength   \* the periods a reader asks for

\* A report has one record; a package states a finite number of items, and its
\* presentation has no cycle.
ASSUME ScenarioAssumption ==
    /\ HistoryLength \in Nat \ {0}
    /\ \A s \in Scenarios :
        /\ IsFiniteSet(s.reports)
        /\ \A r, q \in s.reports : r.doc = q.doc => r = q
        /\ \A r \in s.reports :
            /\ r.year \in Int /\ r.updated \in Int /\ r.doc \in Int
            /\ IsFiniteSet(DOMAIN r.read.items)
            /\ \A k \in DOMAIN r.read.items : k = Unsourced(k) /\ k.context.period \in Int
            /\ \A w \in r.read.raw : w.context.period \in Int
            /\ IsFiniteSet(r.read.raw) /\ IsFiniteSet(r.read.edges)
            /\ Acyclic(SheetEdges(EdgeRows({r}), r.doc))

VARIABLES
    scenario,
    recorded,   \* sec_report_records of the ticker
    db,         \* the tables
    shares,     \* stock_share_counts.shares_outstanding
    parse,      \* parse-xbrl-financials
    eps,        \* compute-eps
    screen,     \* a call of load_screening_stocks
    sheet,      \* a call of get_balance_sheet_history
    stored,     \* auxiliary: the reports of the last store
    current     \* auxiliary: the EPS that were current in some commit
vars == <<scenario, recorded, db, shares, parse, eps, screen, sheet, stored, current>>

Idle == [pc |-> "idle"]

-----------------------------------------------------------------------------
(***************************************************************************)
(* compute-eps: an EPS is in thousandths.                                  *)
(***************************************************************************)
IncomeItem == {"net_income_current", "net_income_next"}
EpsOf == [net_income_current |-> "eps_current", net_income_next |-> "eps_next"]

Forecasts(values) ==
    {k \in Canonical(values) : k.item \in IncomeItem /\ k.source = "shikiho" /\ values[k] # Nil}

EpsKey(k) ==
    [context |-> k.context, statement |-> k.statement, item |-> EpsOf[k.item],
     source |-> "computed"]

EpsRows(values, count) ==
    IF count \in {Nil, 0} THEN Empty
    ELSE [e \in {EpsKey(k) : k \in Forecasts(values)} |->
             (1000 * values[CHOOSE k \in Forecasts(values) : EpsKey(k) = e]) \div count]

Computed(values) ==
    {k \in DOMAIN values : k.source = "computed" /\ k.item \in EpsItem \cup {"eps"}}

Init ==
    /\ scenario \in Scenarios
    /\ recorded = {}
    /\ db = Tables
    /\ shares = Nil
    /\ parse = Idle
    /\ eps = Idle
    /\ screen = Idle
    /\ sheet = Idle
    /\ stored = {}
    /\ current = {Empty}

Committed(values, count) == current' = current \cup {EpsRows(values, count)}

ReadEps ==
    /\ eps.pc = "idle"
    /\ scenario.editions # {}
    /\ eps' = [pc |-> "write", rows |-> EpsRows(db.values, shares)]
    /\ UNCHANGED <<scenario, recorded, db, shares, parse, screen, sheet, stored, current>>

\* Mutant: upsert only.
UpsertEps ==
    /\ eps.pc = "write"
    /\ db' = [db EXCEPT !.values = Upserted(eps.rows, @)]
    /\ eps' = Idle
    /\ UNCHANGED <<scenario, recorded, shares, parse, screen, sheet, stored, current>>

WriteEps ==
    /\ eps.pc = "write"
    /\ db' = [db EXCEPT !.values = Upserted(eps.rows, Without(@, Computed(@)))]
    /\ eps' = Idle
    /\ UNCHANGED <<scenario, recorded, shares, parse, screen, sheet, stored, current>>

KillEps ==
    /\ eps.pc = "write"
    /\ eps' = Idle
    /\ UNCHANGED <<scenario, recorded, db, shares, parse, screen, sheet, stored, current>>

SetShares(count) ==
    /\ count \in scenario.counts \ {shares}
    /\ shares' = count
    /\ Committed(db.values, count)
    /\ UNCHANGED <<scenario, recorded, db, parse, eps, screen, sheet, stored>>

-----------------------------------------------------------------------------
(***************************************************************************)
(* sync-shikiho-forecasts and -dividends.                                  *)
(***************************************************************************)
ForecastKey(p, item) ==
    [context |-> Plain(p), statement |-> "forecast", item |-> item, source |-> "shikiho"]
DividendKey(p) ==
    [context |-> Plain(p), statement |-> "dividend", item |-> "dps", source |-> "shikiho"]

\* The last two periods; both incomes go under the first of them, and none
\* does without a first income.
ForecastRows(forecasts) ==
    LET last == SubSeq(forecasts, Max({1, Len(forecasts) - 1}), Len(forecasts))
        first == last[1]
        next == IF Len(last) < 2 THEN Nil ELSE last[2].income
        current_key == ForecastKey(first.period, "net_income_current")
        next_key == ForecastKey(first.period, "net_income_next")
    IN  IF last = <<>> \/ first.income = Nil THEN Empty
        ELSE [k \in {current_key} \cup (IF next = Nil THEN {} ELSE {next_key}) |->
                 IF k = current_key THEN first.income ELSE next]

OldForecasts(values) ==
    {k \in DOMAIN values : k.source = "shikiho" /\ k.item \in IncomeItem}
OldDividends(values) ==
    {k \in DOMAIN values : k.source = "shikiho" /\ k.statement = "dividend"}

\* Mutant: upsert only.
UpsertForecasts(edition) ==
    LET values == Upserted(ForecastRows(edition.forecasts), db.values)
    IN  /\ db' = [db EXCEPT !.values = values]
        /\ Committed(values, shares)
        /\ UNCHANGED <<scenario, recorded, shares, parse, eps, screen, sheet, stored>>

SyncForecasts(edition) ==
    LET values == Upserted(ForecastRows(edition.forecasts),
                           Without(db.values, OldForecasts(db.values)))
    IN  /\ db' = [db EXCEPT !.values = values]
        /\ Committed(values, shares)
        /\ UNCHANGED <<scenario, recorded, shares, parse, eps, screen, sheet, stored>>

SyncDividends(edition) ==
    LET rows == [k \in {DividendKey(p) : p \in DOMAIN edition.dividends} |->
                    edition.dividends[k.context.period]]
        values == Upserted(rows, Without(db.values, OldDividends(db.values)))
    IN  /\ db' = [db EXCEPT !.values = values]
        /\ UNCHANGED <<scenario, recorded, shares, parse, eps, screen, sheet, stored, current>>

-----------------------------------------------------------------------------
(***************************************************************************)
(* parse-xbrl-financials.                                                  *)
(***************************************************************************)
\* scrape-historical records the reports and extracts their packages.
Record(r) ==
    /\ r \in scenario.reports \ recorded
    /\ recorded' = recorded \cup {r}
    /\ UNCHANGED <<scenario, db, shares, parse, eps, screen, sheet, stored, current>>

\* Mutant: only the last fiscal year's reports.
ListLatest == {r \in recorded : \A s \in recorded : s.year <= r.year}

Listed == recorded

BeginParse ==
    /\ parse.pc = "idle"
    /\ recorded # {}
    /\ parse' = [pc |-> "read", reports |-> Listed]
    /\ UNCHANGED <<scenario, recorded, db, shares, eps, screen, sheet, stored, current>>

\* A broken package ends the command; a refused ticker and one without facts
\* are only counted.
ReadReports ==
    /\ parse.pc = "read"
    /\ parse' =
           IF \/ Broken(parse.reports) \/ Refused(parse.reports)
              \/ NoFacts(Parsed(parse.reports))
           THEN Idle
           ELSE [parse EXCEPT !.pc = "write"]
    /\ UNCHANGED <<scenario, recorded, db, shares, eps, screen, sheet, stored, current>>

\* A collision rolls the batch back and ends the command.
WriteTicker ==
    /\ parse.pc = "write"
    /\ LET parsed == Parsed(parse.reports)
       IN  IF Collide(parsed.terms)
           THEN /\ parse' = [pc |-> "failed"]
                /\ UNCHANGED <<db, stored, current>>
           ELSE /\ db' \in Stored(db, parsed)
                /\ stored' = parse.reports
                /\ parse' = Idle
                /\ UNCHANGED current
    /\ UNCHANGED <<scenario, recorded, shares, eps, screen, sheet>>

KillParse ==
    /\ parse.pc \in {"read", "write"}
    /\ parse' = Idle
    /\ UNCHANGED <<scenario, recorded, db, shares, eps, screen, sheet, stored, current>>

RunAgain ==
    /\ parse.pc = "failed"
    /\ parse' = Idle
    /\ UNCHANGED <<scenario, recorded, db, shares, eps, screen, sheet, stored, current>>

-----------------------------------------------------------------------------
(***************************************************************************)
(* load_screening_stocks: a SELECT each step.                              *)
(***************************************************************************)
ScreenUnchanged ==
    UNCHANGED <<scenario, recorded, db, shares, parse, eps, sheet, stored, current>>

At(pc) == screen.pc = pc /\ ScreenUnchanged

Unknown == [present |-> Nil, unresolved |-> FALSE, total |-> Nil]

SelectPlPeriod ==
    /\ "screening" \in scenario.readers
    /\ At("idle")
    /\ LET p == Latest(Periods(db.values, "pl"))
       IN  screen' = [pc |-> IF p = None THEN "shares" ELSE "rows", period |-> p,
                      financials |-> Empty, shares |-> Nil,
                      history |-> Empty, equity |-> None, summary |-> Unknown, increase |-> Nil]

SelectPeriodRows ==
    /\ At("rows")
    /\ \E m \in Maps(db.values, OfPeriod(db.values, screen.period)) :
           screen' = [screen EXCEPT !.pc = "forecast", !.financials = m]

\* merge_latest_statement_rows, three times.
MergeThen == [forecast |-> "shikiho", shikiho |-> "dividend", dividend |-> "shares"]
MergeStatement == [forecast |-> "forecast", shikiho |-> "forecast", dividend |-> "dividend"]
MergeSources(pc) == {"shikiho"} \cup (IF pc = "forecast" THEN {"computed"} ELSE {})

SelectLatest ==
    \E pc \in DOMAIN MergeThen :
        /\ At(pc)
        /\ \E m \in Maps(db.values, LatestStatement(db.values, MergeStatement[pc], MergeSources(pc))) :
               screen' = [screen EXCEPT !.pc = MergeThen[pc], !.financials = Upserted(m, @)]

SelectShares ==
    /\ At("shares")
    /\ screen' = [screen EXCEPT !.pc = "cf", !.shares = shares]

HistoryThen == [cf |-> "pl", pl |-> "payout", payout |-> "period"]
HistoryStatement == [cf |-> "cf", pl |-> "pl", payout |-> "dividend"]

SelectHistory ==
    \E pc \in DOMAIN HistoryThen :
        LET st == HistoryStatement[pc]
            periods == LastOf(Periods(db.values, st), HistoryLength)
        IN  /\ At(pc)
            /\ \E h \in Histories(db.values, st, periods) :
                   screen' = [screen EXCEPT !.pc = HistoryThen[pc], !.history = Upserted([x \in {st} |-> h], @)]

SelectEquityPeriod ==
    /\ At("period")
    /\ LET p == LatestFinancialPeriod(db.values)
       IN  screen' = [screen EXCEPT !.equity = p,
                          !.pc = IF p = None THEN "adjusted" ELSE "instruments"]

SelectInstruments ==
    /\ At("instruments")
    /\ LET rows == {r \in db.instruments : r.period = screen.equity}
       IN  screen' = IF rows = {} THEN [screen EXCEPT !.pc = "status"]
                     ELSE [screen EXCEPT !.pc = "adjusted", !.summary = Summary(rows)]

SelectStatus ==
    /\ At("status")
    /\ LET rows == {r \in db.statuses : r.period = screen.equity}
       IN  screen' = [screen EXCEPT !.pc = "adjusted", !.summary = StatusSummary(rows)]

SelectAdjustedPeriod ==
    /\ At("adjusted")
    /\ LET p == LatestFinancialPeriod(db.values)
       IN  screen' = [screen EXCEPT !.equity = p,
                          !.pc = IF p = None THEN "screened" ELSE "adjustments"]

SelectAdjustments ==
    /\ At("adjustments")
    /\ LET rows == {r \in db.adjustments : r.period = screen.equity}
       IN  screen' = [screen EXCEPT !.pc = "screened", !.increase = Increase(rows)]

Screened ==
    /\ At("screened")
    /\ screen' = Idle

Screening ==
    \/ SelectPlPeriod \/ SelectPeriodRows \/ SelectLatest \/ SelectShares \/ SelectHistory
    \/ SelectEquityPeriod \/ SelectInstruments \/ SelectStatus
    \/ SelectAdjustedPeriod \/ SelectAdjustments \/ Screened

-----------------------------------------------------------------------------
(***************************************************************************)
(* get_balance_sheet_history: the periods, a document and scope for each,  *)
(* the edges of the last one's, values and total assets of each.           *)
(***************************************************************************)
SheetAt(pc) ==
    /\ sheet.pc = pc
    /\ UNCHANGED <<scenario, recorded, db, shares, parse, eps, screen, stored, current>>

Answer(error) == [pc |-> "answered", error |-> error]

SelectSheetPeriods ==
    /\ "balance_sheet" \in scenario.readers
    /\ SheetAt("idle")
    /\ LET periods == SheetPeriods(db.raw, HistoryLength)
       IN  sheet' = IF periods = {} THEN Answer("xbrl_balance_sheet_missing")
                    ELSE [pc |-> "scope", periods |-> periods, selected |-> Empty,
                          edges |-> {}, values |-> Empty, totals |-> Empty]

Put(m, p, e) == Upserted([x \in {p} |-> e], m)

\* The next period, oldest first, the map m has nothing for.
NextPeriod(m) ==
    CHOOSE p \in sheet.periods \ DOMAIN m :
        \A q \in sheet.periods \ DOMAIN m : p <= q

Ends(m) == One(sheet.periods \ DOMAIN m)

SelectDocScope ==
    /\ SheetAt("scope")
    /\ LET p == NextPeriod(sheet.selected)
       IN  sheet' = IF Groups(db.raw, p) = {} THEN Answer("xbrl_balance_sheet_scope_missing")
                    ELSE [sheet EXCEPT !.selected = Put(@, p, DocScope(db.raw, p)),
                              !.pc = IF Ends(sheet.selected) THEN "edges" ELSE "scope"]

SelectEdges ==
    /\ SheetAt("edges")
    /\ LET edges == SheetEdges(db.edges, sheet.selected[MaxOf(sheet.periods)].doc)
       IN  sheet' = IF edges = {} THEN Answer("xbrl_presentation_missing")
                    ELSE [sheet EXCEPT !.edges = edges, !.pc = "values"]

SelectValues ==
    /\ SheetAt("values")
    /\ LET p == NextPeriod(sheet.values)
       IN  sheet' = [sheet EXCEPT !.values = Put(@, p, SheetValues(db.raw, p, sheet.selected[p])),
                         !.pc = IF Ends(sheet.values) THEN "totals" ELSE "values"]

Valued(s) == UNION {DOMAIN s.values[p] : p \in s.periods}

\* The first period's total is required, and then a tree.
Judged(s) ==
    IF s.totals[CHOOSE p \in s.periods : \A q \in s.periods : p <= q] = Nil
    THEN Answer("total_assets_missing")
    ELSE IF Tree(s.edges, Valued(s)) = {} THEN Answer("xbrl_presentation_values_missing")
    ELSE [pc |-> "answered", error |-> "none", tree |-> Tree(s.edges, Valued(s)),
          edges |-> s.edges, values |-> s.values, selected |-> s.selected, totals |-> s.totals]

SelectTotal ==
    /\ SheetAt("totals")
    /\ LET p == NextPeriod(sheet.totals)
       IN  \E total \in TotalAssets(db.values, p) :
               LET s == [sheet EXCEPT !.totals = Put(@, p, total)]
               IN  sheet' = IF Ends(sheet.totals) THEN Judged(s) ELSE s

Answered ==
    /\ SheetAt("answered")
    /\ sheet' = Idle

BalanceSheet ==
    \/ SelectSheetPeriods \/ SelectDocScope \/ SelectEdges
    \/ SelectValues \/ SelectTotal \/ Answered

Next ==
    \/ ReadEps \/ WriteEps \/ KillEps
    \/ \E count \in scenario.counts : SetShares(count)
    \/ \E edition \in scenario.editions : SyncForecasts(edition) \/ SyncDividends(edition)
    \/ \E r \in scenario.reports : Record(r)
    \/ BeginParse \/ ReadReports \/ WriteTicker \/ KillParse \/ RunAgain
    \/ Screening
    \/ BalanceSheet

Spec == Init /\ [][Next]_vars

-----------------------------------------------------------------------------
(***************************************************************************)
(* Properties.                                                             *)
(***************************************************************************)
OfItems(values, S) == [k \in S |-> values[k]]

\* After any sequence of stores, failed or killed parses and other commands,
\* the EDINET tables hold what the last store's reports give an empty
\* database: no row of an earlier store survives under a key that the reports
\* no longer have (write_ticker_in_tx deletes before it inserts).
EdinetTables ==
    {"raw", "edges", "issuances", "blocks", "instruments", "statuses", "adjustments"}

Rebuilt ==
    \E t \in IF stored = {} THEN {Tables} ELSE Stored(Tables, Parsed(stored)) :
        /\ OfItems(db.values, OfEdinet(db.values)) = t.values
        /\ \A f \in EdinetTables : db[f] = t[f]

\* A stored value is that of the last usable report, by fiscal year, record
\* and document, that states its item in its context (parse_ticker).
LatestStands ==
    \A k \in OfEdinet(db.values) :
        LET said == {r \in stored : Usable(r) /\ Unsourced(k) \in DOMAIN r.read.items}
        IN  \E r \in said :
                /\ \A s \in said \ {r} : Before(s, r)
                /\ db.values[k] = r.read.items[Unsourced(k)]

\* The stored forecasts are those of one edition of the handbook: a next
\* year's income never stays behind from an earlier sync (sync_forecasts).
ForecastOfOneEdition ==
    LET rows == OfItems(db.values, OldForecasts(db.values))
    IN  rows = Empty \/ \E e \in scenario.editions : rows = ForecastRows(e.forecasts)

\* The computed EPS divide the incomes of one commit by the share count of
\* that same commit, though compute_eps reads before its transaction and a
\* sync or a price refresh may commit in between.
EpsOfOneCommit == OfItems(db.values, Computed(db.values)) \in current

\* However many blocks of text describe an instrument, the total counts it
\* once: every choice of one stated quantity per instrument gives the total,
\* and there is none if an instrument has none or two
\* (get_potential_equity_summary).
SummedOnce ==
    \A p \in {r.period : r \in db.instruments} :
        LET rows == {r \in db.instruments : r.period = p}
            s == Summary(rows)
            picks == {m \in [Keys(rows) -> {r.shares : r \in rows} \ {Nil}] :
                         \A k \in Keys(rows) : m[k] \in OfKey(rows, k)}
        IN  IF s.unresolved THEN s.total = Nil /\ ~One(picks)
            ELSE picks # {} /\ \A m \in picks : s.total = SumOf(m)

\* A balance sheet history shows a node of the last report's presentation if
\* and only if the node has a value in some period or a child that is shown: a
\* heading without a fact does not hide what is below it
\* (build_balance_sheet_node).
HistoryShowsAll ==
    sheet.pc = "answered" /\ sheet.error = "none" =>
        LET valued == UNION {DOMAIN sheet.values[p] : p \in DOMAIN sheet.values}
        IN  \A n \in SheetNodes(sheet.edges) :
                n \in sheet.tree <=>
                    n.concept \in valued \/ Children(sheet.edges, n) \cap sheet.tree # {}

\* No step takes a period of a statement from the stored EDINET values: later
\* parses only add to a ticker's history.
PeriodsKept ==
    [][\A statement \in {"bs", "pl", "cf"} :
          Periods(db.values, statement) \subseteq Periods(db'.values, statement)]_vars

\* The profit and loss history of a screening answer reaches at least the
\* period its financials are of, though the two are read by SELECTs of their
\* own beside a running store (build_screening_stock).
HistoriesNotBehind ==
    screen.pc \notin {"idle", "rows"} /\ screen.period # None /\ "pl" \in DOMAIN screen.history =>
        \E p \in DOMAIN screen.history["pl"] : p >= screen.period

\* ARCHITECTURE.md:205: values of one month, statement and item agree.
OverlapsResolved ==
    \A k, j \in Canonical(db.values) :
        /\ k.context.period = j.context.period
        /\ k.statement = j.statement
        /\ k.item = j.item
        => db.values[k] = db.values[j]

\* historical.rs:29: a report and its correction can both be stored.
CorrectionStored == parse.pc # "failed"
=============================================================================
