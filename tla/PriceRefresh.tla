---------------------------- MODULE PriceRefresh ----------------------------
(***************************************************************************)
(* The refresh-prices pipeline of the Python price stack:                  *)
(* sources/price_refresh.py orchestrates the Stooq update of               *)
(* sources/stooq/updater.py and the Yahoo fallback of                      *)
(* sources/yahoo_finance_jp/scraper.py over the SQLite tables that         *)
(* storage/prices.py reads and writes.  Any number of refresh processes    *)
(* (the cron job, the command a downstream API call starts, a person at a  *)
(* terminal) run at the same time on one database file; SQLite gives them  *)
(* one writer at a time and committed-only reads, nothing else.            *)
(***************************************************************************)
EXTENDS PriceTables

CONSTANTS
    Run,           \* the slots in which refresh processes run
    NoRun,         \* "no run holds the write lock"
    InitialStock,  \* the tickers of stock_entities at the start
    NonTse,        \* tickers whose yf_suffix is N, S or F
    Listing,       \* the sets of tickers a Stooq daily file may list
    Mode,          \* which callers there are: "scheduled", "default", "explicit"
    CloseHour      \* the tick from which the scheduled job does its work

ASSUME MarketAssumption ==
    /\ InitialStock \subseteq Ticker
    /\ NonTse \subseteq Ticker
    /\ Listing \subseteq SUBSET Ticker
    /\ NoRun \notin Run

VARIABLES
    today, hour,   \* the wall clock
    published,     \* date of the newest daily file Stooq offers
    stocks,        \* tickers in stock_entities
    prices,        \* price_observations (committed)
    quarantine,    \* unresolved_price_observations (committed)
    stooqCheck,    \* source_refresh_checks row "stooq_prices"
    refreshCheck,  \* source_refresh_checks row "price_refresh"
    lock,          \* holder of SQLite's write lock
    pc, target,    \* per run: where it is and what it works towards
    file, known,   \* per run: rows of the downloaded file, tickers it read
                   \* from stock_entities before inserting them
    stale, todo,   \* per run: its stale list, Yahoo tickers still to fetch
    pending,       \* per run: uncommitted price_observations
    seen,          \* history: stocks the run's last stale query scanned
    vouched,       \* history: seen of the run that wrote refreshCheck
    ingested,      \* history: targets of Stooq checks committed this hour
    overran        \* history: quotes newer than the target of the run that
                   \* took them, because it ran past midnight

clock == <<today, hour, published>>
db == <<stocks, prices, quarantine, stooqCheck, refreshCheck>>
local == <<target, file, known, stale, todo, pending>>
history == <<seen, vouched, ingested, overran>>
vars == <<clock, db, lock, pc, local, history>>

StooqRequired(d) ==
    \E b \in BusinessDay :
        /\ IsLatestBusinessDay(b, d)
        /\ StaleTickers(stocks, prices, b) # {}
        /\ ~Recent(stooqCheck, b, IF prices = {} THEN DayCooldown ELSE LaggedCooldown)

Finished == {"idle", "skipped", "resolved", "unresolved", "failed"}
Active == {"check", "download", "parse", "insert", "commit",
           "read", "compare", "yahoo", "record"}

\* What run p reads: its own uncommitted rows over the committed ones.
View(p) == prices \cup pending[p]
MayWrite(p) == lock \in {NoRun, p}
Unlocked(p) == IF lock = p THEN NoRun ELSE lock

(***************************************************************************)
(* The world.                                                              *)
(***************************************************************************)
Tick ==
    /\ hour' = (hour + 1) % HoursPerDay
    /\ today' = IF hour' = 0 /\ today < LastDay THEN today + 1 ELSE today
    /\ stooqCheck' = Aged(stooqCheck)
    /\ refreshCheck' = Aged(refreshCheck)
    /\ ingested' = {}
    /\ UNCHANGED <<published, stocks, prices, quarantine, lock, pc, local, seen, vouched, overran>>

StooqPublishes ==
    /\ \E d \in BusinessDay : published < d /\ d <= today /\ published' = d
    /\ UNCHANGED <<today, hour, db, lock, pc, local, history>>

\* Another command (seed-edinet-code-list) commits a new stock.
AddStock(t) ==
    /\ t \notin stocks
    /\ lock = NoRun
    /\ stocks' = stocks \cup {t}
    /\ UNCHANGED <<clock, prices, quarantine, stooqCheck, refreshCheck, lock, pc, local, history>>

(***************************************************************************)
(* One refresh.                                                            *)
(***************************************************************************)
\* What a caller may ask for: target d, and whether --if-needed is given.
Request(d, ifNeeded) ==
    \/ /\ "scheduled" \in Mode
       /\ d = today /\ today \in BusinessDay /\ hour >= CloseHour
       /\ ifNeeded
    \/ "default" \in Mode /\ IsLatestBusinessDay(d, today - 1)
    \/ "explicit" \in Mode /\ d <= today

Skippable(d) ==
    \/ StaleTickers(stocks, prices, d) = {}
    \/ Recent(refreshCheck, d, DayCooldown)

\* The tests of --if-needed, on a connection of their own.
Begin(p) ==
    /\ pc[p] \in Finished
    /\ \E d \in Day, ifNeeded \in BOOLEAN :
        /\ Request(d, ifNeeded)
        /\ target' = [target EXCEPT ![p] = d]
        /\ pc' = [pc EXCEPT ![p] = IF ifNeeded /\ Skippable(d) THEN "skipped" ELSE "check"]
    /\ stale' = [stale EXCEPT ![p] = {}]
    /\ UNCHANGED <<clock, db, lock, file, known, todo, pending, history>>

NeedStooq(p) ==
    /\ pc[p] = "check"
    /\ pc' = [pc EXCEPT ![p] = IF StooqRequired(target[p]) THEN "download" ELSE "read"]
    /\ UNCHANGED <<clock, db, lock, local, history>>

Download(p) ==
    /\ pc[p] = "download"
    /\ \E listed \in Listing :
        file' = [file EXCEPT ![p] =
            {[ticker |-> t, date |-> published, source |-> "stooq"] : t \in listed}]
    /\ pc' = [pc EXCEPT ![p] = "parse"]
    /\ UNCHANGED <<clock, db, lock, target, known, stale, todo, pending, history>>

\* No transaction is open yet: stock_entities may change before the first INSERT.
ReadKnown(p) ==
    /\ pc[p] = "parse"
    /\ known' = [known EXCEPT ![p] = stocks]
    /\ pc' = [pc EXCEPT ![p] = "insert"]
    /\ UNCHANGED <<clock, db, lock, target, file, stale, todo, pending, history>>

\* The first INSERT opens the transaction; the rows stay private until COMMIT.
IngestUnfiltered(p) ==
    /\ pc[p] = "insert"
    /\ lock = NoRun
    /\ lock' = p
    /\ pending' = [pending EXCEPT ![p] = file[p]]
    /\ pc' = [pc EXCEPT ![p] = "commit"]
    /\ UNCHANGED <<clock, db, target, file, known, stale, todo, history>>

Ingest(p) ==
    /\ pc[p] = "insert"
    /\ lock = NoRun
    /\ lock' = p
    /\ pending' = [pending EXCEPT ![p] = {o \in file[p] : o.ticker \in known[p]}]
    /\ pc' = [pc EXCEPT ![p] = "commit"]
    /\ UNCHANGED <<clock, db, target, file, known, stale, todo, history>>

CommitStooq(p) ==
    /\ pc[p] = "commit"
    /\ prices' = prices \cup pending[p]
    /\ quarantine' = quarantine \cup (file[p] \ pending[p])
    /\ stooqCheck' = Checked(target[p])
    /\ ingested' = ingested \cup {target[p]}
    /\ lock' = Unlocked(p)
    /\ pending' = [pending EXCEPT ![p] = {}]
    /\ file' = [file EXCEPT ![p] = {}]
    /\ known' = [known EXCEPT ![p] = {}]
    /\ pc' = [pc EXCEPT ![p] = "read"]
    /\ UNCHANGED <<clock, stocks, refreshCheck, target, stale, todo, seen, vouched, overran>>

ReadStale(p) ==
    /\ pc[p] = "read"
    /\ stale' = [stale EXCEPT ![p] = StaleTickers(stocks, prices, target[p])]
    /\ seen' = [seen EXCEPT ![p] = stocks]
    /\ pc' = [pc EXCEPT ![p] = IF stale'[p] = {} THEN "record" ELSE "compare"]
    /\ UNCHANGED <<clock, db, lock, target, file, known, todo, pending, vouched, ingested, overran>>

\* Yahoo is asked only for non-TSE stocks and only if the database is not
\* behind as a whole.
ChooseFallback(p) ==
    LET fallback == IF Lags(prices, target[p]) THEN {} ELSE stale[p] \cap NonTse
    IN  /\ pc[p] = "compare"
        /\ todo' = [todo EXCEPT ![p] = fallback]
        /\ pc' = [pc EXCEPT ![p] = IF fallback = {} THEN "record" ELSE "yahoo"]
        /\ UNCHANGED <<clock, db, lock, target, file, known, stale, pending, history>>

\* The quote page shows the previous session's close, dated before today.
Quote(p, t) ==
    /\ pc[p] = "yahoo" /\ t \in todo[p]
    /\ MayWrite(p)
    /\ \E q \in BusinessDay :
        LET quote == [ticker |-> t, date |-> q, source |-> "yahoo"]
        IN  /\ target[p] <= q /\ q < today
            /\ pending' = [pending EXCEPT ![p] = @ \cup {quote}]
            /\ overran' = overran \cup (IF target[p] < q THEN {quote} ELSE {})
    /\ lock' = p
    /\ todo' = [todo EXCEPT ![p] = @ \ {t}]
    /\ UNCHANGED <<clock, db, pc, target, file, known, stale, seen, vouched, ingested>>

\* No page, no quote, a quote older than the target, or 60 s without the lock.
QuoteFails(p, t) ==
    /\ pc[p] = "yahoo" /\ t \in todo[p]
    /\ todo' = [todo EXCEPT ![p] = @ \ {t}]
    /\ UNCHANGED <<clock, db, lock, pc, target, file, known, stale, pending, history>>

\* The close the run asks for is on no page yet.
QuoteTooOld(p, t) ==
    /\ \A q \in BusinessDay : target[p] <= q => q >= today
    /\ QuoteFails(p, t)

RereadNothing(p) ==
    /\ pc[p] = "yahoo" /\ todo[p] = {}
    /\ stale' = [stale EXCEPT ![p] = StaleTickers(todo[p], View(p), target[p])]
    /\ seen' = [seen EXCEPT ![p] = stocks]
    /\ pc' = [pc EXCEPT ![p] = "record"]
    /\ UNCHANGED <<clock, db, lock, target, file, known, todo, pending, vouched, ingested, overran>>

RereadStale(p) ==
    /\ pc[p] = "yahoo" /\ todo[p] = {}
    /\ stale' = [stale EXCEPT ![p] = StaleTickers(stocks, View(p), target[p])]
    /\ seen' = [seen EXCEPT ![p] = stocks]
    /\ pc' = [pc EXCEPT ![p] = "record"]
    /\ UNCHANGED <<clock, db, lock, target, file, known, todo, pending, vouched, ingested, overran>>

Finish(p, outcome) ==
    /\ prices' = View(p)
    /\ pending' = [pending EXCEPT ![p] = {}]
    /\ lock' = Unlocked(p)
    /\ seen' = [seen EXCEPT ![p] = {}]
    /\ pc' = [pc EXCEPT ![p] = outcome]
    /\ UNCHANGED <<clock, stocks, quarantine, stooqCheck, target, file, known, stale, todo, ingested, overran>>

RecordAlways(p) ==
    /\ pc[p] = "record"
    /\ MayWrite(p)
    /\ refreshCheck' = Checked(target[p])
    /\ vouched' = seen[p]
    /\ Finish(p, "resolved")

RecordCheck(p) ==
    /\ pc[p] = "record" /\ stale[p] = {}
    /\ MayWrite(p)
    /\ refreshCheck' = Checked(target[p])
    /\ vouched' = seen[p]
    /\ Finish(p, "resolved")

\* Mutant: a run that leaves a stock stale takes its quotes back.
LeaveUnresolvedRollsBack(p) ==
    /\ pc[p] = "record" /\ stale[p] # {}
    /\ pc' = [pc EXCEPT ![p] = "unresolved"]
    /\ lock' = Unlocked(p)
    /\ pending' = [pending EXCEPT ![p] = {}]
    /\ seen' = [seen EXCEPT ![p] = {}]
    /\ UNCHANGED <<clock, db, target, file, known, stale, todo, vouched, ingested, overran>>

\* What was quoted is committed, resolved or not.
LeaveUnresolved(p) ==
    /\ pc[p] = "record" /\ stale[p] # {}
    /\ Finish(p, "unresolved")
    /\ UNCHANGED <<refreshCheck, vouched>>

(***************************************************************************)
(* Every way a refresh ends early rolls its transaction back.              *)
(***************************************************************************)
AbandonCommits(p) ==
    /\ pc' = [pc EXCEPT ![p] = "failed"]
    /\ lock' = Unlocked(p)
    /\ prices' = View(p)
    /\ pending' = [pending EXCEPT ![p] = {}]
    /\ file' = [file EXCEPT ![p] = {}]
    /\ known' = [known EXCEPT ![p] = {}]
    /\ todo' = [todo EXCEPT ![p] = {}]
    /\ stale' = [stale EXCEPT ![p] = {}]
    /\ seen' = [seen EXCEPT ![p] = {}]
    /\ UNCHANGED <<clock, stocks, quarantine, stooqCheck, refreshCheck, target, vouched, ingested, overran>>

Abandon(p) ==
    /\ pc' = [pc EXCEPT ![p] = "failed"]
    /\ lock' = Unlocked(p)
    /\ pending' = [pending EXCEPT ![p] = {}]
    /\ file' = [file EXCEPT ![p] = {}]
    /\ known' = [known EXCEPT ![p] = {}]
    /\ todo' = [todo EXCEPT ![p] = {}]
    /\ stale' = [stale EXCEPT ![p] = {}]
    /\ seen' = [seen EXCEPT ![p] = {}]
    /\ UNCHANGED <<clock, db, target, vouched, ingested, overran>>

\* Download, parse, close <= 0, or browser service error; a malformed quote.
SourceFails(p) == pc[p] \in {"download", "parse", "commit", "yahoo"} /\ Abandon(p)

\* SQLITE_BUSY after 60 s outside the per-ticker handler.
LockTimeout(p) ==
    /\ pc[p] = "insert" \/ (pc[p] = "record" /\ stale[p] = {})
    /\ ~MayWrite(p)
    /\ Abandon(p)

Kill(p) == pc[p] \in Active /\ Abandon(p)

\* A caller of the latest business day begins, if there are such callers.
BeginDefault(p) ==
    "default" \in Mode /\ Begin(p) /\ IsLatestBusinessDay(target'[p], today - 1)

\* What a run loses to another one that has the write lock and waits for a
\* site; with the inserts of a file it is held too short for a timeout.
LosesToQuotes(p) ==
    /\ ~MayWrite(p) /\ pc[lock] = "yahoo"
    /\ LockTimeout(p) \/ \E t \in Ticker : QuoteFails(p, t)

Init ==
    /\ today = 1 /\ hour = 0
    /\ published = 0
    /\ stocks = InitialStock
    /\ \/ prices = {}
       \/ prices = [ticker : InitialStock, date : {0}, source : {"stooq"}]
    /\ quarantine = {}
    /\ stooqCheck = NoCheck /\ refreshCheck = NoCheck
    /\ lock = NoRun
    /\ pc = [p \in Run |-> "idle"]
    /\ target = [p \in Run |-> 0]
    /\ file = [p \in Run |-> {}]
    /\ known = [p \in Run |-> {}]
    /\ stale = [p \in Run |-> {}]
    /\ todo = [p \in Run |-> {}]
    /\ pending = [p \in Run |-> {}]
    /\ seen = [p \in Run |-> {}]
    /\ vouched = {}
    /\ ingested = {} /\ overran = {}

Progress(p) ==
    \/ NeedStooq(p)
    \/ Download(p) \/ ReadKnown(p) \/ Ingest(p) \/ CommitStooq(p)
    \/ ReadStale(p) \/ ChooseFallback(p)
    \/ \E t \in Ticker : Quote(p, t) \/ QuoteTooOld(p, t)
    \/ RereadStale(p) \/ RecordCheck(p) \/ LeaveUnresolved(p)

Fault(p) ==
    \/ \E t \in Ticker : QuoteFails(p, t)
    \/ SourceFails(p) \/ LockTimeout(p) \/ Kill(p)

Step(p) == Begin(p) \/ Progress(p) \/ Fault(p)

World == Tick \/ StooqPublishes \/ \E t \in Ticker : AddStock(t)

Next == World \/ \E p \in Run : Step(p)

Spec == Init /\ [][Next]_vars

(***************************************************************************)
(* For liveness: time passes, Stooq publishes, callers keep calling, those *)
(* for the day before among them, a process that can go on does, and at    *)
(* some point the sites, the browser and the operator stop failing runs    *)
(* (for how long they failed is open).  Runs may go on losing quotes and   *)
(* whole refreshes to each other's lock.                                   *)
(***************************************************************************)
Fairness ==
    /\ WF_vars(Tick) /\ WF_vars(StooqPublishes)
    /\ \A p \in Run : SF_vars(BeginDefault(p)) /\ WF_vars(Progress(p))
    /\ <>[][\A p \in Run :
               Fault(p) => LosesToQuotes(p) \/ \E t \in Ticker : QuoteTooOld(p, t)]_vars

LiveSpec == Spec /\ Fairness
-----------------------------------------------------------------------------
\* The type of every variable (the tables of 0001_base.sql and the locals of
\* refresh_prices).
TypeOK ==
    /\ today \in Day /\ hour \in 0 .. HoursPerDay - 1 /\ published \in Day
    /\ stocks \subseteq Ticker
    /\ prices \subseteq Obs /\ quarantine \subseteq Obs
    /\ stooqCheck \in CheckRow /\ refreshCheck \in CheckRow
    /\ lock \in Run \cup {NoRun}
    /\ pc \in [Run -> Finished \cup Active]
    /\ target \in [Run -> Day]
    /\ file \in [Run -> SUBSET Obs] /\ known \in [Run -> SUBSET Ticker]
    /\ pending \in [Run -> SUBSET Obs]
    /\ stale \in [Run -> SUBSET Ticker] /\ todo \in [Run -> SUBSET Ticker]
    /\ seen \in [Run -> SUBSET Ticker] /\ vouched \subseteq Ticker
    /\ ingested \subseteq Day /\ overran \subseteq Obs

\* ARCHITECTURE.md: rows of tickers that are not in stock_entities "are
\* quarantined ... instead of becoming orphan prices", whatever stocks are
\* added while files are being ingested.
NoOrphanPrices == \A o \in prices : o.ticker \in stocks

\* The unresolved list a run is about to report misses no ticker its query
\* scanned and that is still older than the target, although other runs
\* commit prices between the query and the report.
ReportComplete ==
    \A p \in Run : pc[p] = "record" =>
        \A t \in seen[p] : t \in stale[p] \/ Fresh(t, target[p], View(p))

\* A price_refresh check row is a promise: each stock that its writer saw has a
\* price of the checked date or newer, now and for as long as the row stands.
CheckVouches == \A t \in vouched : Fresh(t, refreshCheck.target, prices)

\* --if-needed skips the refresh only if every stock is fresh for the caller's
\* target, or is one that appeared after the check row was written less than
\* a day ago.
SkipJustified ==
    [][\A p \in Run : pc[p] # "skipped" /\ pc'[p] = "skipped" =>
        \A t \in stocks :
            \/ Fresh(t, target'[p], prices)
            \/ t \notin vouched /\ refreshCheck.age < DayCooldown]_vars

\* A run does not fetch Stooq for a business day whose Stooq update was
\* committed within the hour.
StooqCooldownKept ==
    [][\A p \in Run : pc[p] = "check" /\ pc'[p] = "download" =>
        \A b \in ingested : ~IsLatestBusinessDay(b, target'[p])]_vars

\* The Yahoo fallback starts only once Stooq itself has reached the target
\* date: otherwise the run is to say that Stooq lags.  The gate looks at rows
\* of both sources, yet Yahoo's own rows open it in one case only: a quote that
\* was taken past midnight, and is newer than the target of its run.
YahooAfterStooq ==
    [][\A p \in Run : pc[p] = "compare" /\ pc'[p] = "yahoo" =>
        \E o \in prices : o.date >= target[p] /\ (o.source = "stooq" \/ o \in overran)]_vars

\* With callers that keep asking for the previous business day, each stock
\* that Stooq lists or Yahoo covers ends up with that day's price: neither a
\* lagging file nor a failed run nor a cooldown leaves it stale for good, nor
\* do two runs that keep the write lock over their network calls and time
\* each other out for ever.
EventuallyFresh == <>[](\A t \in stocks : Fresh(t, LastDay - 1, prices))

Ledger == INSTANCE PriceLedger WITH
    stocks <- stocks, prices <- prices,
    stooqCheck <- stooqCheck, refreshCheck <- refreshCheck, vouched <- vouched

\* Behind the interleaved, failing, dying runs a reader of the database sees
\* the transactions of PriceLedger and nothing else.
ImplementsLedger == Ledger!Spec
=============================================================================
