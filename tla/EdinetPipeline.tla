--------------------------- MODULE EdinetPipeline ---------------------------
(***************************************************************************)
(* The EDINET core: scrape-historical and download-xbrl fetch packages and *)
(* record them in sec_report_records, parse-xbrl-financials turns the      *)
(* recorded packages into facts, ticker by ticker.  The commands share     *)
(* nothing but the package directories and the database.  What is in a     *)
(* package is told apart only as far as the parser's control flow does.    *)
(***************************************************************************)
EXTENDS EffectiveReports, EdinetResolver, FiniteSets

CONSTANTS
    Run,         \* slots for commands in progress
    Filing,      \* the annual reports and corrections companies will file
    Codes,       \* the codes EDINET's list has for each id (see EdinetResolver)
    Unusable,    \* ids whose facts fail the inventory checks
    Silent,      \* ids without parseable facts
    RawOnly,     \* ids whose facts are of raw statements alone, no financial item
    Option,      \* options in use: "force", "window", "single", "from"
    BatchSize,   \* --parse-batch-size
    LastDay,     \* bound: last day on which anything is filed
    MaxStamp     \* bound: number of stamped commits

Id == {d.id : d \in Filing}
Ticker == {d.ticker : d \in Filing}
Day == 1 .. LastDay
Stamp == 0 .. MaxStamp

\* A period end is a number yyyymm.  fiscal_year is text: "FYyyyy" sorts
\* before "latest", "latest" before "unknown".
LatestYear == 10000
UnknownYear == 10001

ASSUME FilingAssumption ==
    /\ Filing \subseteq Document(Nat \ {NoDoc}, Nat, Nat, Day)
    /\ \A d, e \in Filing : d.id = e.id => d = e
    /\ BatchSize \in Nat \ {0} /\ LastDay \in Nat \ {0} /\ MaxStamp \in Nat

\* A document's ticker is the stock it resolves to, if it resolves to any.
ASSUME CodesAssumption ==
    \A d \in Filing : \A t \in DOMAIN Stocks : Resolves(Codes[d.id], t) => t = d.ticker

ASSUME PeriodAssumption == \A d \in Filing : d.period < 100 * LatestYear

YearOf(d) == IF d.period = NoPeriod THEN UnknownYear ELSE d.period \div 100

VARIABLES
    today, filed, withdrawn,  \* EDINET: the date, ids on the list, ids withdrawn
    rows,      \* sec_report_records: doc, fiscal year and updated_at
    package,   \* ids whose package directory is in place
    facts,     \* per ticker: the rows merged, those whose values of their own period
               \* stand, and updated_at
    now,       \* the clock, as far as stamps tell times apart
    pc,
    cursor, last, found, existing,  \* scrape: dates left, active documents seen, stored ids
    todo, doc, year, had, stamp,   \* download: documents to fetch, the one in hand
    inputs, queue, batch,     \* parse: rows it loaded, tickers left, tickers parsed
    torn       \* history: ids whose package a crash or failed rollback took away

edinet == <<today, filed, withdrawn>>
store == <<rows, package, facts, now>>
scrape == <<cursor, last, found, existing>>
fetch == <<doc, year, had, stamp>>
parse == <<inputs, queue, batch>>
vars == <<edinet, store, pc, scrape, todo, fetch, parse, torn>>

Ended == {"idle", "done", "failed"}
Downloading == {"fetch", "install", "stamp", "record"}
Active == {"scan", "load", "parse", "write"} \cup Downloading

DocOf(i) == CHOOSE d \in Filing : d.id = i
RowsOf(t, R) == {r \in R : DocOf(r.doc).ticker = t}
RowOf(i) == {r \in rows : r.doc = i}

(***************************************************************************)
(* EDINET.                                                                 *)
(***************************************************************************)
NextDay ==
    /\ today < LastDay
    /\ today' = today + 1
    /\ UNCHANGED <<filed, withdrawn, store, pc, scrape, todo, fetch, parse, torn>>

File(d) ==
    /\ d.submitted = today /\ d.id \notin filed
    /\ d.correction => d.parent \in filed
    /\ filed' = filed \cup {d.id}
    /\ UNCHANGED <<today, withdrawn, store, pc, scrape, todo, fetch, parse, torn>>

Withdraw(i) ==
    /\ i \in filed \ withdrawn
    /\ withdrawn' = withdrawn \cup {i}
    /\ UNCHANGED <<today, filed, store, pc, scrape, todo, fetch, parse, torn>>

(***************************************************************************)
(* scrape-historical: the scan.                                            *)
(***************************************************************************)
BeginScrape(p) ==
    /\ pc[p] \in Ended
    /\ \E force \in BOOLEAN :
        /\ force => "force" \in Option
        /\ existing' = [existing EXCEPT ![p] = IF force THEN {} ELSE {r.doc : r \in rows}]
    /\ \E from, to \in 1 .. today :
        /\ "window" \notin Option => from = 1 /\ to = today
        /\ cursor' = [cursor EXCEPT ![p] = from]
        /\ last' = [last EXCEPT ![p] = to]
    /\ found' = [found EXCEPT ![p] = {}]
    /\ pc' = [pc EXCEPT ![p] = "scan"]
    /\ UNCHANGED <<edinet, store, todo, fetch, parse, torn>>

\* Withdrawn documents are dropped here, though only after the scan in the code.
OnList(day) == {d \in Filing : d.id \in filed \ withdrawn /\ d.submitted = day}

Resolved(d) == Resolves(Codes[d.id], d.ticker)

\* One documents.json request: what is about no stock of the table is passed by.
ScanDay(p) ==
    /\ pc[p] = "scan" /\ cursor[p] <= last[p]
    /\ found' = [found EXCEPT ![p] =
           @ \cup {d \in OnList(cursor[p]) : Resolved(d)}]
    /\ cursor' = [cursor EXCEPT ![p] = @ + 1]
    /\ UNCHANGED <<edinet, store, pc, last, existing, todo, fetch, parse, torn>>

ChooseAll(p) ==
    /\ pc[p] = "scan" /\ cursor[p] > last[p]
    /\ todo' = [todo EXCEPT ![p] = Effective(found[p])]
    /\ found' = [found EXCEPT ![p] = {}]
    /\ existing' = [existing EXCEPT ![p] = {}]
    /\ pc' = [pc EXCEPT ![p] = "fetch"]
    /\ UNCHANGED <<edinet, store, cursor, last, fetch, parse, torn>>

Choose(p) ==
    /\ pc[p] = "scan" /\ cursor[p] > last[p]
    /\ todo' = [todo EXCEPT ![p] = {d \in Effective(found[p]) : d.id \notin existing[p]}]
    /\ found' = [found EXCEPT ![p] = {}]
    /\ existing' = [existing EXCEPT ![p] = {}]
    /\ pc' = [pc EXCEPT ![p] = "fetch"]
    /\ UNCHANGED <<edinet, store, cursor, last, fetch, parse, torn>>

(***************************************************************************)
(* Downloads.                                                              *)
(***************************************************************************)
\* download-xbrl: one document, recorded under the fiscal year "latest".
BeginSingle(p) ==
    /\ pc[p] \in Ended
    /\ "single" \in Option
    /\ \E d \in Filing : d.id \in filed /\ todo' = [todo EXCEPT ![p] = {d}]
    /\ year' = [year EXCEPT ![p] = LatestYear]
    /\ pc' = [pc EXCEPT ![p] = "fetch"]
    /\ UNCHANGED <<edinet, store, scrape, doc, had, stamp, parse, torn>>

Before(d, e) ==
    \/ d.ticker < e.ticker
    \/ d.ticker = e.ticker /\ d.period < e.period
    \/ d.ticker = e.ticker /\ d.period = e.period /\ d.id <= e.id

\* The package is downloaded and unpacked aside; a previous one is renamed away.
MoveAside(p) ==
    /\ pc[p] = "fetch"
    /\ \E d \in todo[p] :
        /\ \A e \in todo[p] : Before(d, e)
        /\ doc' = [doc EXCEPT ![p] = d.id]
        /\ had' = [had EXCEPT ![p] = d.id \in package]
        /\ package' = package \ {d.id}
        /\ year' = [year EXCEPT ![p] = IF @ = LatestYear THEN @ ELSE YearOf(d)]
        /\ todo' = [todo EXCEPT ![p] = @ \ {d}]
    /\ pc' = [pc EXCEPT ![p] = "install"]
    /\ UNCHANGED <<edinet, rows, facts, now, scrape, stamp, parse, torn>>

DownloadFails(p) ==
    /\ pc[p] = "fetch"
    /\ \E d \in todo[p] :
        /\ \A e \in todo[p] : Before(d, e)
        /\ todo' = [todo EXCEPT ![p] = @ \ {d}]
    /\ UNCHANGED <<edinet, store, pc, scrape, fetch, parse, torn>>

Install(p) ==
    /\ pc[p] = "install"
    /\ doc[p] \notin package
    /\ package' = package \cup {doc[p]}
    /\ torn' = torn \ {doc[p]}
    /\ had' = [had EXCEPT ![p] = FALSE]
    /\ pc' = [pc EXCEPT ![p] = "stamp"]
    /\ UNCHANGED <<edinet, rows, facts, now, scrape, todo, doc, year, stamp, parse>>

InstallFailsFlat(p) ==
    /\ pc[p] = "install"
    /\ had' = [had EXCEPT ![p] = FALSE]
    /\ pc' = [pc EXCEPT ![p] = "fetch"]
    /\ UNCHANGED <<edinet, store, scrape, todo, doc, year, stamp, parse, torn>>

\* The rename fails, always so if another command installed the package first.
\* The previous package is renamed back, which may fail too.
InstallFails(p) ==
    /\ pc[p] = "install"
    /\ \/ /\ had[p] /\ doc[p] \notin package
          /\ package' = package \cup {doc[p]}
          /\ UNCHANGED torn
       \/ /\ torn' = IF had[p] /\ doc[p] \notin package THEN torn \cup {doc[p]} ELSE torn
          /\ UNCHANGED package
    /\ had' = [had EXCEPT ![p] = FALSE]
    /\ pc' = [pc EXCEPT ![p] = "fetch"]
    /\ UNCHANGED <<edinet, rows, facts, now, scrape, todo, doc, year, stamp, parse>>

\* updated_at is read before the statement waits for the write lock.
ReadClock(p) ==
    /\ pc[p] = "stamp"
    /\ stamp' = [stamp EXCEPT ![p] = now]
    /\ pc' = [pc EXCEPT ![p] = "record"]
    /\ UNCHANGED <<edinet, store, scrape, todo, doc, year, had, parse, torn>>

Record(p) ==
    /\ pc[p] = "record"
    /\ now < MaxStamp
    /\ now' = now + 1
    /\ rows' = (rows \ RowOf(doc[p])) \cup {[doc |-> doc[p], year |-> year[p], at |-> stamp[p]]}
    /\ pc' = [pc EXCEPT ![p] = "fetch"]
    /\ UNCHANGED <<edinet, package, facts, scrape, todo, fetch, parse, torn>>

RecordFails(p) ==
    /\ pc[p] = "record"
    /\ pc' = [pc EXCEPT ![p] = "fetch"]
    /\ UNCHANGED <<edinet, store, scrape, todo, fetch, parse, torn>>

EndDownloads(p) ==
    /\ pc[p] = "fetch" /\ todo[p] = {}
    /\ year' = [year EXCEPT ![p] = UnknownYear]
    /\ pc' = [pc EXCEPT ![p] = "done"]
    /\ UNCHANGED <<edinet, store, scrape, todo, doc, had, stamp, parse, torn>>

(***************************************************************************)
(* parse-xbrl-financials.                                                  *)
(***************************************************************************)
BeginParse(p) ==
    /\ pc[p] \in Ended
    /\ \E from \in Ticker :
        /\ "from" \notin Option => \A t \in Ticker : from <= t
        /\ inputs' = [inputs EXCEPT ![p] = {r \in rows : DocOf(r.doc).ticker >= from}]
    /\ pc' = [pc EXCEPT ![p] = IF inputs'[p] = {} THEN "done" ELSE "load"]
    /\ UNCHANGED <<edinet, store, scrape, todo, fetch, queue, batch, torn>>

\* The ticker has rows in financial_items, which the query joins.
HasItems(t) == \E r \in facts[t].merged : r.doc \notin RawOnly

UpToDateOnce(t) == HasItems(t)
UpToDateOld(t) ==
    /\ HasItems(t)
    /\ \E r \in RowsOf(t, rows) : facts[t].at >= r.at
UpToDate(t) ==
    /\ HasItems(t)
    /\ \A r \in RowsOf(t, rows) : facts[t].at >= r.at

\* Unless --force: tickers whose facts are as new as their reports are skipped,
\* by the reports of now, not those loaded before.
SkipExisting(p) ==
    /\ pc[p] = "load"
    /\ \E force \in BOOLEAN :
        /\ force => "force" \in Option
        /\ queue' = [queue EXCEPT ![p] =
               {t \in Ticker : RowsOf(t, inputs[p]) # {} /\ (UpToDate(t) => force)}]
    /\ pc' = [pc EXCEPT ![p] = "parse"]
    /\ UNCHANGED <<edinet, store, scrape, todo, fetch, inputs, batch, torn>>

\* The next BatchSize tickers, in ticker order.
InBatch(p, t) ==
    t \in queue[p] /\ Cardinality({u \in queue[p] : u < t}) < BatchSize

LaterReversed(r, s) ==
    \/ r.year > s.year
    \/ r.year = s.year /\ r.at < s.at
    \/ r.year = s.year /\ r.at = s.at /\ r.doc > s.doc

\* Reports are merged in this order; later values replace earlier ones.
Later(r, s) ==
    \/ r.year > s.year
    \/ r.year = s.year /\ r.at > s.at
    \/ r.year = s.year /\ r.at = s.at /\ r.doc > s.doc

\* A ticker is read up to the first report that cannot be loaded, which ends
\* the command, or whose facts are unusable, which leaves the ticker alone.
Stops(p, t) ==
    {r \in RowsOf(t, inputs[p]) : r.doc \notin package \/ r.doc \in Unusable}
Fatal(p, t) ==
    \E r \in Stops(p, t) : r.doc \notin package /\ \A s \in Stops(p, t) : s # r => Later(s, r)

ParseBatch(p) ==
    /\ pc[p] = "parse" /\ queue[p] # {}
    /\ ~\E t \in Ticker : InBatch(p, t) /\ Fatal(p, t)
    /\ batch' = [batch EXCEPT ![p] = {t \in Ticker : InBatch(p, t) /\ Stops(p, t) = {}}]
    /\ queue' = [queue EXCEPT ![p] = {t \in @ : ~InBatch(p, t)}]
    /\ pc' = [pc EXCEPT ![p] = "write"]
    /\ UNCHANGED <<edinet, store, scrape, todo, fetch, inputs, torn>>

Abort(p) ==
    /\ pc' = [pc EXCEPT ![p] = "failed"]
    /\ found' = [found EXCEPT ![p] = {}]
    /\ existing' = [existing EXCEPT ![p] = {}]
    /\ todo' = [todo EXCEPT ![p] = {}]
    /\ inputs' = [inputs EXCEPT ![p] = {}]
    /\ queue' = [queue EXCEPT ![p] = {}]
    /\ batch' = [batch EXCEPT ![p] = {}]
    /\ year' = [year EXCEPT ![p] = UnknownYear]
    /\ had' = [had EXCEPT ![p] = FALSE]
    /\ UNCHANGED <<edinet, store, cursor, last, doc, stamp>>

\* One report that cannot be loaded ends the command before its batch is written.
ParseFails(p) ==
    /\ pc[p] = "parse"
    /\ \E t \in Ticker : InBatch(p, t) /\ Fatal(p, t)
    /\ Abort(p)
    /\ UNCHANGED torn

Merged(p, t) == {r \in RowsOf(t, inputs[p]) : r.doc \notin Silent}
Standing(R) ==
    {r \in R : ~\E s \in R : DocOf(s.doc).period = DocOf(r.doc).period /\ Later(s, r)}

\* The stamp of a write.  To merge the same reports again while no stamp was
\* taken or read since the last time gives a later stamp that none can tell
\* from it, and takes no tick of the bounded clock.
StampOf(p, t) ==
    IF /\ facts[t].merged = Merged(p, t) /\ facts[t].at = now - 1
       /\ \A q \in Run : pc[q] # "record"
    THEN facts[t].at ELSE now

\* One transaction; a ticker without facts keeps the ones it has.
WriteBatch(p) ==
    /\ pc[p] = "write"
    /\ facts' = [t \in Ticker |->
           IF t \in batch[p] /\ Merged(p, t) # {}
           THEN [merged |-> Merged(p, t), standing |-> Standing(Merged(p, t)), at |-> StampOf(p, t)]
           ELSE facts[t]]
    /\ facts' # facts => now < MaxStamp
    /\ now' = IF facts' = facts THEN now ELSE now + 1
    /\ batch' = [batch EXCEPT ![p] = {}]
    /\ pc' = [pc EXCEPT ![p] = "parse"]
    /\ UNCHANGED <<edinet, rows, package, scrape, todo, fetch, inputs, queue, torn>>

EndParse(p) ==
    /\ pc[p] = "parse" /\ queue[p] = {}
    /\ inputs' = [inputs EXCEPT ![p] = {}]
    /\ pc' = [pc EXCEPT ![p] = "done"]
    /\ UNCHANGED <<edinet, store, scrape, todo, fetch, queue, batch, torn>>

\* A failed request of the scan or a database error ends a command.
CommandFails(p) ==
    /\ pc[p] \in {"scan", "load", "write"}
    /\ Abort(p)
    /\ UNCHANGED torn

Kill(p) ==
    /\ pc[p] \in Active
    /\ torn' = IF pc[p] = "install" /\ had[p] /\ doc[p] \notin package
               THEN torn \cup {doc[p]} ELSE torn
    /\ Abort(p)

Init ==
    /\ today = 1 /\ filed = {} /\ withdrawn = {}
    /\ rows = {} /\ package = {} /\ now = 0
    /\ facts = [t \in Ticker |-> [merged |-> {}, standing |-> {}, at |-> 0]]
    /\ pc = [p \in Run |-> "idle"]
    /\ cursor = [p \in Run |-> 1] /\ last = [p \in Run |-> 1]
    /\ found = [p \in Run |-> {}] /\ existing = [p \in Run |-> {}]
    /\ todo = [p \in Run |-> {}]
    /\ doc = [p \in Run |-> NoDoc] /\ year = [p \in Run |-> UnknownYear]
    /\ had = [p \in Run |-> FALSE] /\ stamp = [p \in Run |-> 0]
    /\ inputs = [p \in Run |-> {}] /\ queue = [p \in Run |-> {}]
    /\ batch = [p \in Run |-> {}]
    /\ torn = {}

World == NextDay \/ (\E d \in Filing : File(d)) \/ (\E i \in Id : Withdraw(i))

Progress(p) ==
    \/ ScanDay(p) \/ Choose(p)
    \/ MoveAside(p) \/ Install(p) \/ ReadClock(p) \/ Record(p) \/ EndDownloads(p)
    \/ SkipExisting(p) \/ ParseBatch(p) \/ ParseFails(p) \/ WriteBatch(p) \/ EndParse(p)

Fault(p) ==
    DownloadFails(p) \/ InstallFails(p) \/ RecordFails(p) \/ CommandFails(p) \/ Kill(p)

Next ==
    \/ World
    \/ \E p \in Run : BeginScrape(p) \/ BeginSingle(p) \/ BeginParse(p) \/ Progress(p) \/ Fault(p)

Spec == Init /\ [][Next]_vars

(***************************************************************************)
(* For liveness: somebody keeps running the two commands, a command that   *)
(* can go on does, and at some point EDINET, the disk and the operator     *)
(* stop failing commands.                                                  *)
(***************************************************************************)
Fairness ==
    /\ \A p \in Run : SF_vars(BeginScrape(p)) /\ SF_vars(BeginParse(p)) /\ WF_vars(Progress(p))
    /\ <>[][\A p \in Run : ~Fault(p)]_vars

LiveSpec == Spec /\ Fairness
-----------------------------------------------------------------------------
Row == [doc : Id, year : Nat, at : Stamp]

\* The types of the tables, the directories and the commands' locals.
TypeOK ==
    /\ today \in Day /\ filed \subseteq Id /\ withdrawn \subseteq Id
    /\ rows \subseteq Row /\ package \subseteq Id /\ now \in Stamp /\ torn \subseteq Id
    /\ facts \in [Ticker -> [merged : SUBSET Row, standing : SUBSET Row, at : Stamp]]
    /\ pc \in [Run -> Ended \cup Active]
    /\ cursor \in [Run -> 1 .. LastDay + 1] /\ last \in [Run -> Day]
    /\ found \in [Run -> SUBSET Filing] /\ todo \in [Run -> SUBSET Filing]
    /\ existing \in [Run -> SUBSET Id] /\ doc \in [Run -> Id \cup {NoDoc}]
    /\ year \in [Run -> Nat] /\ had \in [Run -> BOOLEAN] /\ stamp \in [Run -> Stamp]
    /\ inputs \in [Run -> SUBSET Row]
    /\ queue \in [Run -> SUBSET Ticker] /\ batch \in [Run -> SUBSET Ticker]

\* With default options and one command at a time, each recorded report can be
\* read from disk, wherever commands fail or are killed: otherwise each later
\* parse would end at that report, and no scrape would fetch it again.
PackageOnDisk == \A r \in rows : r.doc \in package

\* Whatever commands overlap, a recorded package is missing only while a
\* command replaces it or if that command died or could not move it back.
PackageKept ==
    \A r \in rows :
        \/ r.doc \in package \cup torn
        \/ \E p \in Run : pc[p] = "install" /\ had[p] /\ doc[p] = r.doc

\* The values of a report that has a stored correction do not stand, unless the
\* correction has been withdrawn.
CorrectionWins ==
    \A t \in Ticker : \A r \in facts[t].standing, c \in facts[t].merged :
        DocOf(c.doc).correction /\ DocOf(c.doc).parent = r.doc => c.doc \in withdrawn

\* If commands do not overlap, a parse skips a ticker only if its facts were
\* made from each report recorded for it.
NoStaleSkip ==
    [][\A p \in Run : pc[p] = "load" /\ pc'[p] = "parse" =>
        \A r \in inputs[p] : DocOf(r.doc).ticker \notin queue'[p] =>
            r \in facts[DocOf(r.doc).ticker].merged \/ r.doc \in Silent]_vars

InForce == Effective({d \in Filing : d.id \in filed \ withdrawn /\ Resolved(d)})

\* Each report in force that is about a known stock is merged in the end, whatever failed on the way, if
\* the ticker has no unusable report.
EventuallyMerged ==
    <>[](\A d \in InForce :
            \/ \E r \in facts[d.ticker].merged : r.doc = d.id
            \/ d.id \in Silent
            \/ \E i \in Unusable : DocOf(i).ticker = d.ticker)
=============================================================================
