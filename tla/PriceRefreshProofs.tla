------------------------- MODULE PriceRefreshProofs -------------------------
(***************************************************************************)
(* Proofs about PriceRefresh, for any number of processes, tickers, days   *)
(* and kinds of callers.                                                   *)
(***************************************************************************)
EXTENDS PriceRefresh, TLAPS

\* An empty database and one whose stocks all have a price are well typed.
LEMMA TypeAtStart == Init => TypeOK
<1>. USE CalendarAssumption, MarketAssumption DEF Day, Obs, CheckRow, DayCooldown
<1>1. NoCheck \in CheckRow
  BY DEF NoCheck, NoDay
<1>2. ASSUME Init, NEW o \in prices PROVE o \in Obs
  <2>1. o \in [ticker : InitialStock, date : {0}, source : {"stooq"}]
    BY <1>2 DEF Init
  <2>2. 0 \in Day /\ "stooq" \in {"stooq", "yahoo"}
    OBVIOUS
  <2>. QED  BY <2>1, <2>2
<1>. QED  BY <1>1, <1>2 DEF Init, TypeOK, Finished

\* The tables and the locals of refresh_prices keep their types.
THEOREM TypeCorrect == Spec => []TypeOK
<1>. USE CalendarAssumption, MarketAssumption DEF Day, Obs, CheckRow, DayCooldown
<1>1. Init => TypeOK
  BY TypeAtStart
<1>2. TypeOK /\ [Next]_vars => TypeOK'
  <2> SUFFICES ASSUME TypeOK, [Next]_vars PROVE TypeOK'
    OBVIOUS
  <2>. USE DEF TypeOK, clock, db, local, history, Active, Finished
  <2>1. CASE Tick
    <3>1. stooqCheck' \in CheckRow /\ refreshCheck' \in CheckRow
      BY <2>1 DEF Tick, Aged
    <3>2. today' \in Day /\ hour' \in 0 .. HoursPerDay - 1
      BY <2>1 DEF Tick
    <3>. QED  BY <2>1, <3>1, <3>2 DEF Tick
  <2>2. CASE StooqPublishes
    BY <2>2 DEF StooqPublishes
  <2>3. ASSUME NEW t \in Ticker, AddStock(t) PROVE TypeOK'
    BY <2>3 DEF AddStock
  <2>4. ASSUME NEW p \in Run, Begin(p) PROVE TypeOK'
    BY <2>4 DEF Begin
  <2>5. ASSUME NEW p \in Run, NeedStooq(p) PROVE TypeOK'
    BY <2>5 DEF NeedStooq
  <2>6. ASSUME NEW p \in Run, Download(p) PROVE TypeOK'
    BY <2>6 DEF Download
  <2>7. ASSUME NEW p \in Run, ReadKnown(p) PROVE TypeOK'
    BY <2>7 DEF ReadKnown
  <2>8. ASSUME NEW p \in Run, Ingest(p) PROVE TypeOK'
    BY <2>8 DEF Ingest
  <2>9. ASSUME NEW p \in Run, CommitStooq(p) PROVE TypeOK'
    <3>1. stooqCheck' \in CheckRow
      BY <2>9 DEF CommitStooq, Checked
    <3>2. prices' \subseteq Obs /\ quarantine' \subseteq Obs
      BY <2>9 DEF CommitStooq
    <3>3. lock' \in Run \cup {NoRun}
      BY <2>9 DEF CommitStooq, Unlocked
    <3>4. pending' \in [Run -> SUBSET Obs] /\ file' \in [Run -> SUBSET Obs]
      BY <2>9 DEF CommitStooq
    <3>5. known' \in [Run -> SUBSET Ticker]
      BY <2>9 DEF CommitStooq
    <3>6. ingested' \subseteq Day
      <4>1. target[p] \in Day
        OBVIOUS
      <4>. QED  BY <2>9, <4>1 DEF CommitStooq
    <3>. QED  BY <2>9, <3>1, <3>2, <3>3, <3>4, <3>5, <3>6 DEF CommitStooq
  <2>10. ASSUME NEW p \in Run, ReadStale(p) PROVE TypeOK'
    BY <2>10 DEF ReadStale, StaleTickers
  <2>11. ASSUME NEW p \in Run, ChooseFallback(p) PROVE TypeOK'
    BY <2>11 DEF ChooseFallback
  <2>12. ASSUME NEW p \in Run, NEW t \in Ticker, Quote(p, t) PROVE TypeOK'
    BY <2>12 DEF Quote
  <2>13. ASSUME NEW p \in Run, NEW t \in Ticker, QuoteFails(p, t) PROVE TypeOK'
    BY <2>13 DEF QuoteFails
  <2>14. ASSUME NEW p \in Run, RereadStale(p) PROVE TypeOK'
    BY <2>14 DEF RereadStale, StaleTickers
  <2>15. ASSUME NEW p \in Run, RecordCheck(p) PROVE TypeOK'
    BY <2>15 DEF RecordCheck, Finish, Checked, Unlocked, View
  <2>16. ASSUME NEW p \in Run, LeaveUnresolved(p) PROVE TypeOK'
    BY <2>16 DEF LeaveUnresolved, Finish, Unlocked, View
  <2>17. ASSUME NEW p \in Run, Abandon(p) PROVE TypeOK'
    BY <2>17 DEF Abandon, Unlocked
  <2>18. CASE UNCHANGED vars
    BY <2>18 DEF vars
  <2>. QED
    BY <2>1, <2>2, <2>3, <2>4, <2>5, <2>6, <2>7, <2>8, <2>9, <2>10, <2>11, <2>12,
       <2>13, <2>14, <2>15, <2>16, <2>17, <2>18
       DEF Next, World, Step, Progress, QuoteTooOld, Fault, SourceFails, LockTimeout, Kill
<1>. QED  BY <1>1, <1>2, PTL DEF Spec

\* Uncommitted rows and the write lock go together: nobody else's transaction
\* can be open while a run holds rows, and no ending of a run keeps the lock.
LockDiscipline ==
    /\ \A p \in Run : pending[p] # {} => lock = p
    /\ lock # NoRun => pc[lock] \in {"commit", "yahoo", "record"}

LEMMA LockHeld == Spec => []LockDiscipline
<1>. USE MarketAssumption DEF LockDiscipline
<1>1. Init => LockDiscipline
  BY DEF Init
<1>2. TypeOK /\ LockDiscipline /\ [Next]_vars => LockDiscipline'
  <2> SUFFICES ASSUME TypeOK, LockDiscipline, [Next]_vars PROVE LockDiscipline'
    OBVIOUS
  <2>0. /\ pc \in [Run -> Finished \cup Active] /\ pending \in [Run -> SUBSET Obs]
        /\ lock \in Run \cup {NoRun}
    BY DEF TypeOK
  <2>. USE <2>0 DEF clock, db, local, history
  <2>1. CASE World
    BY <2>1 DEF World, Tick, StooqPublishes, AddStock
  <2>2. ASSUME NEW p \in Run, Begin(p) PROVE LockDiscipline'
    <3>1. lock # p
      BY <2>2 DEF Begin, Finished
    <3>. QED  BY <2>2, <3>1 DEF Begin
  <2>3. ASSUME NEW p \in Run, NeedStooq(p) PROVE LockDiscipline'
    BY <2>3 DEF NeedStooq
  <2>4. ASSUME NEW p \in Run, Download(p) \/ ReadKnown(p) PROVE LockDiscipline'
    BY <2>4 DEF Download, ReadKnown
  <2>5. ASSUME NEW p \in Run, Ingest(p) PROVE LockDiscipline'
    BY <2>5 DEF Ingest
  <2>6. ASSUME NEW p \in Run, CommitStooq(p) PROVE LockDiscipline'
    BY <2>6 DEF CommitStooq, Unlocked
  <2>7. ASSUME NEW p \in Run, ReadStale(p) \/ ChooseFallback(p) PROVE LockDiscipline'
    BY <2>7 DEF ReadStale, ChooseFallback
  <2>8. ASSUME NEW p \in Run, NEW t \in Ticker, Quote(p, t) PROVE LockDiscipline'
    BY <2>8 DEF Quote, MayWrite
  <2>9. ASSUME NEW p \in Run, NEW t \in Ticker, QuoteFails(p, t) PROVE LockDiscipline'
    BY <2>9 DEF QuoteFails
  <2>10. ASSUME NEW p \in Run, RereadStale(p) PROVE LockDiscipline'
    BY <2>10 DEF RereadStale
  <2>11. ASSUME NEW p \in Run, RecordCheck(p) \/ LeaveUnresolved(p) PROVE LockDiscipline'
    BY <2>11 DEF RecordCheck, LeaveUnresolved, Finish, Unlocked
  <2>12. ASSUME NEW p \in Run, Abandon(p) PROVE LockDiscipline'
    BY <2>12 DEF Abandon, Unlocked
  <2>13. CASE UNCHANGED vars
    BY <2>13 DEF vars
  <2>. QED
    BY <2>1, <2>2, <2>3, <2>4, <2>5, <2>6, <2>7, <2>8, <2>9, <2>10, <2>11, <2>12, <2>13
       DEF Next, Step, Progress, QuoteTooOld, Fault, SourceFails, LockTimeout, Kill
<1>. QED  BY <1>1, <1>2, TypeCorrect, PTL DEF Spec
-----------------------------------------------------------------------------
(***************************************************************************)
(* Everything a run carries from one step to the next speaks about known   *)
(* stocks: this is what keeps orphan rows out of prices.                   *)
(***************************************************************************)
CarriesKnown(p) ==
    /\ known[p] \subseteq stocks
    /\ stale[p] \subseteq stocks
    /\ todo[p] \subseteq stocks
    /\ seen[p] \subseteq stocks
    /\ \A o \in pending[p] : o.ticker \in stocks

KnownRows ==
    /\ NoOrphanPrices
    /\ vouched \subseteq stocks
    /\ \A p \in Run : CarriesKnown(p)

LEMMA KnownRowsInvariant == Spec => []KnownRows
<1>. USE DEF KnownRows, CarriesKnown, NoOrphanPrices
<1>1. Init => KnownRows
  BY MarketAssumption DEF Init
<1>2. TypeOK /\ KnownRows /\ [Next]_vars => KnownRows'
  <2> SUFFICES ASSUME TypeOK, KnownRows, [Next]_vars PROVE KnownRows'
    OBVIOUS
  <2>0. /\ file \in [Run -> SUBSET Obs] /\ known \in [Run -> SUBSET Ticker]
        /\ pending \in [Run -> SUBSET Obs]
        /\ stale \in [Run -> SUBSET Ticker] /\ todo \in [Run -> SUBSET Ticker]
        /\ seen \in [Run -> SUBSET Ticker]
    BY DEF TypeOK
  <2>. USE <2>0 DEF clock, db, local, history
  <2>1. CASE World
    BY <2>1 DEF World, Tick, StooqPublishes, AddStock
  <2>2. ASSUME NEW p \in Run, Begin(p) PROVE KnownRows'
    BY <2>2 DEF Begin
  <2>3. ASSUME NEW p \in Run, NeedStooq(p) \/ Download(p) \/ ReadKnown(p) PROVE KnownRows'
    BY <2>3 DEF NeedStooq, Download, ReadKnown
  <2>4. ASSUME NEW p \in Run, Ingest(p) PROVE KnownRows'
    BY <2>4 DEF Ingest
  <2>5. ASSUME NEW p \in Run, CommitStooq(p) PROVE KnownRows'
    BY <2>5 DEF CommitStooq
  <2>6. ASSUME NEW p \in Run, ReadStale(p) PROVE KnownRows'
    BY <2>6 DEF ReadStale, StaleTickers
  <2>7. ASSUME NEW p \in Run, ChooseFallback(p) PROVE KnownRows'
    BY <2>7 DEF ChooseFallback
  <2>8. ASSUME NEW p \in Run, NEW t \in Ticker, Quote(p, t) PROVE KnownRows'
    BY <2>8 DEF Quote
  <2>9. ASSUME NEW p \in Run, NEW t \in Ticker, QuoteFails(p, t) PROVE KnownRows'
    BY <2>9 DEF QuoteFails
  <2>10. ASSUME NEW p \in Run, RereadStale(p) PROVE KnownRows'
    BY <2>10 DEF RereadStale, StaleTickers
  <2>11. ASSUME NEW p \in Run, RecordCheck(p) \/ LeaveUnresolved(p) PROVE KnownRows'
    BY <2>11 DEF RecordCheck, LeaveUnresolved, Finish, View
  <2>12. ASSUME NEW p \in Run, Abandon(p) PROVE KnownRows'
    BY <2>12 DEF Abandon
  <2>13. CASE UNCHANGED vars
    BY <2>13 DEF vars
  <2>. QED
    BY <2>1, <2>2, <2>3, <2>4, <2>5, <2>6, <2>7, <2>8, <2>9, <2>10, <2>11, <2>12, <2>13
       DEF Next, Step, Progress, QuoteTooOld, Fault, SourceFails, LockTimeout, Kill
<1>. QED  BY <1>1, <1>2, TypeCorrect, PTL DEF Spec

\* Whatever stocks are added while a file is on its way, prices never holds a
\* row of a ticker that stock_entities lacks.
THEOREM NoOrphans == Spec => []NoOrphanPrices
BY KnownRowsInvariant, PTL DEF KnownRows
-----------------------------------------------------------------------------
\* A newer or larger set of prices makes no stock stale.
LEMMA FreshMonotone ==
    ASSUME NEW P, NEW Q, P \subseteq Q, NEW t, NEW d, Fresh(t, d, P)
    PROVE  Fresh(t, d, Q)
BY DEF Fresh

\* No step takes a committed price away.
LEMMA PricesGrow == ASSUME [Next]_vars PROVE prices \subseteq prices'
<1>. USE DEF clock, db, local, history
<1>1. CASE World
  BY <1>1 DEF World, Tick, StooqPublishes, AddStock
<1>2. ASSUME NEW p \in Run, Begin(p) PROVE prices \subseteq prices'
  BY <1>2 DEF Begin
<1>3. ASSUME NEW p \in Run, Progress(p) PROVE prices \subseteq prices'
  BY <1>3 DEF Progress, NeedStooq, Download, ReadKnown, Ingest, CommitStooq, ReadStale,
              ChooseFallback, Quote, QuoteTooOld, QuoteFails, RereadStale, RecordCheck,
              LeaveUnresolved, Finish, View
<1>4. ASSUME NEW p \in Run, Fault(p) PROVE prices \subseteq prices'
  BY <1>4 DEF Fault, QuoteTooOld, QuoteFails, SourceFails, LockTimeout, Kill, Abandon
<1>5. CASE UNCHANGED vars
  BY <1>5 DEF vars
<1>. QED  BY <1>1, <1>2, <1>3, <1>4, <1>5 DEF Next, Step

\* What a run carries is its own: no other run's step touches it.
LEMMA OwnState ==
    ASSUME TypeOK, NEW p \in Run, Step(p), NEW q \in Run, q # p
    PROVE  /\ pc'[q] = pc[q] /\ target'[q] = target[q] /\ stale'[q] = stale[q]
           /\ pending'[q] = pending[q] /\ seen'[q] = seen[q]
<1>. USE DEF TypeOK, clock, db, local, history
<1>1. CASE Begin(p)
  BY <1>1 DEF Begin
<1>2. CASE NeedStooq(p) \/ Download(p) \/ ReadKnown(p)
  BY <1>2 DEF NeedStooq, Download, ReadKnown
<1>3. CASE Ingest(p) \/ CommitStooq(p)
  BY <1>3 DEF Ingest, CommitStooq
<1>4. CASE ReadStale(p) \/ ChooseFallback(p) \/ RereadStale(p)
  BY <1>4 DEF ReadStale, ChooseFallback, RereadStale
<1>5. CASE \E t \in Ticker : Quote(p, t) \/ QuoteFails(p, t)
  BY <1>5 DEF Quote, QuoteTooOld, QuoteFails
<1>6. CASE RecordCheck(p) \/ LeaveUnresolved(p)
  BY <1>6 DEF RecordCheck, LeaveUnresolved, Finish
<1>7. CASE Abandon(p)
  BY <1>7 DEF Abandon
<1>. QED
  BY <1>1, <1>2, <1>3, <1>4, <1>5, <1>6, <1>7
     DEF Step, Progress, QuoteTooOld, Fault, SourceFails, LockTimeout, Kill

(***************************************************************************)
(* ReportComplete speaks of runs about to report.  It is inductive once it *)
(* covers the run that still compares its stale list with the newest price *)
(* date: between the list and the report only more prices can arrive.      *)
(***************************************************************************)
ListComplete(p) ==
    pc[p] \in {"compare", "record"} =>
        \A t \in seen[p] : t \in stale[p] \/ Fresh(t, target[p], View(p))

Vouching == CheckVouches /\ \A p \in Run : ListComplete(p)

\* A run's list stays complete as long as the run itself does not move.
LEMMA ListKept ==
    ASSUME NEW q \in Run, ListComplete(q), prices \subseteq prices',
           pc'[q] = pc[q], target'[q] = target[q], stale'[q] = stale[q],
           pending'[q] = pending[q], seen'[q] = seen[q]
    PROVE  ListComplete(q)'
<1>1. View(q) \subseteq View(q)'
  BY DEF View
<1>. QED  BY <1>1, FreshMonotone DEF ListComplete

LEMMA VouchingInvariant == Spec => []Vouching
<1>1. Init => Vouching
  BY DEF Init, Vouching, CheckVouches, ListComplete
<1>2. TypeOK /\ Vouching /\ [Next]_vars => Vouching'
  <2> SUFFICES ASSUME TypeOK, Vouching, [Next]_vars PROVE Vouching'
    OBVIOUS
  <2>. USE DEF Vouching
  <2>1. prices \subseteq prices'
    BY PricesGrow
  <2>2. ASSUME vouched' = vouched, refreshCheck'.target = refreshCheck.target
        PROVE  CheckVouches'
    BY <2>1, <2>2, FreshMonotone DEF CheckVouches
  <2>3. CASE World
    <3>1. refreshCheck'.target = refreshCheck.target /\ vouched' = vouched
      BY <2>3 DEF World, Tick, Aged, StooqPublishes, AddStock, db, history, TypeOK, CheckRow
    <3>2. ASSUME NEW q \in Run PROVE ListComplete(q)'
      <4>1. /\ pc'[q] = pc[q] /\ target'[q] = target[q] /\ stale'[q] = stale[q]
            /\ pending'[q] = pending[q] /\ seen'[q] = seen[q]
        BY <2>3 DEF World, Tick, StooqPublishes, AddStock, local, history
      <4>. QED  BY <2>1, <4>1, ListKept
    <3>. QED  BY <2>2, <3>1, <3>2
  <2>4. ASSUME NEW p \in Run, Step(p) PROVE Vouching'
    <3>1. ASSUME NEW q \in Run, q # p PROVE ListComplete(q)'
      BY <2>1, <2>4, <3>1, OwnState, ListKept
    <3>2. ListComplete(p)'
      <4>. USE DEF ListComplete, TypeOK
      <4>1. CASE ReadStale(p)
        <5>1. ASSUME NEW t \in stocks, t \notin stale'[p]
              PROVE  Fresh(t, target'[p], View(p)')
          BY <4>1, <5>1 DEF ReadStale, StaleTickers, View, db, Fresh
        <5>. QED  BY <4>1, <5>1 DEF ReadStale
      <4>2. CASE ChooseFallback(p)
        <5>1. /\ pc[p] = "compare" /\ seen'[p] = seen[p] /\ stale'[p] = stale[p]
              /\ target'[p] = target[p] /\ View(p)' = View(p)
          BY <4>2 DEF ChooseFallback, View, db, history
        <5>. QED  BY <5>1
      <4>3. CASE RereadStale(p)
        <5>1. View(p)' = View(p) /\ target' = target /\ seen'[p] = stocks
          BY <4>3 DEF RereadStale, View, db
        <5>2. stale'[p] = {t \in stocks : ~Fresh(t, target[p], View(p))}
          BY <4>3 DEF RereadStale, StaleTickers
        <5>. QED  BY <5>1, <5>2
      <4>4. pc'[p] \in {"compare", "record"} =>
                ReadStale(p) \/ ChooseFallback(p) \/ RereadStale(p)
        BY <2>4 DEF Step, Begin, Progress, NeedStooq, Download, ReadKnown, Ingest,
                    CommitStooq, Quote, RecordCheck, LeaveUnresolved, Finish, Fault,
                    QuoteTooOld, QuoteFails, SourceFails, LockTimeout, Kill, Abandon
      <4>. QED  BY <4>1, <4>2, <4>3, <4>4
    <3>3. CheckVouches'
      <4>1. CASE RecordCheck(p)
        <5>1. /\ vouched' = seen[p] /\ prices' = View(p)
              /\ refreshCheck'.target = target[p]
              /\ pc[p] = "record" /\ stale[p] = {}
          BY <4>1 DEF RecordCheck, Finish, Checked
        <5>. QED  BY <5>1 DEF CheckVouches, ListComplete
      <4>2. CASE ~RecordCheck(p)
        <5>1. vouched' = vouched /\ refreshCheck' = refreshCheck
          BY <2>4, <4>2
             DEF Step, Begin, Progress, NeedStooq, Download, ReadKnown, Ingest, CommitStooq,
                 ReadStale, ChooseFallback, Quote, RereadStale, LeaveUnresolved, Fault,
                 QuoteTooOld, QuoteFails, SourceFails, LockTimeout, Kill, Abandon, db, history
        <5>. QED  BY <2>2, <5>1
      <4>. QED  BY <4>1, <4>2
    <3>. QED  BY <3>1, <3>2, <3>3
  <2>5. CASE UNCHANGED vars
    <3>1. ASSUME NEW q \in Run PROVE ListComplete(q)'
      BY <2>1, <2>5, ListKept DEF vars, local, history
    <3>. QED  BY <2>2, <2>5, <3>1 DEF vars, db, history
  <2>. QED  BY <2>3, <2>4, <2>5 DEF Next
<1>. QED  BY <1>1, <1>2, TypeCorrect, PTL DEF Spec

\* A refresh is recorded as done only with each stock it scanned fresh, and
\* the record stays true whatever other runs do.
THEOREM ChecksVouch == Spec => []CheckVouches
BY VouchingInvariant, PTL DEF Vouching

\* No stock that a run scanned and left stale is missing from its report.
THEOREM ReportsComplete == Spec => []ReportComplete
<1>1. Vouching => ReportComplete
  BY DEF Vouching, ListComplete, ReportComplete
<1>. QED  BY <1>1, VouchingInvariant, PTL

\* --if-needed never skips a refresh that some stock needs, except for stocks
\* that came after a check row less than a day old.
THEOREM SkipsJustified == Spec => SkipJustified
<1> DEFINE Justified ==
        \A p \in Run : pc[p] # "skipped" /\ pc'[p] = "skipped" =>
            \A t \in stocks :
                \/ Fresh(t, target'[p], prices)
                \/ t \notin vouched /\ refreshCheck.age < DayCooldown
<1>1. TypeOK /\ CheckVouches /\ [Next]_vars => [Justified]_vars
  <2> SUFFICES ASSUME TypeOK, CheckVouches, Next,
                      NEW q \in Run, pc[q] # "skipped", pc'[q] = "skipped",
                      NEW t \in stocks
               PROVE  \/ Fresh(t, target'[q], prices)
                      \/ t \notin vouched /\ refreshCheck.age < DayCooldown
    BY DEF Justified
  <2>1. PICK p \in Run : Step(p)
    BY DEF Next, World, Tick, StooqPublishes, AddStock
  <2>2. p = q
    BY <2>1, OwnState
  <2>3. Begin(q)
    BY <2>1, <2>2 DEF TypeOK, Step, Progress, NeedStooq, Download, ReadKnown, Ingest,
       CommitStooq, ReadStale, ChooseFallback, Quote, RereadStale, RecordCheck,
       LeaveUnresolved, Finish, Fault, QuoteTooOld, QuoteFails, SourceFails, LockTimeout,
       Kill, Abandon
  <2>4. PICK d \in Day : target'[q] = d /\ Skippable(d)
    BY <2>3 DEF Begin, TypeOK
  <2>5. CASE StaleTickers(stocks, prices, d) = {}
    BY <2>4, <2>5 DEF StaleTickers
  <2>6. CASE Recent(refreshCheck, d, DayCooldown)
    BY <2>4, <2>6 DEF Recent, CheckVouches
  <2>. QED  BY <2>4, <2>5, <2>6 DEF Skippable
<1>2. [][Justified]_vars <=> SkipJustified
  BY PTL DEF SkipJustified, Justified
<1>. QED  BY <1>1, <1>2, TypeCorrect, ChecksVouch, PTL DEF Spec
-----------------------------------------------------------------------------
(***************************************************************************)
(* The runs implement the ledger.  The tables are mapped to themselves;    *)
(* what has to be shown is that each commit is one of the ledger's         *)
(* transactions, so where uncommitted rows come from matters: a run that   *)
(* commits a file holds rows of one day's file only, and one that ends a   *)
(* refresh holds Yahoo quotes only.                                        *)
(***************************************************************************)
Provenance(p) ==
    /\ pc[p] \in {"parse", "insert", "commit"} =>
           \E d \in Day : \A o \in file[p] : o.source = "stooq" /\ o.date = d
    /\ pc[p] = "commit" => pending[p] \subseteq file[p]
    /\ pc[p] # "commit" => \A o \in pending[p] : o.source = "yahoo"

LEMMA ProvenanceInvariant == Spec => [](\A p \in Run : Provenance(p))
<1> DEFINE Inv == \A p \in Run : Provenance(p)
<1>. USE DEF Provenance
<1>1. Init => Inv
  BY DEF Init
<1>2. TypeOK /\ LockDiscipline /\ Inv /\ [Next]_vars => Inv'
  <2> SUFFICES ASSUME TypeOK, LockDiscipline, Inv, [Next]_vars PROVE Inv'
    OBVIOUS
  <2>0. /\ pc \in [Run -> Finished \cup Active] /\ file \in [Run -> SUBSET Obs]
        /\ pending \in [Run -> SUBSET Obs] /\ published \in Day
    BY DEF TypeOK
  <2>01. \A p \in Run : pc[p] \notin {"commit", "yahoo", "record"} => pending[p] = {}
    BY MarketAssumption DEF LockDiscipline
  <2>. USE <2>0, <2>01 DEF clock, db, local, history
  <2>1. CASE World
    BY <2>1 DEF World, Tick, StooqPublishes, AddStock
  <2>2. ASSUME NEW p \in Run, Begin(p) \/ NeedStooq(p) PROVE Inv'
    BY <2>2 DEF Begin, NeedStooq, Finished
  <2>3. ASSUME NEW p \in Run, Download(p) PROVE Inv'
    <3>1. \A o \in file'[p] : o.source = "stooq" /\ o.date = published
      BY <2>3 DEF Download
    <3>. QED  BY <2>3, <3>1 DEF Download
  <2>4. ASSUME NEW p \in Run, ReadKnown(p) PROVE Inv'
    BY <2>4 DEF ReadKnown
  <2>5. ASSUME NEW p \in Run, Ingest(p) PROVE Inv'
    BY <2>5 DEF Ingest
  <2>6. ASSUME NEW p \in Run, CommitStooq(p) PROVE Inv'
    BY <2>6 DEF CommitStooq
  <2>7. ASSUME NEW p \in Run, ReadStale(p) \/ ChooseFallback(p) PROVE Inv'
    BY <2>7 DEF ReadStale, ChooseFallback
  <2>8. ASSUME NEW p \in Run, NEW t \in Ticker, Quote(p, t) PROVE Inv'
    BY <2>8 DEF Quote
  <2>9. ASSUME NEW p \in Run, NEW t \in Ticker, QuoteFails(p, t) PROVE Inv'
    BY <2>9 DEF QuoteFails
  <2>10. ASSUME NEW p \in Run, RereadStale(p) PROVE Inv'
    BY <2>10 DEF RereadStale
  <2>11. ASSUME NEW p \in Run, RecordCheck(p) \/ LeaveUnresolved(p) PROVE Inv'
    BY <2>11 DEF RecordCheck, LeaveUnresolved, Finish
  <2>12. ASSUME NEW p \in Run, Abandon(p) PROVE Inv'
    BY <2>12 DEF Abandon
  <2>13. CASE UNCHANGED vars
    BY <2>13 DEF vars
  <2>. QED
    BY <2>1, <2>2, <2>3, <2>4, <2>5, <2>6, <2>7, <2>8, <2>9, <2>10, <2>11, <2>12, <2>13
       DEF Next, Step, Progress, QuoteTooOld, Fault, SourceFails, LockTimeout, Kill
<1>. QED  BY <1>1, <1>2, TypeCorrect, LockHeld, PTL DEF Spec

\* Behind any number of interleaved, failing and dying runs a reader of the
\* database sees the whole transactions of PriceLedger and nothing else.
THEOREM LedgerImplemented == Spec => ImplementsLedger
<1>1. Init => Ledger!Init
  <2>1. Init => TypeOK
    BY TypeAtStart
  <2>. QED  BY <2>1 DEF Init, TypeOK, Ledger!Init, NoCheck, Ledger!NoCheck, NoDay,
              Ledger!NoDay, DayCooldown, Ledger!DayCooldown, Obs, Ledger!Obs, Day, Ledger!Day
<1>2. ASSUME TypeOK, KnownRows, Vouching, \A p \in Run : Provenance(p), [Next]_vars
      PROVE  [Ledger!Next]_(Ledger!vars)
  <2>. USE <1>2 DEF Ledger!vars
  <2> DEFINE Seen == <<stocks, prices, stooqCheck, refreshCheck, vouched>>
  <2>0. Obs = Ledger!Obs /\ Day = Ledger!Day
    BY DEF Obs, Ledger!Obs, Day, Ledger!Day
  <2>1. CASE Tick
    <3>1. Ledger!HourPasses
      BY <2>1 DEF Tick, Ledger!HourPasses, Aged, Ledger!Aged, DayCooldown, Ledger!DayCooldown
    <3>. QED  BY <3>1 DEF Ledger!Next
  <2>2. CASE StooqPublishes
    BY <2>2 DEF StooqPublishes, db, history
  <2>3. ASSUME NEW t \in Ticker, AddStock(t) PROVE Ledger!Next
    BY <2>3 DEF AddStock, Ledger!AddStock, Ledger!Next, history
  <2>4. ASSUME NEW p \in Run, CommitStooq(p) PROVE Ledger!Next
    <3>1. PICK d \in Day : \A o \in file[p] : o.source = "stooq" /\ o.date = d
      BY <2>4 DEF CommitStooq, Provenance
    <3>2. pending[p] \subseteq {o \in Obs : o.source = "stooq" /\ o.ticker \in stocks}
      BY <2>4, <3>1 DEF CommitStooq, Provenance, TypeOK, KnownRows, CarriesKnown
    <3>3. \A o \in pending[p] : o.date = d
      BY <2>4, <3>1 DEF CommitStooq, Provenance
    <3>4. Ledger!Store("stooq", Day)
      BY <2>4, <2>0, <3>2, <3>3 DEF CommitStooq, Ledger!Store
    <3>5. \E c \in Day : stooqCheck' = Ledger!Checked(c)
      BY <2>4 DEF CommitStooq, TypeOK, Checked, Ledger!Checked
    <3>. QED  BY <2>0, <2>4, <3>4, <3>5 DEF CommitStooq, Ledger!StoreFile, Ledger!Next
  <2>5. ASSUME NEW p \in Run, pc[p] = "record", prices' = View(p), stocks' = stocks
        PROVE  Ledger!Store("yahoo", Ledger!Day)
    <3>1. pending[p] \subseteq {o \in Obs : o.source = "yahoo" /\ o.ticker \in stocks}
      BY <2>5 DEF Provenance, TypeOK, KnownRows, CarriesKnown
    <3>2. 0 \in Day
      BY CalendarAssumption DEF Day
    <3>. QED  BY <2>0, <2>5, <3>1, <3>2 DEF Ledger!Store, View
  <2>6. ASSUME NEW p \in Run, RecordCheck(p) PROVE Ledger!Next
    <3>1. /\ pc[p] = "record" /\ stale[p] = {} /\ prices' = View(p)
          /\ stocks' = stocks /\ stooqCheck' = stooqCheck
          /\ refreshCheck' = Checked(target[p]) /\ vouched' = seen[p]
      BY <2>6 DEF RecordCheck, Finish
    <3>2. target[p] \in Day /\ seen[p] \in SUBSET stocks
      BY DEF TypeOK, KnownRows, CarriesKnown
    <3>3. \A t \in seen[p] : Ledger!Fresh(t, target[p], prices')
      BY <3>1 DEF Vouching, ListComplete, Fresh, Ledger!Fresh
    <3>4. Ledger!Confirm
      BY <2>0, <2>5, <3>1, <3>2, <3>3 DEF Ledger!Confirm, Checked, Ledger!Checked
    <3>. QED  BY <3>4 DEF Ledger!Next
  <2>7. ASSUME NEW p \in Run, LeaveUnresolved(p) PROVE Ledger!Next
    <3>1. /\ pc[p] = "record" /\ prices' = View(p) /\ stocks' = stocks
          /\ UNCHANGED <<stooqCheck, refreshCheck, vouched>>
      BY <2>7 DEF LeaveUnresolved, Finish
    <3>. QED  BY <2>5, <3>1 DEF Ledger!StoreQuotes, Ledger!Next
  <2>8. ASSUME NEW p \in Run, Step(p),
               ~(CommitStooq(p) \/ RecordCheck(p) \/ LeaveUnresolved(p))
        PROVE  UNCHANGED Seen
    BY <2>8 DEF Step, Begin, Progress, NeedStooq, Download, ReadKnown, Ingest, ReadStale,
       ChooseFallback, Quote, RereadStale, Fault, QuoteTooOld, QuoteFails, SourceFails, LockTimeout, Kill,
       Abandon, db, history
  <2>9. CASE UNCHANGED vars
    BY <2>9 DEF vars, db, history
  <2>. QED
    BY <2>1, <2>2, <2>3, <2>4, <2>6, <2>7, <2>8, <2>9 DEF Next, World
<1>. QED
  BY <1>1, <1>2, TypeCorrect, KnownRowsInvariant, VouchingInvariant, ProvenanceInvariant, PTL
     DEF Spec, ImplementsLedger, Ledger!Spec
-----------------------------------------------------------------------------
(***************************************************************************)
(* The gate of the Yahoo fallback.  A row that opens it is Stooq's own or  *)
(* a quote that overran; every other Yahoo row was taken by a run whose    *)
(* gate such a row had opened, at a date no newer.                         *)
(***************************************************************************)
Opens(o) == o.source = "stooq" \/ o \in overran
Open(d) == \E o \in prices : o.date >= d /\ Opens(o)

Gated(p) ==
    /\ pc[p] = "yahoo" => Open(target[p])
    /\ \A o \in pending[p] : Opens(o) \/ Open(o.date)

Gate ==
    /\ \A o \in prices : Open(o.date)
    /\ \A p \in Run : Gated(p)

\* An open gate stays open for its date and those before it.
LEMMA OpenKept ==
    ASSUME prices \subseteq prices', overran \subseteq overran',
           NEW d, Open(d)
    PROVE  Open(d)'
BY DEF Open, Opens

LEMMA OpenBefore ==
    ASSUME TypeOK, NEW d \in Day, NEW e \in Day, Open(d), e <= d
    PROVE  Open(e)
BY CalendarAssumption DEF Open, TypeOK, Obs, Day

\* No step forgets that a quote overran.
LEMMA OverranGrows == ASSUME [Next]_vars PROVE overran \subseteq overran'
<1>. USE DEF clock, db, local, history
<1>1. CASE World
  BY <1>1 DEF World, Tick, StooqPublishes, AddStock
<1>2. ASSUME NEW p \in Run, Step(p) PROVE overran \subseteq overran'
  BY <1>2 DEF Step, Begin, Progress, NeedStooq, Download, ReadKnown, Ingest, CommitStooq,
     ReadStale, ChooseFallback, Quote, RereadStale, RecordCheck, LeaveUnresolved, Finish,
     Fault, QuoteTooOld, QuoteFails, SourceFails, LockTimeout, Kill, Abandon
<1>3. CASE UNCHANGED vars
  BY <1>3 DEF vars
<1>. QED  BY <1>1, <1>2, <1>3 DEF Next

LEMMA GateInvariant == Spec => []Gate
<1>1. Init => Gate
  <2> SUFFICES ASSUME Init PROVE Gate
    OBVIOUS
  <2>1. ASSUME NEW o \in prices PROVE Open(o.date)
    <3>1. o \in [ticker : InitialStock, date : {0}, source : {"stooq"}]
      BY DEF Init
    <3>. QED  BY <3>1 DEF Open, Opens
  <2>. QED  BY <2>1 DEF Init, Gate, Gated
<1>2. TypeOK /\ TypeOK' /\ (\A p \in Run : Provenance(p)) /\ Gate /\ [Next]_vars => Gate'
  <2> SUFFICES ASSUME TypeOK, TypeOK', \A p \in Run : Provenance(p), Gate, [Next]_vars
               PROVE  Gate'
    OBVIOUS
  <2>1. prices \subseteq prices' /\ overran \subseteq overran'
    BY PricesGrow, OverranGrows
  <2>2. \A o \in prices : Open(o.date)'
    BY <2>1, OpenKept DEF Gate
  <2>3. ASSUME NEW q \in Run, pc'[q] = pc[q], target'[q] = target[q],
               pending'[q] = pending[q]
        PROVE  Gated(q)'
    BY <2>1, <2>3, OpenKept DEF Gate, Gated, Opens
  <2>4. CASE World
    BY <2>2, <2>3, <2>4 DEF Gate, World, Tick, StooqPublishes, AddStock, db, local
  <2>5. ASSUME NEW p \in Run, Step(p) PROVE Gate'
    <3>1. ASSUME NEW q \in Run, q # p PROVE Gated(q)'
      BY <2>3, <2>5, <3>1, OwnState
    <3>2. \A o \in prices' : o \in prices \/ o \in pending[p]
      BY <2>5 DEF Step, Begin, Progress, NeedStooq, Download, ReadKnown, Ingest,
         CommitStooq, ReadStale, ChooseFallback, Quote, RereadStale, RecordCheck,
         LeaveUnresolved, Finish, View, Fault, QuoteTooOld, QuoteFails, SourceFails, LockTimeout, Kill,
         Abandon, db
    <3>3. ASSUME NEW o \in prices' PROVE Open(o.date)'
      <4>1. CASE o \in prices
        BY <2>2, <4>1
      <4>2. CASE o \in pending[p] /\ Opens(o)
        <5>1. o.date \in Int /\ Opens(o)'
          BY <2>1, <4>2 DEF TypeOK, Obs, Day, Opens
        <5>. QED  BY <5>1 DEF Open
      <4>3. CASE o \in pending[p] /\ Open(o.date)
        BY <2>1, <4>3, OpenKept
      <4>. QED  BY <3>2, <4>1, <4>2, <4>3 DEF Gate, Gated
    <3>4. Gated(p)'
      <4>. USE DEF TypeOK
      <4>1. CASE ChooseFallback(p)
        <5>1. CASE Lags(prices, target[p])
          <6>1. pc'[p] = "record"
            BY <4>1, <5>1 DEF ChooseFallback
          <6>2. pending' = pending
            BY <4>1 DEF ChooseFallback
          <6>. QED  BY <2>1, <6>1, <6>2, OpenKept DEF Gate, Gated, Opens
        <5>2. CASE ~Lags(prices, target[p])
          <6>1. PICK o \in prices : ~(o.date < target[p])
            BY <5>2 DEF Lags
          <6>2. o.date \in Day /\ target[p] \in Day
            BY DEF Obs
          <6>3. Open(target[p])
            BY <6>1, <6>2, OpenBefore, CalendarAssumption DEF Gate, Day
          <6>4. target' = target /\ pending' = pending
            BY <4>1 DEF ChooseFallback
          <6>. QED  BY <2>1, <6>3, <6>4, OpenKept DEF Gate, Gated, Opens
        <5>. QED  BY <5>1, <5>2
      <4>2. ASSUME NEW t \in Ticker, Quote(p, t) PROVE Gated(p)'
        <5>1. PICK q \in BusinessDay :
                /\ target[p] <= q
                /\ pending' = [pending EXCEPT ![p] =
                       @ \cup {[ticker |-> t, date |-> q, source |-> "yahoo"]}]
                /\ target[p] < q =>
                       [ticker |-> t, date |-> q, source |-> "yahoo"] \in overran'
          BY <4>2 DEF Quote
        <5>2. /\ pc' = pc /\ target' = target /\ pc[p] = "yahoo"
              /\ q \in Int /\ target[p] \in Int
          BY <4>2, CalendarAssumption DEF Quote, Day
        <5>3. Open(target[p])'
          BY <2>1, <5>2, OpenKept DEF Gate, Gated
        <5>4. ASSUME NEW o \in pending'[p] PROVE Opens(o)' \/ Open(o.date)'
          <6>1. CASE o \in pending[p]
            BY <2>1, <6>1, OpenKept DEF Gate, Gated, Opens
          <6>2. CASE o = [ticker |-> t, date |-> q, source |-> "yahoo"]
            BY <5>1, <5>2, <5>3, <6>2 DEF Opens
          <6>. QED  BY <5>1, <6>1, <6>2
        <5>. QED  BY <5>2, <5>3, <5>4 DEF Gated
      <4>3. CASE Ingest(p)
        <5>1. pc'[p] = "commit"
          BY <4>3 DEF Ingest
        <5>2. \A o \in pending'[p] : o.source = "stooq"
          BY <4>3 DEF Ingest, Provenance
        <5>. QED  BY <5>1, <5>2 DEF Gated, Opens
      <4>4. CASE (\E t \in Ticker : QuoteFails(p, t)) \/ RereadStale(p)
        <5>1. /\ pc'[p] = "yahoo" => pc[p] = "yahoo"
              /\ target'[p] = target[p] /\ pending'[p] = pending[p]
          BY <4>4 DEF QuoteFails, RereadStale
        <5>. QED  BY <2>1, <5>1, OpenKept DEF Gate, Gated, Opens
      <4>5. CASE Begin(p) \/ NeedStooq(p) \/ Download(p) \/ ReadKnown(p) \/ ReadStale(p)
        <5>1. pc'[p] # "yahoo" /\ pending'[p] = pending[p]
          BY <4>5 DEF Begin, NeedStooq, Download, ReadKnown, ReadStale, local
        <5>. QED  BY <2>1, <5>1, OpenKept DEF Gate, Gated, Opens
      <4>6. CASE CommitStooq(p) \/ RecordCheck(p) \/ LeaveUnresolved(p) \/ Abandon(p)
        <5>1. pc'[p] # "yahoo" /\ pending'[p] = {}
          BY <4>6 DEF CommitStooq, RecordCheck, LeaveUnresolved, Finish, Abandon
        <5>. QED  BY <5>1 DEF Gated
      <4>. QED
        BY <2>5, <4>1, <4>2, <4>3, <4>4, <4>5, <4>6
           DEF Step, Progress, QuoteTooOld, Fault, SourceFails, LockTimeout, Kill
    <3>. QED  BY <3>1, <3>3, <3>4 DEF Gate
  <2>6. CASE UNCHANGED vars
    BY <2>2, <2>3, <2>6 DEF Gate, vars, db, local
  <2>. QED  BY <2>4, <2>5, <2>6 DEF Next
<1>. QED  BY <1>1, <1>2, TypeCorrect, ProvenanceInvariant, PTL DEF Spec

\* No run asks Yahoo before Stooq has reached its target, except after a quote
\* that was taken past midnight; for callers of any kind, however many.
THEOREM YahooWaits == Spec => YahooAfterStooq
<1> DEFINE Waits ==
        \A p \in Run : pc[p] = "compare" /\ pc'[p] = "yahoo" =>
            \E o \in prices : o.date >= target[p] /\ (o.source = "stooq" \/ o \in overran)
<1>1. TypeOK /\ Gate /\ [Next]_vars => [Waits]_vars
  <2> SUFFICES ASSUME TypeOK, Gate, Next,
                      NEW q \in Run, pc[q] = "compare", pc'[q] = "yahoo"
               PROVE  Open(target[q])
    BY DEF Waits, Open, Opens
  <2>1. PICK p \in Run : Step(p)
    BY DEF Next, World, Tick, StooqPublishes, AddStock
  <2>2. p = q
    BY <2>1, OwnState
  <2>3. ChooseFallback(q)
    BY <2>1, <2>2 DEF TypeOK, Step, Begin, Finished, Progress, NeedStooq, Download,
       ReadKnown, Ingest, CommitStooq, ReadStale, Quote, RereadStale, RecordCheck,
       LeaveUnresolved, Finish, Fault, QuoteTooOld, QuoteFails, SourceFails, LockTimeout,
       Kill, Abandon
  <2>4. PICK o \in prices : ~(o.date < target[q])
    BY <2>3 DEF ChooseFallback, Lags, TypeOK
  <2>5. o.date \in Day /\ target[q] \in Day
    BY DEF TypeOK, Obs
  <2>. QED  BY <2>4, <2>5, OpenBefore, CalendarAssumption DEF Gate, Day
<1>2. [][Waits]_vars <=> YahooAfterStooq
  BY PTL DEF YahooAfterStooq, Waits
<1>. QED  BY <1>1, <1>2, TypeCorrect, GateInvariant, PTL DEF Spec
-----------------------------------------------------------------------------
(***************************************************************************)
(* The Stooq cooldown holds for default callers that come one at a time:   *)
(* their targets are business days before today and never go back, so the  *)
(* one check row is of the newest of them.  With a second caller at work a *)
(* run that began before midnight may write the older target back.         *)
(***************************************************************************)
OneRun == \A p, q \in Run : p = q
DefaultCallers == Mode \subseteq {"default"}

Cooled ==
    /\ stooqCheck.target < today
    /\ stooqCheck.target # NoDay => stooqCheck.target \in BusinessDay
    /\ ingested # {} => stooqCheck.age = 0
    /\ \A b \in ingested : b <= stooqCheck.target
    /\ \A p \in Run : pc[p] \in Active =>
           /\ target[p] \in BusinessDay /\ target[p] < today
           /\ stooqCheck.target <= target[p]

LEMMA CooledInvariant == ASSUME OneRun, DefaultCallers PROVE Spec => []Cooled
<1>. USE CalendarAssumption DEF Cooled, NoDay, Day
<1>1. Init => Cooled
  BY DEF Init, NoCheck, Active
<1>2. TypeOK /\ TypeOK' /\ Cooled /\ [Next]_vars => Cooled'
  <2> SUFFICES ASSUME TypeOK, TypeOK', Cooled, [Next]_vars PROVE Cooled'
    OBVIOUS
  <2>0. /\ today \in Day /\ target \in [Run -> Day] /\ pc \in [Run -> Finished \cup Active]
        /\ stooqCheck \in CheckRow /\ ingested \subseteq Day
        /\ stooqCheck.target \in Day \cup {NoDay}
    BY DEF TypeOK, CheckRow
  <2>1. ASSUME UNCHANGED <<stooqCheck, ingested>>, today' = today,
               \A p \in Run : pc'[p] \in Active => pc[p] \in Active /\ target'[p] = target[p]
        PROVE  Cooled'
    BY <2>1
  <2>2. CASE Tick
    <3>1. stooqCheck'.target = stooqCheck.target
      BY <2>0, <2>2 DEF Tick, Aged, CheckRow
    <3>2. today' \in Day /\ today <= today'
      BY <2>0, <2>2 DEF Tick
    <3>3. ingested' = {} /\ pc' = pc /\ target' = target
      BY <2>2 DEF Tick, local
    <3>. QED  BY <2>0, <3>1, <3>2, <3>3
  <2>3. CASE StooqPublishes \/ \E t \in Ticker : AddStock(t)
    BY <2>1, <2>3 DEF StooqPublishes, AddStock, clock, db, local, history
  <2>4. ASSUME NEW p \in Run, Begin(p) PROVE Cooled'
    <3>1. PICK d \in Day : IsLatestBusinessDay(d, today - 1) /\ target'[p] = d
      BY <2>0, <2>4, DefaultCallers DEF Begin, Request, DefaultCallers
    <3>2. d \in BusinessDay /\ d < today /\ stooqCheck.target <= d
      BY <2>0, <3>1 DEF IsLatestBusinessDay
    <3>3. UNCHANGED <<today, stooqCheck, ingested>>
      BY <2>4 DEF Begin, clock, db, history
    <3>. QED  BY <3>1, <3>2, <3>3, OneRun DEF OneRun
  <2>5. ASSUME NEW p \in Run, CommitStooq(p) PROVE Cooled'
    <3>1. /\ stooqCheck'.target = target[p] /\ stooqCheck'.age = 0
          /\ ingested' = ingested \cup {target[p]} /\ target' = target /\ today' = today
      BY <2>5 DEF CommitStooq, Checked, clock
    <3>2. target[p] \in BusinessDay /\ target[p] < today /\ stooqCheck.target <= target[p]
      BY <2>5 DEF CommitStooq, Active
    <3>3. \A b \in ingested' : b <= target[p]
      BY <2>0, <3>1, <3>2
    <3>4. \A q \in Run : target'[q] = target[p]
      BY <3>1, OneRun DEF OneRun
    <3>. QED  BY <2>0, <3>1, <3>2, <3>3, <3>4
  <2>6. ASSUME NEW p \in Run, Step(p), ~Begin(p), ~CommitStooq(p) PROVE Cooled'
    <3>1. UNCHANGED <<today, stooqCheck, ingested>>
      BY <2>6 DEF Step, Progress, NeedStooq, Download, ReadKnown, Ingest, ReadStale,
         ChooseFallback, Quote, RereadStale, RecordCheck, LeaveUnresolved, Finish, Fault,
         QuoteTooOld, QuoteFails, SourceFails, LockTimeout, Kill, Abandon, clock, db, history
    <3>2. target' = target
      BY <2>6 DEF Step, Progress, NeedStooq, Download, ReadKnown, Ingest, ReadStale,
         ChooseFallback, Quote, RereadStale, RecordCheck, LeaveUnresolved, Finish, Fault,
         QuoteTooOld, QuoteFails, SourceFails, LockTimeout, Kill, Abandon, local
    <3>3. \A q \in Run : pc'[q] \in Active => pc[q] \in Active
      BY <2>0, <2>6 DEF Step, Progress, NeedStooq, Download, ReadKnown, Ingest, ReadStale,
         ChooseFallback, Quote, RereadStale, RecordCheck, LeaveUnresolved, Finish, Fault,
         QuoteTooOld, QuoteFails, SourceFails, LockTimeout, Kill, Abandon, Active
    <3>. QED  BY <2>1, <3>1, <3>2, <3>3
  <2>7. CASE UNCHANGED vars
    BY <2>1, <2>7 DEF vars, clock, db, local, history
  <2>. QED  BY <2>2, <2>3, <2>4, <2>5, <2>6, <2>7 DEF Next, World, Step
<1>. QED  BY <1>1, <1>2, TypeCorrect, PTL DEF Spec

\* Default callers that come one at a time never fetch Stooq twice within the
\* hour for the same business day.
THEOREM CooldownKept ==
    ASSUME OneRun, DefaultCallers
    PROVE  Spec => StooqCooldownKept
<1> DEFINE Kept ==
        \A p \in Run : pc[p] = "check" /\ pc'[p] = "download" =>
            \A b \in ingested : ~IsLatestBusinessDay(b, target'[p])
<1>1. TypeOK /\ Cooled /\ [Next]_vars => [Kept]_vars
  <2> SUFFICES ASSUME TypeOK, Cooled, Next,
                      NEW q \in Run, pc[q] = "check", pc'[q] = "download",
                      NEW b \in ingested, IsLatestBusinessDay(b, target'[q])
               PROVE  FALSE
    BY DEF Kept
  <2>1. PICK p \in Run : Step(p)
    BY DEF Next, World, Tick, StooqPublishes, AddStock
  <2>2. NeedStooq(q)
    BY <2>1, OneRun DEF OneRun, TypeOK, Step, Begin, Finished, Progress, Download,
       ReadKnown, Ingest, CommitStooq, ReadStale, ChooseFallback, Quote, RereadStale,
       RecordCheck, LeaveUnresolved, Finish, Fault, QuoteTooOld, QuoteFails, SourceFails, LockTimeout,
       Kill, Abandon
  <2>3. target' = target /\ StooqRequired(target[q])
    BY <2>2 DEF NeedStooq, TypeOK, local
  <2>4. PICK c \in BusinessDay :
            /\ IsLatestBusinessDay(c, target[q])
            /\ ~Recent(stooqCheck, c, IF prices = {} THEN DayCooldown ELSE LaggedCooldown)
    BY <2>3 DEF StooqRequired
  <2>5. /\ target[q] \in BusinessDay /\ stooqCheck.target <= target[q]
        /\ b <= stooqCheck.target /\ stooqCheck.age = 0
    BY DEF Cooled, Active
  <2>6. /\ target[q] \in Int /\ b \in Int /\ c \in Int /\ stooqCheck.target \in Int
    BY CalendarAssumption DEF TypeOK, CheckRow, Day, NoDay
  <2>7. b = target[q] /\ c = target[q]
    BY <2>3, <2>4, <2>5, <2>6 DEF IsLatestBusinessDay
  <2>8. Recent(stooqCheck, c, IF prices = {} THEN DayCooldown ELSE LaggedCooldown)
    BY <2>5, <2>6, <2>7, CalendarAssumption DEF Recent, DayCooldown, LaggedCooldown
  <2>. QED  BY <2>4, <2>8
<1>2. [][Kept]_vars <=> StooqCooldownKept
  BY PTL DEF StooqCooldownKept, Kept
<1>. QED  BY <1>1, <1>2, TypeCorrect, CooledInvariant, PTL DEF Spec
=============================================================================
