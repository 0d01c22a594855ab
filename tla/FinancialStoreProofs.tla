------------------------ MODULE FinancialStoreProofs ------------------------
(***************************************************************************)
(* What stays true of a ticker's tables whatever commands interleave: the  *)
(* forecasts are of one edition, the computed EPS of one commit, and the   *)
(* EDINET tables are what the last store's reports give an empty database. *)
(* Nothing is assumed of the editions or the share counts; what the later  *)
(* theorems need of the reports is ScenarioAssumption.                     *)
(***************************************************************************)
EXTENDS FinancialStore, DataInduction, TLAPS

\* The columns that identify a value.
IsKey(k) ==
    k = [context |-> k.context, statement |-> k.statement, item |-> k.item, source |-> k.source]

IsForecast(k) == k.source = "shikiho" /\ k.item \in IncomeItem
IsEps(k) == k.source = "computed" /\ k.item \in EpsItem \cup {"eps"}

\* Two versions of the values agree on the keys that P picks out.
AgreeOn(v, w, K) ==
    \A k \in K : (k \in DOMAIN v <=> k \in DOMAIN w) /\ (k \in DOMAIN v => v[k] = w[k])

KeysOf(v, w) == DOMAIN v \cup DOMAIN w

LEMMA SameForecasts ==
    ASSUME NEW v, NEW w, AgreeOn(v, w, {k \in KeysOf(v, w) : IsForecast(k)})
    PROVE  /\ OldForecasts(v) = OldForecasts(w)
           /\ OfItems(v, OldForecasts(v)) = OfItems(w, OldForecasts(w))
           /\ Forecasts(v) = Forecasts(w)
           /\ \A count : EpsRows(v, count) = EpsRows(w, count)
<1>1. OldForecasts(v) = OldForecasts(w)
  BY DEF AgreeOn, KeysOf, OldForecasts, IsForecast
<1>2. OfItems(v, OldForecasts(v)) = OfItems(w, OldForecasts(w))
  BY <1>1 DEF AgreeOn, KeysOf, OldForecasts, IsForecast, OfItems
<1>3. Forecasts(v) = Forecasts(w)
  BY DEF AgreeOn, KeysOf, Forecasts, Canonical, IsForecast
<1>4. \A k \in Forecasts(w) : v[k] = w[k]
  BY DEF AgreeOn, KeysOf, Forecasts, Canonical, IsForecast
<1>5. ASSUME NEW count PROVE EpsRows(v, count) = EpsRows(w, count)
  <2>1. CASE count \in {Nil, 0}
    BY <2>1 DEF EpsRows
  <2>2. CASE count \notin {Nil, 0}
    <3>. DEFINE E == {EpsKey(k) : k \in Forecasts(w)}
                the(e) == CHOOSE k \in Forecasts(w) : EpsKey(k) = e
    <3>1. \A e \in E : the(e) \in Forecasts(w)
      OBVIOUS
    <3>2. \A e \in E : (1000 * v[the(e)]) \div count = (1000 * w[the(e)]) \div count
      BY <1>4, <3>1
    <3>. QED  BY <1>3, <2>2, <3>2 DEF EpsRows
  <2>. QED  BY <2>1, <2>2
<1>. QED  BY <1>1, <1>2, <1>3, <1>5

LEMMA SameEps ==
    ASSUME NEW v, NEW w, AgreeOn(v, w, {k \in KeysOf(v, w) : IsEps(k)})
    PROVE  OfItems(v, Computed(v)) = OfItems(w, Computed(w))
<1>1. Computed(v) = Computed(w)
  BY DEF AgreeOn, KeysOf, Computed, IsEps
<1>. QED  BY <1>1 DEF AgreeOn, KeysOf, Computed, IsEps, OfItems

LEMMA SameEdinet ==
    ASSUME NEW v, NEW w, AgreeOn(v, w, {k \in KeysOf(v, w) : k.source = "edinet_xbrl"})
    PROVE  OfItems(v, OfEdinet(v)) = OfItems(w, OfEdinet(w))
<1>1. OfEdinet(v) = OfEdinet(w)
  BY DEF AgreeOn, KeysOf, OfEdinet
<1>. QED  BY <1>1 DEF AgreeOn, KeysOf, OfEdinet, OfItems

\* The rows of an EPS computation are EPS.
LEMMA EpsRowsShape ==
    ASSUME NEW v, NEW count
    PROVE  /\ \A e \in DOMAIN EpsRows(v, count) : IsKey(e) /\ IsEps(e)
           /\ EpsRows(v, count) = OfItems(EpsRows(v, count), DOMAIN EpsRows(v, count))
<1>1. CASE count \in {Nil, 0}
  BY <1>1 DEF EpsRows, Empty, OfItems
<1>2. CASE count \notin {Nil, 0}
  <2>1. \A k \in Forecasts(v) : IsKey(EpsKey(k)) /\ IsEps(EpsKey(k))
    <3>1. SUFFICES ASSUME NEW k \in Forecasts(v) PROVE IsKey(EpsKey(k)) /\ IsEps(EpsKey(k))
      OBVIOUS
    <3>2. EpsOf[k.item] \in EpsItem
      BY DEF Forecasts, Canonical, EpsOf, IncomeItem, EpsItem
    <3>. QED  BY <3>2 DEF EpsKey, IsKey, IsEps
  <2>. QED  BY <1>2, <2>1 DEF EpsRows, OfItems
<1>. QED  BY <1>1, <1>2

\* The rows of a sync are forecasts.
LEMMA ForecastRowsShape ==
    ASSUME NEW f
    PROVE  /\ \A k \in DOMAIN ForecastRows(f) :
                  IsKey(k) /\ IsForecast(k) /\ k.statement = "forecast"
           /\ ForecastRows(f) = OfItems(ForecastRows(f), DOMAIN ForecastRows(f))
<1>1. \A p, item : item \in IncomeItem =>
          /\ IsKey(ForecastKey(p, item)) /\ IsForecast(ForecastKey(p, item))
          /\ ForecastKey(p, item).statement = "forecast"
  BY DEF IsKey, IsForecast, ForecastKey
<1>. QED  BY <1>1 DEF ForecastRows, IncomeItem, Empty, OfItems

\* Old rows S of a source are deleted and new rows inserted: other keys keep
\* their values, the new rows are in.
Replaced(v, S, rows) == Upserted(rows, Without(v, S))

Trades(v, S, rows, w) ==
    /\ DOMAIN w = DOMAIN rows \cup (DOMAIN v \ S)
    /\ \A k \in DOMAIN rows : w[k] = rows[k]
    /\ \A k \in (DOMAIN v \ S) \ DOMAIN rows : w[k] = v[k]
    /\ rows = OfItems(rows, DOMAIN rows) => OfItems(w, DOMAIN rows) = rows

LEMMA Replacing ==
    ASSUME NEW v, NEW rows, NEW S
    PROVE  Trades(v, S, rows, Replaced(v, S, rows))
<1>. DEFINE w == Replaced(v, S, rows)
<1>1. /\ DOMAIN w = DOMAIN rows \cup (DOMAIN v \ S)
      /\ \A k \in DOMAIN rows : w[k] = rows[k]
      /\ \A k \in (DOMAIN v \ S) \ DOMAIN rows : w[k] = v[k]
  BY DEF Upserted, Without, Replaced
<1>. QED  BY <1>1 DEF OfItems, Trades

-----------------------------------------------------------------------------
\* Every income of the handbook is stored as a forecast, which a sync of
\* dividends does not delete.
IncomesAreForecasts == \A k \in DOMAIN db.values : IsForecast(k) => k.statement = "forecast"

\* Beside what EpsOfOneCommit says: the tables as they are, and what a
\* compute-eps has read, have their EPS among those that were current.
EpsCurrent ==
    /\ EpsOfOneCommit
    /\ EpsRows(db.values, shares) \in current
    /\ eps.pc = "write" => eps.rows \in current
    /\ \A m \in current : (\A e \in DOMAIN m : IsEps(e)) /\ m = OfItems(m, DOMAIN m)

\* A parse has reports to read.
ParseReads == parse.pc \in {"read", "write"} => parse.reports # {}

TableNames == "values" \in DOMAIN db /\ EdinetTables \subseteq DOMAIN db

StoreSound ==
    /\ TableNames /\ IncomesAreForecasts /\ ParseReads
    /\ ForecastOfOneEdition /\ EpsCurrent /\ Rebuilt

\* A step that leaves the values, the share count and compute-eps alone.
LEMMA StoreUntouched ==
    ASSUME StoreSound, UNCHANGED <<scenario, db, shares, eps, stored, current>>, ParseReads'
    PROVE  StoreSound'
BY DEF StoreSound, TableNames, IncomesAreForecasts, ForecastOfOneEdition, EpsCurrent,
       EpsOfOneCommit, Rebuilt

\* A command that replaces values of another source than EDINET's.
LEMMA EdinetUntouched ==
    ASSUME TableNames, Rebuilt, NEW w, db' = [db EXCEPT !.values = w], UNCHANGED stored,
           AgreeOn(db.values, w, {k \in KeysOf(db.values, w) : k.source = "edinet_xbrl"})
    PROVE  TableNames' /\ db'.values = w /\ Rebuilt'
<1>1. TableNames' /\ db'.values = w /\ \A f \in EdinetTables : db'[f] = db[f]
  BY DEF TableNames, EdinetTables
<1>2. OfItems(w, OfEdinet(w)) = OfItems(db.values, OfEdinet(db.values))
  BY SameEdinet
<1>. QED  BY <1>1, <1>2 DEF Rebuilt

LEMMA SoundInitially == Init => StoreSound
<1> SUFFICES ASSUME Init PROVE StoreSound
  OBVIOUS
<1>1. /\ db.values = Empty /\ stored = {} /\ current = {Empty} /\ db = Tables
      /\ shares = Nil /\ eps.pc = "idle" /\ parse.pc = "idle"
  BY DEF Init, Tables, Idle
<1>2. /\ DOMAIN Empty = {} /\ \A S : S = {} => OfItems(Empty, S) = Empty
  BY DEF Empty, OfItems
<1>3. /\ OldForecasts(Empty) = {} /\ Computed(Empty) = {} /\ OfEdinet(Empty) = {}
  BY <1>2 DEF OldForecasts, Computed, OfEdinet
<1>4. TableNames
  BY <1>1 DEF TableNames, EdinetTables, Tables
<1>5. EpsRows(Empty, Nil) = Empty
  BY DEF EpsRows
<1>6. EpsCurrent
  BY <1>1, <1>2, <1>3, <1>5 DEF EpsCurrent, EpsOfOneCommit
<1>7. ForecastOfOneEdition
  BY <1>1, <1>2, <1>3 DEF ForecastOfOneEdition
<1>8. Rebuilt
  BY <1>1, <1>2, <1>3 DEF Rebuilt, Tables
<1>. QED
  BY <1>1, <1>2, <1>4, <1>6, <1>7, <1>8 DEF StoreSound, IncomesAreForecasts, ParseReads
-----------------------------------------------------------------------------
\* compute-eps replaces the EPS and nothing else.
LEMMA WriteEpsSound == StoreSound /\ WriteEps => StoreSound'
<1> SUFFICES ASSUME StoreSound, WriteEps PROVE StoreSound'
  OBVIOUS
<1>. DEFINE v == db.values  rows == eps.rows  w == Replaced(v, Computed(v), rows)
<1>1. rows \in current
  BY DEF StoreSound, EpsCurrent, WriteEps
<1>2. (\A e \in DOMAIN rows : IsEps(e)) /\ rows = OfItems(rows, DOMAIN rows)
  BY <1>1 DEF StoreSound, EpsCurrent
<1>3. \A k \in Computed(v) : IsEps(k)
  BY DEF Computed, IsEps
<1>4. /\ db' = [db EXCEPT !.values = w]
      /\ eps'.pc = "idle"
      /\ UNCHANGED <<scenario, shares, parse, stored, current>>
  BY DEF WriteEps, Idle, Replaced
<1>. HIDE DEF rows
<1>5. Trades(v, Computed(v), rows, w)
  BY Replacing
<1>. HIDE DEF w
<1>6. /\ DOMAIN w = DOMAIN rows \cup (DOMAIN v \ Computed(v))
      /\ \A k \in (DOMAIN v \ Computed(v)) \ DOMAIN rows : w[k] = v[k]
      /\ OfItems(w, DOMAIN rows) = rows
  BY <1>2, <1>5 DEF Trades
<1>7. \A k : IsEps(k) => ~IsForecast(k) /\ k.source # "edinet_xbrl"
  BY DEF IsEps, IsForecast
<1>8. /\ AgreeOn(v, w, {k \in KeysOf(v, w) : IsForecast(k)})
      /\ AgreeOn(v, w, {k \in KeysOf(v, w) : k.source = "edinet_xbrl"})
  BY <1>2, <1>3, <1>6, <1>7 DEF AgreeOn, KeysOf
<1>9. TableNames' /\ db'.values = w /\ Rebuilt'
  BY <1>4, <1>8, EdinetUntouched DEF StoreSound
<1>10. /\ OfItems(v, OldForecasts(v)) = OfItems(w, OldForecasts(w))
       /\ \A count : EpsRows(v, count) = EpsRows(w, count)
  BY <1>8, SameForecasts
<1>11. Computed(w) = DOMAIN rows
  BY <1>2, <1>6 DEF Computed, IsEps
<1>12. IncomesAreForecasts'
  BY <1>2, <1>6, <1>7, <1>9 DEF StoreSound, IncomesAreForecasts
<1>13. ForecastOfOneEdition'
  BY <1>4, <1>9, <1>10 DEF StoreSound, ForecastOfOneEdition
<1>14. EpsCurrent'
  BY <1>1, <1>4, <1>6, <1>9, <1>10, <1>11 DEF StoreSound, EpsCurrent, EpsOfOneCommit, rows
<1>. QED  BY <1>4, <1>9, <1>12, <1>13, <1>14 DEF StoreSound, ParseReads

\* compute-eps reads what is current, and a new share count makes EPS current.
LEMMA ReadSound ==
    StoreSound /\ (ReadEps \/ KillEps \/ \E count \in scenario.counts : SetShares(count))
    => StoreSound'
<1> SUFFICES ASSUME StoreSound,
                    ReadEps \/ KillEps \/ \E count \in scenario.counts : SetShares(count)
             PROVE  StoreSound'
  OBVIOUS
<1>0. UNCHANGED <<scenario, db, parse, stored>>
  BY DEF ReadEps, KillEps, SetShares
<1>1. CASE ReadEps
  <2>1. /\ eps'.rows = EpsRows(db.values, shares)
        /\ UNCHANGED <<shares, current>>
    BY <1>1 DEF ReadEps
  <2>2. EpsCurrent'
    BY <1>0, <2>1 DEF StoreSound, EpsCurrent, EpsOfOneCommit
  <2>. QED
    BY <1>0, <2>2 DEF StoreSound, TableNames, IncomesAreForecasts, ParseReads,
                      ForecastOfOneEdition, Rebuilt
<1>2. CASE KillEps
  <2>1. eps'.pc = "idle" /\ UNCHANGED <<shares, current>>
    BY <1>2 DEF KillEps, Idle
  <2>2. EpsCurrent'
    BY <1>0, <2>1 DEF StoreSound, EpsCurrent, EpsOfOneCommit
  <2>. QED
    BY <1>0, <2>2 DEF StoreSound, TableNames, IncomesAreForecasts, ParseReads,
                      ForecastOfOneEdition, Rebuilt
<1>3. ASSUME NEW count, SetShares(count)
      PROVE  StoreSound'
  <2>1. /\ shares' = count /\ current' = current \cup {EpsRows(db.values, count)}
        /\ UNCHANGED eps
    BY <1>3 DEF SetShares, Committed
  <2>2. /\ \A e \in DOMAIN EpsRows(db.values, count) : IsEps(e)
        /\ EpsRows(db.values, count)
               = OfItems(EpsRows(db.values, count), DOMAIN EpsRows(db.values, count))
    BY EpsRowsShape
  <2>3. EpsCurrent'
    BY <1>0, <2>1, <2>2 DEF StoreSound, EpsCurrent, EpsOfOneCommit
  <2>. QED
    BY <1>0, <2>3 DEF StoreSound, TableNames, IncomesAreForecasts, ParseReads,
                      ForecastOfOneEdition, Rebuilt
<1>. QED  BY <1>1, <1>2, <1>3

\* A sync of forecasts replaces them all by those of its edition.
LEMMA SyncForecastsSound ==
    ASSUME StoreSound, NEW e \in scenario.editions, SyncForecasts(e)
    PROVE  StoreSound'
<1>. DEFINE v == db.values
            rows == ForecastRows(e.forecasts)
            w == Replaced(v, OldForecasts(v), rows)
<1>1. /\ \A k \in DOMAIN rows : IsForecast(k) /\ k.statement = "forecast"
      /\ rows = OfItems(rows, DOMAIN rows)
  BY ForecastRowsShape
<1>2. \A k \in OldForecasts(v) : IsForecast(k)
  BY DEF OldForecasts, IsForecast
<1>3. /\ db' = [db EXCEPT !.values = w]
      /\ current' = current \cup {EpsRows(w, shares)}
      /\ UNCHANGED <<scenario, shares, parse, eps, stored>>
  BY DEF SyncForecasts, Committed, Replaced
<1>. HIDE DEF rows
<1>4. Trades(v, OldForecasts(v), rows, w)
  BY Replacing
<1>. HIDE DEF w
<1>5. /\ DOMAIN w = DOMAIN rows \cup (DOMAIN v \ OldForecasts(v))
      /\ \A k \in (DOMAIN v \ OldForecasts(v)) \ DOMAIN rows : w[k] = v[k]
      /\ OfItems(w, DOMAIN rows) = rows
  BY <1>1, <1>4 DEF Trades
<1>6. \A k : IsForecast(k) => ~IsEps(k) /\ k.source # "edinet_xbrl"
  BY DEF IsEps, IsForecast
<1>7. /\ AgreeOn(v, w, {k \in KeysOf(v, w) : IsEps(k)})
      /\ AgreeOn(v, w, {k \in KeysOf(v, w) : k.source = "edinet_xbrl"})
  BY <1>1, <1>2, <1>5, <1>6 DEF AgreeOn, KeysOf
<1>8. TableNames' /\ db'.values = w /\ Rebuilt'
  BY <1>3, <1>7, EdinetUntouched DEF StoreSound
<1>9. OfItems(v, Computed(v)) = OfItems(w, Computed(w))
  BY <1>7, SameEps
<1>10. OldForecasts(w) = DOMAIN rows
  BY <1>1, <1>5 DEF OldForecasts, IsForecast
<1>11. IncomesAreForecasts'
  BY <1>1, <1>5, <1>8 DEF StoreSound, IncomesAreForecasts
<1>12. ForecastOfOneEdition'
  <2>1. OfItems(w, OldForecasts(w)) = ForecastRows(e.forecasts)
    BY <1>5, <1>10 DEF rows
  <2>. QED  BY <1>3, <1>8, <2>1 DEF ForecastOfOneEdition
<1>13. /\ \A k \in DOMAIN EpsRows(w, shares) : IsEps(k)
       /\ EpsRows(w, shares) = OfItems(EpsRows(w, shares), DOMAIN EpsRows(w, shares))
  BY EpsRowsShape
<1>14. EpsCurrent'
  BY <1>3, <1>8, <1>9, <1>13 DEF StoreSound, EpsCurrent, EpsOfOneCommit
<1>. QED  BY <1>3, <1>8, <1>11, <1>12, <1>14 DEF StoreSound, ParseReads

\* A sync of dividends touches neither forecasts nor EPS nor EDINET's values.
LEMMA SyncDividendsSound ==
    ASSUME StoreSound, NEW e, SyncDividends(e)
    PROVE  StoreSound'
<1>. DEFINE v == db.values
            rows == [k \in {DividendKey(p) : p \in DOMAIN e.dividends} |->
                        e.dividends[k.context.period]]
            w == Replaced(v, OldDividends(v), rows)
<1>1. \A k \in DOMAIN rows : ~IsForecast(k) /\ ~IsEps(k) /\ k.source # "edinet_xbrl"
  BY DEF DividendKey, IsForecast, IncomeItem, IsEps
<1>2. \A k \in OldDividends(v) : ~IsForecast(k) /\ ~IsEps(k) /\ k.source # "edinet_xbrl"
  BY DEF OldDividends, IsEps, StoreSound, IncomesAreForecasts
<1>3. /\ db' = [db EXCEPT !.values = w]
      /\ UNCHANGED <<scenario, shares, parse, eps, stored, current>>
  BY DEF SyncDividends, Replaced
<1>. HIDE DEF rows
<1>4. Trades(v, OldDividends(v), rows, w)
  BY Replacing
<1>. HIDE DEF w
<1>5. /\ DOMAIN w = DOMAIN rows \cup (DOMAIN v \ OldDividends(v))
      /\ \A k \in (DOMAIN v \ OldDividends(v)) \ DOMAIN rows : w[k] = v[k]
  BY <1>4 DEF Trades
<1>6. /\ AgreeOn(v, w, {k \in KeysOf(v, w) : IsForecast(k)})
      /\ AgreeOn(v, w, {k \in KeysOf(v, w) : IsEps(k)})
      /\ AgreeOn(v, w, {k \in KeysOf(v, w) : k.source = "edinet_xbrl"})
  BY <1>1, <1>2, <1>5 DEF AgreeOn, KeysOf
<1>7. TableNames' /\ db'.values = w /\ Rebuilt'
  BY <1>3, <1>6, EdinetUntouched DEF StoreSound
<1>8. /\ OfItems(v, Computed(v)) = OfItems(w, Computed(w))
      /\ OfItems(v, OldForecasts(v)) = OfItems(w, OldForecasts(w))
      /\ \A count : EpsRows(v, count) = EpsRows(w, count)
  BY <1>6, SameEps, SameForecasts
<1>9. IncomesAreForecasts' /\ ForecastOfOneEdition' /\ EpsCurrent'
  BY <1>1, <1>3, <1>5, <1>7, <1>8
     DEF StoreSound, IncomesAreForecasts, ForecastOfOneEdition, EpsCurrent, EpsOfOneCommit
<1>. QED  BY <1>3, <1>7, <1>9 DEF StoreSound, ParseReads

\* The rows that EDINET's values become are EDINET's.
LEMMA EdinetValuesShape ==
    ASSUME NEW values
    PROVE  /\ \A k \in DOMAIN EdinetValues(values) : k.source = "edinet_xbrl"
           /\ EdinetValues(values) = OfItems(EdinetValues(values), DOMAIN EdinetValues(values))
BY DEF EdinetValues, Sourced, OfItems

\* A store leaves what the same reports give an empty database.
LEMMA StoreRebuilds ==
    ASSUME NEW reports, reports # {}, db' \in Stored(db, Parsed(reports)), stored' = reports
    PROVE  /\ TableNames' /\ Rebuilt'
           /\ db'.values = Replaced(db.values, OfEdinet(db.values),
                                    EdinetValues(Parsed(reports).values))
<1>. DEFINE parsed == Parsed(reports)
            E == EdinetValues(parsed.values)
            w == Replaced(db.values, OfEdinet(db.values), E)
            row(values, blocks) ==
                [values |-> values, raw |-> parsed.raw, edges |-> parsed.edges,
                 issuances |-> Issuances(parsed.classes), blocks |-> blocks,
                 instruments |-> Rows(parsed.instruments),
                 statuses |-> Rows(parsed.statuses), adjustments |-> Rows(parsed.adjustments)]
<1>1. PICK blocks \in Blocks(parsed.terms) :
          db' = [values |-> w, raw |-> parsed.raw, edges |-> parsed.edges,
                 defs |-> Upserted(Defs(parsed.classes, parsed.terms), db.defs),
                 issuances |-> Issuances(parsed.classes), blocks |-> blocks,
                 instruments |-> Rows(parsed.instruments),
                 statuses |-> Rows(parsed.statuses), adjustments |-> Rows(parsed.adjustments)]
  BY DEF Stored, StoredWith, Replaced
<1>. DEFINE t == [values |-> Upserted(E, Without(Tables.values, OfEdinet(Tables.values))),
                  raw |-> parsed.raw, edges |-> parsed.edges,
                  defs |-> Upserted(Defs(parsed.classes, parsed.terms), Tables.defs),
                  issuances |-> Issuances(parsed.classes), blocks |-> blocks,
                  instruments |-> Rows(parsed.instruments),
                  statuses |-> Rows(parsed.statuses), adjustments |-> Rows(parsed.adjustments)]
<1>2. t \in Stored(Tables, parsed)
  BY DEF Stored, StoredWith
<1>3. /\ \A k \in DOMAIN E : k.source = "edinet_xbrl"
      /\ E = OfItems(E, DOMAIN E)
  BY EdinetValuesShape
<1>4. /\ db'.values = w
      /\ TableNames'
      /\ \A f \in EdinetTables : db'[f] = t[f]
  BY <1>1 DEF TableNames, EdinetTables
<1>. HIDE DEF E, parsed
<1>5. Trades(db.values, OfEdinet(db.values), E, w)
  BY Replacing
<1>6. t.values = E
  <2>1. DOMAIN Tables.values = {}
    BY DEF Tables, Empty
  <2>2. /\ DOMAIN t.values = DOMAIN E
        /\ t.values = [k \in DOMAIN E |-> E[k]]
    BY <2>1 DEF Upserted, Without
  <2>. QED  BY <1>3, <2>2 DEF OfItems
<1>. HIDE DEF w, t
<1>7. OfItems(w, OfEdinet(w)) = E
  <2>1. OfEdinet(w) = DOMAIN E
    BY <1>3, <1>5 DEF Trades, OfEdinet
  <2>. QED  BY <1>3, <1>5, <2>1 DEF Trades
<1>8. Rebuilt'
  <2>1. stored' # {} /\ t \in Stored(Tables, Parsed(stored'))
    BY <1>2 DEF parsed
  <2>. QED  BY <1>4, <1>6, <1>7, <2>1 DEF Rebuilt
<1>. QED  BY <1>4, <1>8 DEF w, E, parsed

\* A store touches neither forecasts nor EPS; a colliding one touches nothing.
LEMMA WriteTickerSound == StoreSound /\ WriteTicker => StoreSound'
<1> SUFFICES ASSUME StoreSound, WriteTicker PROVE StoreSound'
  OBVIOUS
<1>1. parse.reports # {} /\ parse'.pc \in {"idle", "failed"}
  BY DEF StoreSound, ParseReads, WriteTicker, Idle
<1>2. UNCHANGED <<scenario, shares, eps, current>> /\ ParseReads'
  BY <1>1 DEF WriteTicker, ParseReads
<1>3. CASE Collide(Parsed(parse.reports).terms)
  BY <1>2, <1>3, StoreUntouched DEF WriteTicker
<1>4. CASE ~Collide(Parsed(parse.reports).terms)
  <2>. DEFINE v == db.values
              E == EdinetValues(Parsed(parse.reports).values)
              w == Replaced(v, OfEdinet(v), E)
  <2>1. db' \in Stored(db, Parsed(parse.reports)) /\ stored' = parse.reports
    BY <1>4 DEF WriteTicker
  <2>2. TableNames' /\ Rebuilt' /\ db'.values = w
    BY <1>1, <2>1, StoreRebuilds
  <2>3. \A k \in DOMAIN E : k.source = "edinet_xbrl"
    BY EdinetValuesShape
  <2>. HIDE DEF E
  <2>4. Trades(v, OfEdinet(v), E, w)
    BY Replacing
  <2>. HIDE DEF w
  <2>5. \A k : IsForecast(k) \/ IsEps(k) => k.source # "edinet_xbrl"
    BY DEF IsForecast, IsEps
  <2>6. /\ AgreeOn(v, w, {k \in KeysOf(v, w) : IsForecast(k)})
        /\ AgreeOn(v, w, {k \in KeysOf(v, w) : IsEps(k)})
    BY <2>3, <2>4, <2>5 DEF Trades, AgreeOn, KeysOf, OfEdinet
  <2>7. /\ OfItems(v, Computed(v)) = OfItems(w, Computed(w))
        /\ OfItems(v, OldForecasts(v)) = OfItems(w, OldForecasts(w))
        /\ \A count : EpsRows(v, count) = EpsRows(w, count)
    BY <2>6, SameEps, SameForecasts
  <2>8. IncomesAreForecasts'
    BY <2>2, <2>3, <2>4, <2>5 DEF Trades, StoreSound, IncomesAreForecasts
  <2>9. ForecastOfOneEdition' /\ EpsCurrent'
    BY <1>2, <2>2, <2>7 DEF StoreSound, ForecastOfOneEdition, EpsCurrent, EpsOfOneCommit
  <2>. QED  BY <1>2, <2>2, <2>8, <2>9 DEF StoreSound
<1>. QED  BY <1>3, <1>4

\* The other steps of a parse, a new report and the readers write no table.
LEMMA OthersSound ==
    ASSUME StoreSound,
           \/ \E r \in scenario.reports : Record(r)
           \/ BeginParse \/ ReadReports \/ KillParse \/ RunAgain
           \/ Screening \/ BalanceSheet
    PROVE  StoreSound'
<1>1. ASSUME NEW r \in scenario.reports, Record(r) PROVE StoreSound'
  BY <1>1, StoreUntouched DEF Record, ParseReads, StoreSound
<1>2. CASE BeginParse
  BY <1>2, StoreUntouched DEF BeginParse, Listed, ParseReads
<1>3. CASE ReadReports
  <2>1. \/ parse'.pc = "idle"
        \/ parse'.reports = parse.reports /\ parse.pc = "read"
    BY <1>3 DEF ReadReports, Idle
  <2>2. ParseReads'
    BY <2>1 DEF ParseReads, StoreSound
  <2>. QED  BY <1>3, <2>2, StoreUntouched DEF ReadReports
<1>4. CASE KillParse
  BY <1>4, StoreUntouched DEF KillParse, Idle, ParseReads
<1>5. CASE RunAgain
  BY <1>5, StoreUntouched DEF RunAgain, Idle, ParseReads
<1>6. CASE Screening
  <2>1. ScreenUnchanged
    BY <1>6 DEF Screening, SelectPlPeriod, SelectPeriodRows, SelectLatest, SelectShares,
                SelectHistory, SelectEquityPeriod, SelectInstruments, SelectStatus,
                SelectAdjustedPeriod, SelectAdjustments, Screened, At
  <2>. QED  BY <2>1, StoreUntouched DEF ScreenUnchanged, ParseReads, StoreSound
<1>7. CASE BalanceSheet
  <2>1. UNCHANGED <<scenario, db, shares, parse, eps, stored, current>>
    BY <1>7 DEF BalanceSheet, SelectSheetPeriods, SelectDocScope, SelectEdges, SelectValues,
                SelectTotal, Answered, SheetAt
  <2>. QED  BY <2>1, StoreUntouched DEF ParseReads, StoreSound
<1>. QED  BY <1>1, <1>2, <1>3, <1>4, <1>5, <1>6, <1>7

-----------------------------------------------------------------------------
LEMMA StoreSoundInvariant == Spec => []StoreSound
<1>1. StoreSound /\ [Next]_vars => StoreSound'
  <2> SUFFICES ASSUME StoreSound, [Next]_vars PROVE StoreSound'
    OBVIOUS
  <2>1. CASE ReadEps \/ KillEps \/ \E count \in scenario.counts : SetShares(count)
    BY <2>1, ReadSound
  <2>2. CASE WriteEps
    BY <2>2, WriteEpsSound
  <2>3. ASSUME NEW e \in scenario.editions, SyncForecasts(e) PROVE StoreSound'
    BY <2>3, SyncForecastsSound
  <2>4. ASSUME NEW e \in scenario.editions, SyncDividends(e) PROVE StoreSound'
    BY <2>4, SyncDividendsSound
  <2>5. CASE WriteTicker
    BY <2>5, WriteTickerSound
  <2>6. CASE \/ \E r \in scenario.reports : Record(r)
             \/ BeginParse \/ ReadReports \/ KillParse \/ RunAgain
             \/ Screening \/ BalanceSheet
    BY <2>6, OthersSound
  <2>7. CASE UNCHANGED vars
    BY <2>7, StoreUntouched DEF vars, ParseReads, StoreSound
  <2>. QED  BY <2>1, <2>2, <2>3, <2>4, <2>5, <2>6, <2>7 DEF Next
<1>. QED  BY <1>1, SoundInitially, PTL DEF Spec

\* The stored forecasts are those of one edition of the handbook, whatever
\* was synced before (sync_forecasts).
THEOREM ForecastsOfOneEdition == Spec => []ForecastOfOneEdition
<1>1. StoreSound => ForecastOfOneEdition
  BY DEF StoreSound
<1>. QED  BY <1>1, StoreSoundInvariant, PTL

\* The stored EPS divide the incomes and the share count of one commit, though
\* compute_eps reads them before its transaction.
THEOREM EpsConsistent == Spec => []EpsOfOneCommit
<1>1. StoreSound => EpsOfOneCommit
  BY DEF StoreSound, EpsCurrent
<1>. QED  BY <1>1, StoreSoundInvariant, PTL

\* The EDINET tables are what the last stored reports give an empty database:
\* write_ticker_in_tx leaves nothing of an earlier store.
THEOREM TablesRebuilt == Spec => []Rebuilt
<1>1. StoreSound => Rebuilt
  BY DEF StoreSound
<1>. QED  BY <1>1, StoreSoundInvariant, PTL
-----------------------------------------------------------------------------
(***************************************************************************)
(* The merging loop, by induction over the listing of the reports.         *)
(***************************************************************************)
Merges(g, list, N) ==
    g = [n \in 0 .. N |-> IF n = 0 THEN Empty ELSE Upserted(list[n].read.items, g[n - 1])]

\* The recursion of Merging has a solution, so Merging is one.
LEMMA MergesExist ==
    ASSUME NEW list, NEW N \in Nat
    PROVE  \E g : Merges(g, list, N)
<1> DEFINE H == {n \in Nat : \E g : Merges(g, list, n)}
<1>1. 0 \in H
  <2>1. Merges([n \in 0 .. 0 |-> Empty], list, 0)
    BY DEF Merges
  <2>. QED  BY <2>1
<1>2. ASSUME NEW n \in H PROVE n + 1 \in H
  <2>1. PICK g : Merges(g, list, n)
    OBVIOUS
  <2>. DEFINE h == [k \in 0 .. n + 1 |->
                       IF k <= n THEN g[k] ELSE Upserted(list[n + 1].read.items, g[n])]
  <2>2. ASSUME NEW k \in 0 .. n + 1
        PROVE  h[k] = IF k = 0 THEN Empty ELSE Upserted(list[k].read.items, h[k - 1])
    <3>1. \A j \in 0 .. n :
              g[j] = IF j = 0 THEN Empty ELSE Upserted(list[j].read.items, g[j - 1])
      BY <2>1 DEF Merges
    <3>2. CASE k <= n
      BY <3>1, <3>2
    <3>3. CASE k = n + 1
      BY <3>3
    <3>. QED  BY <3>2, <3>3
  <2>3. Merges(h, list, n + 1)
    BY <2>2 DEF Merges
  <2>. QED  BY <2>3
<1>3. H \subseteq Nat
  OBVIOUS
<1>. HIDE DEF H
<1>4. H = Nat
  BY <1>1, <1>2, <1>3, InductionBySet
<1>. QED  BY <1>4 DEF H

LEMMA MergingDefined ==
    ASSUME NEW list, Len(list) \in Nat
    PROVE  Merges(Merging(list), list, Len(list))
<1>1. \E g : Merges(g, list, Len(list))
  BY MergesExist
<1>2. Merging(list) = CHOOSE g : Merges(g, list, Len(list))
  BY DEF Merging, Merges
<1>. QED  BY <1>1, <1>2

\* Item i is stated by the j-th report of the list and by none of the first n
\* after it.
States(list, j, i) == i \in DOMAIN list[j].read.items
StatesLast(list, n, j, i) ==
    /\ j \in 1 .. n /\ States(list, j, i)
    /\ \A k \in 1 .. n : States(list, k, i) => k <= j

\* The first n reports merged: every item one of them states, with the value
\* of the last that does.
MergedFirstOf(g, list, n) ==
    \A i : /\ i \in DOMAIN g[n] <=> \E j \in 1 .. n : States(list, j, i)
           /\ i \in DOMAIN g[n] =>
                  \E j \in 1 .. n : StatesLast(list, n, j, i) /\ g[n][i] = list[j].read.items[i]

LEMMA MergeLoop ==
    ASSUME NEW list, NEW N \in Nat, NEW g, Merges(g, list, N)
    PROVE  MergedFirstOf(g, list, N)
<1> DEFINE H == {n \in Nat : n <= N => MergedFirstOf(g, list, n)}
<1>0. \A n \in 0 .. N :
          g[n] = IF n = 0 THEN Empty ELSE Upserted(list[n].read.items, g[n - 1])
  BY DEF Merges
<1>1. 0 \in H
  <2>1. DOMAIN g[0] = {}
    BY <1>0 DEF Empty
  <2>. QED  BY <2>1 DEF MergedFirstOf
<1>2. ASSUME NEW n \in H PROVE n + 1 \in H
  <2>1. SUFFICES ASSUME n + 1 <= N PROVE MergedFirstOf(g, list, n + 1)
    OBVIOUS
  <2>2. MergedFirstOf(g, list, n) /\ n \in Nat
    BY <2>1
  <2>3. g[n + 1] = Upserted(list[n + 1].read.items, g[n])
    BY <1>0, <2>1, <2>2
  <2>4. /\ DOMAIN g[n + 1] = DOMAIN list[n + 1].read.items \cup DOMAIN g[n]
        /\ \A i \in DOMAIN g[n + 1] :
               g[n + 1][i] = IF States(list, n + 1, i) THEN list[n + 1].read.items[i]
                             ELSE g[n][i]
    BY <2>3 DEF Upserted, States
  <2>5. ASSUME NEW i
        PROVE  /\ i \in DOMAIN g[n + 1] <=> \E j \in 1 .. n + 1 : States(list, j, i)
               /\ i \in DOMAIN g[n + 1] =>
                      \E j \in 1 .. n + 1 : /\ StatesLast(list, n + 1, j, i)
                                            /\ g[n + 1][i] = list[j].read.items[i]
    <3>1. i \in DOMAIN g[n + 1] <=> States(list, n + 1, i) \/ i \in DOMAIN g[n]
      BY <2>4 DEF States
    <3>2. i \in DOMAIN g[n] <=> \E j \in 1 .. n : States(list, j, i)
      BY <2>2 DEF MergedFirstOf
    <3>3. CASE States(list, n + 1, i)
      <4>1. StatesLast(list, n + 1, n + 1, i)
        BY <2>2, <3>3 DEF StatesLast
      <4>. QED  BY <2>2, <2>4, <3>1, <3>3, <4>1
    <3>4. CASE ~States(list, n + 1, i)
      <4>1. i \in DOMAIN g[n] <=> \E j \in 1 .. n + 1 : States(list, j, i)
        BY <2>2, <3>2, <3>4
      <4>2. ASSUME i \in DOMAIN g[n]
            PROVE  \E j \in 1 .. n + 1 : /\ StatesLast(list, n + 1, j, i)
                                         /\ g[n + 1][i] = list[j].read.items[i]
        <5>1. PICK j \in 1 .. n : StatesLast(list, n, j, i) /\ g[n][i] = list[j].read.items[i]
          BY <2>2, <4>2 DEF MergedFirstOf
        <5>2. StatesLast(list, n + 1, j, i) /\ j \in 1 .. n + 1
          BY <2>2, <3>4, <5>1 DEF StatesLast
        <5>. QED  BY <2>4, <3>1, <3>4, <4>2, <5>1, <5>2
      <4>. QED  BY <3>1, <3>4, <4>1, <4>2
    <3>. QED  BY <3>3, <3>4
  <2>. QED  BY <2>5 DEF MergedFirstOf
<1>3. H \subseteq Nat
  OBVIOUS
<1>. HIDE DEF H
<1>4. H = Nat
  BY <1>1, <1>2, <1>3, InductionBySet
<1>. QED  BY <1>4 DEF H

-----------------------------------------------------------------------------
\* Reports with distinct documents and dates that can be compared.
Dated(R) ==
    /\ IsFiniteSet(R)
    /\ \A r \in R : r.year \in Int /\ r.updated \in Int /\ r.doc \in Int
    /\ \A r, q \in R : r.doc = q.doc => r = q

\* What Before says, as a set of pairs.
Earlier(R) == {p \in R \X R : Before(p[1], p[2])}

LEMMA BeforeOrders ==
    ASSUME NEW R, Dated(R)
    PROVE  /\ Orders(Earlier(R), R)
           /\ \A r, s \in R : <<r, s>> \in Earlier(R) <=> Before(r, s)
<1>1. \A r, s \in R : <<r, s>> \in Earlier(R) <=> Before(r, s)
  BY DEF Earlier
<1>2. \A r \in R : ~Before(r, r)
  BY DEF Dated, Before
<1>3. \A r, s, t \in R : Before(r, s) /\ Before(s, t) => Before(r, t)
  BY DEF Dated, Before
<1>4. \A r, s \in R : r = s \/ Before(r, s) \/ Before(s, r)
  BY DEF Dated, Before
<1>. QED  BY <1>1, <1>2, <1>3, <1>4 DEF Orders

\* InOrder lists every report once, in order.
LEMMA InOrderLists ==
    ASSUME NEW R, Dated(R)
    PROVE  /\ Len(InOrder(R)) \in Nat
           /\ \A n \in 1 .. Len(InOrder(R)) : InOrder(R)[n] \in R
           /\ \A r \in R : \E n \in 1 .. Len(InOrder(R)) : InOrder(R)[n] = r
           /\ \A m, n \in 1 .. Len(InOrder(R)) :
                  m < n => Before(InOrder(R)[m], InOrder(R)[n])
<1> DEFINE N == Cardinality(R)
           list == InOrder(R)
<1>1. N \in Nat /\ IsFiniteSet(R)
  BY FS_CardinalityType DEF Dated
<1>2. /\ Orders(Earlier(R), R)
      /\ \A r, s \in R : <<r, s>> \in Earlier(R) <=> Before(r, s)
  BY BeforeOrders
<1>3. \E s \in [1 .. N -> R] : \A m, n \in DOMAIN s : m < n => Before(s[m], s[n])
  <2>1. PICK s : Sorted(s, Earlier(R), R)
    BY <1>1, <1>2, SortedExists
  <2>2. s \in [1 .. N -> R] /\ \A m, n \in 1 .. N : m < n => <<s[m], s[n]>> \in Earlier(R)
    BY <2>1 DEF Sorted
  <2>. QED  BY <1>2, <2>2
<1>4. list \in [1 .. N -> R] /\ \A m, n \in 1 .. N : m < n => Before(list[m], list[n])
  BY <1>3 DEF InOrder
<1>. HIDE DEF list
<1>5. Sorted(list, Earlier(R), R)
  BY <1>2, <1>4 DEF Sorted
<1>6. \A r \in R : \E n \in 1 .. N : list[n] = r
  BY <1>1, <1>2, <1>5, SortedCovers
<1>7. Len(list) = N
  <2>1. list \in Seq(R)
    BY <1>1, <1>4
  <2>2. DOMAIN list = 1 .. Len(list) /\ Len(list) \in Nat
    BY <2>1
  <2>. QED  BY <1>1, <1>4, <2>2
<1>. QED  BY <1>1, <1>4, <1>6, <1>7 DEF list

\* Merging keeps every item that a report states, with the value of the last
\* report that states it.
LEMMA MergedLatest ==
    ASSUME NEW R, Dated(R)
    PROVE  /\ \A i : i \in DOMAIN Merged(R) <=> \E r \in R : i \in DOMAIN r.read.items
           /\ \A i \in DOMAIN Merged(R) :
                  \E r \in R : /\ i \in DOMAIN r.read.items
                               /\ \A s \in R \ {r} : i \in DOMAIN s.read.items => Before(s, r)
                               /\ Merged(R)[i] = r.read.items[i]
<1> DEFINE list == InOrder(R)
           N == Len(list)
           g == Merging(list)
<1>1. /\ N \in Nat
      /\ \A n \in 1 .. N : list[n] \in R
      /\ \A r \in R : \E n \in 1 .. N : list[n] = r
      /\ \A m, n \in 1 .. N : m < n => Before(list[m], list[n])
  BY InOrderLists
<1>2. Merged(R) = g[N]
  BY DEF Merged
<1>. HIDE DEF list
<1>3. MergedFirstOf(g, list, N)
  BY <1>1, MergingDefined, MergeLoop
<1>. HIDE DEF g, N
<1>4. ASSUME NEW i
      PROVE  i \in DOMAIN Merged(R) <=> \E r \in R : i \in DOMAIN r.read.items
  BY <1>1, <1>2, <1>3 DEF MergedFirstOf, States
<1>5. ASSUME NEW i \in DOMAIN Merged(R)
      PROVE  \E r \in R : /\ i \in DOMAIN r.read.items
                          /\ \A s \in R \ {r} : i \in DOMAIN s.read.items => Before(s, r)
                          /\ Merged(R)[i] = r.read.items[i]
  <2>1. PICK j \in 1 .. N : StatesLast(list, N, j, i) /\ g[N][i] = list[j].read.items[i]
    BY <1>2, <1>3 DEF MergedFirstOf
  <2>2. ASSUME NEW s \in R, s # list[j], i \in DOMAIN s.read.items PROVE Before(s, list[j])
    <3>1. PICK k \in 1 .. N : list[k] = s
      BY <1>1
    <3>2. k <= j /\ k # j
      BY <2>1, <2>2, <3>1 DEF StatesLast, States
    <3>. QED  BY <1>1, <3>1, <3>2
  <2>. QED  BY <1>1, <1>2, <2>1, <2>2 DEF StatesLast, States
<1>. QED  BY <1>4, <1>5
-----------------------------------------------------------------------------
(***************************************************************************)
(* A ticker's reports are only added to: what a parse has in hand holds    *)
(* what was stored before it, and is among what is recorded.               *)
(***************************************************************************)
ReportsGrow ==
    /\ scenario \in Scenarios
    /\ recorded \subseteq scenario.reports
    /\ stored \subseteq recorded
    /\ parse.pc \in {"read", "write"} =>
           stored \subseteq parse.reports /\ parse.reports \subseteq recorded

LEMMA ReportsGrowStep ==
    ASSUME ReportsGrow, [Next]_vars
    PROVE  ReportsGrow' /\ scenario' = scenario /\ stored \subseteq stored'
<1>. USE DEF ReportsGrow
<1>1. ASSUME UNCHANGED <<scenario, recorded, parse, stored>>
      PROVE  ReportsGrow' /\ scenario' = scenario /\ stored \subseteq stored'
  BY <1>1
<1>2. CASE ReadEps \/ WriteEps \/ KillEps \/ \E count \in scenario.counts : SetShares(count)
  BY <1>1, <1>2 DEF ReadEps, WriteEps, KillEps, SetShares
<1>3. CASE \E e \in scenario.editions : SyncForecasts(e) \/ SyncDividends(e)
  BY <1>1, <1>3 DEF SyncForecasts, SyncDividends
<1>4. CASE \E r \in scenario.reports : Record(r)
  BY <1>4 DEF Record
<1>5. CASE BeginParse
  BY <1>5 DEF BeginParse, Listed
<1>6. CASE ReadReports
  <2>1. \/ parse'.pc = "idle"
        \/ parse'.reports = parse.reports /\ parse.pc = "read"
    BY <1>6 DEF ReadReports, Idle
  <2>. QED  BY <1>6, <2>1 DEF ReadReports
<1>7. CASE WriteTicker
  <2>1. parse'.pc \in {"idle", "failed"}
    BY <1>7 DEF WriteTicker, Idle
  <2>2. stored' \in {stored, parse.reports} /\ parse.pc = "write"
    BY <1>7 DEF WriteTicker
  <2>. QED  BY <1>7, <2>1, <2>2 DEF WriteTicker
<1>8. CASE KillParse \/ RunAgain
  BY <1>8 DEF KillParse, RunAgain, Idle
<1>9. CASE Screening
  BY <1>1, <1>9 DEF Screening, SelectPlPeriod, SelectPeriodRows, SelectLatest, SelectShares,
     SelectHistory, SelectEquityPeriod, SelectInstruments, SelectStatus,
     SelectAdjustedPeriod, SelectAdjustments, Screened, At, ScreenUnchanged
<1>10. CASE BalanceSheet
  BY <1>1, <1>10 DEF BalanceSheet, SelectSheetPeriods, SelectDocScope, SelectEdges,
     SelectValues, SelectTotal, Answered, SheetAt
<1>11. CASE UNCHANGED vars
  BY <1>1, <1>11 DEF vars
<1>. QED
  BY <1>2, <1>3, <1>4, <1>5, <1>6, <1>7, <1>8, <1>9, <1>10, <1>11 DEF Next

LEMMA ReportsGrowInvariant == Spec => []ReportsGrow
<1>1. Init => ReportsGrow
  BY DEF Init, ReportsGrow, Idle
<1>2. ReportsGrow /\ [Next]_vars => ReportsGrow'
  BY ReportsGrowStep
<1>. QED  BY <1>1, <1>2, PTL DEF Spec

UsableOf(R) == {r \in R : Usable(r)}

LEMMA StoredDated ==
    ASSUME ReportsGrow
    PROVE  /\ Dated(UsableOf(stored))
           /\ \A r \in stored : /\ IsFiniteSet(DOMAIN r.read.items)
                                /\ \A k \in DOMAIN r.read.items :
                                       k = Unsourced(k) /\ k.context.period \in Int
<1>1. stored \subseteq scenario.reports /\ scenario \in Scenarios
  BY DEF ReportsGrow
<1>2. UsableOf(stored) \in SUBSET scenario.reports
  BY <1>1 DEF UsableOf
<1>3. IsFiniteSet(UsableOf(stored))
  BY <1>1, <1>2, ScenarioAssumption, FS_Subset
<1>. QED  BY <1>1, <1>2, <1>3, ScenarioAssumption DEF Dated

\* The EDINET values of the tables are the stored reports' items, merged.
LEMMA StoredValues ==
    ASSUME Rebuilt, ReportsGrow
    PROVE  \A k : /\ k \in OfEdinet(db.values) <=>
                         /\ k = Sourced(k, "edinet_xbrl")
                         /\ Unsourced(k) \in DOMAIN Merged(UsableOf(stored))
                  /\ k \in OfEdinet(db.values) =>
                         db.values[k] = Merged(UsableOf(stored))[Unsourced(k)]
<1> DEFINE M == Merged(UsableOf(stored))
           E == EdinetValues(M)
<1>1. /\ \A i : i \in DOMAIN M <=> \E r \in UsableOf(stored) : i \in DOMAIN r.read.items
      /\ \A i \in DOMAIN M : i = Unsourced(i)
  <2>1. \A i : i \in DOMAIN M <=> \E r \in UsableOf(stored) : i \in DOMAIN r.read.items
    BY StoredDated, MergedLatest
  <2>2. \A r \in UsableOf(stored) : \A i \in DOMAIN r.read.items : i = Unsourced(i)
    BY StoredDated DEF UsableOf
  <2>. QED  BY <2>1, <2>2
<1>2. OfItems(db.values, OfEdinet(db.values)) = IF stored = {} THEN Empty ELSE E
  <2>1. CASE stored = {}
    BY <2>1 DEF Rebuilt, Tables
  <2>2. CASE stored # {}
    <3>1. PICK t \in Stored(Tables, Parsed(stored)) :
              OfItems(db.values, OfEdinet(db.values)) = t.values
      BY <2>2 DEF Rebuilt
    <3>2. Parsed(stored).values = M
      BY DEF Parsed, UsableOf
    <3>3. t.values = Upserted(E, Without(Tables.values, OfEdinet(Tables.values)))
      BY <3>1, <3>2 DEF Stored, StoredWith
    <3>4. DOMAIN Tables.values = {} /\ E = OfItems(E, DOMAIN E)
      BY DEF Tables, Empty, EdinetValues, OfItems
    <3>. HIDE DEF E
    <3>5. t.values = E
      BY <3>3, <3>4 DEF Upserted, Without, OfItems
    <3>. QED  BY <2>2, <3>1, <3>5
  <2>. QED  BY <2>1, <2>2
<1>3. stored = {} => DOMAIN M = {}
  BY <1>1 DEF UsableOf
<1>. HIDE DEF M
<1>4. \A k : k \in DOMAIN E <=> k = Sourced(k, "edinet_xbrl") /\ Unsourced(k) \in DOMAIN M
  BY <1>1 DEF EdinetValues, Sourced, Unsourced
<1>5. \A k \in DOMAIN E : E[k] = M[Unsourced(k)]
  BY DEF EdinetValues
<1>. HIDE DEF E
<1>6. CASE stored = {}
  <2>1. DOMAIN M = {} /\ OfEdinet(db.values) = {}
    BY <1>2, <1>3, <1>6 DEF OfItems, Empty
  <2>. QED  BY <2>1 DEF M
<1>7. CASE stored # {}
  <2>1. /\ OfEdinet(db.values) = DOMAIN E
        /\ \A k \in OfEdinet(db.values) : db.values[k] = E[k]
    BY <1>2, <1>7 DEF OfItems
  <2>. QED  BY <1>4, <1>5, <2>1 DEF M
<1>. QED  BY <1>6, <1>7

\* A stored value is that of the last usable stored report that states it,
\* however many reports and corrections there are (parse_ticker).
THEOREM LatestValueStands == Spec => []LatestStands
<1>1. Rebuilt /\ ReportsGrow => LatestStands
  <2> SUFFICES ASSUME Rebuilt, ReportsGrow, NEW k \in OfEdinet(db.values)
               PROVE  \E r \in {s \in stored : Usable(s) /\ Unsourced(k) \in DOMAIN s.read.items} :
                          /\ \A s \in {q \in stored : Usable(q) /\ Unsourced(k) \in DOMAIN q.read.items}
                                          \ {r} : Before(s, r)
                          /\ db.values[k] = r.read.items[Unsourced(k)]
    BY DEF LatestStands
  <2>1. /\ Unsourced(k) \in DOMAIN Merged(UsableOf(stored))
        /\ db.values[k] = Merged(UsableOf(stored))[Unsourced(k)]
    BY StoredValues
  <2>2. PICK r \in UsableOf(stored) :
            /\ Unsourced(k) \in DOMAIN r.read.items
            /\ \A s \in UsableOf(stored) \ {r} :
                   Unsourced(k) \in DOMAIN s.read.items => Before(s, r)
            /\ Merged(UsableOf(stored))[Unsourced(k)] = r.read.items[Unsourced(k)]
    BY <2>1, StoredDated, MergedLatest
  <2>. QED  BY <2>1, <2>2 DEF UsableOf
<1>. QED  BY <1>1, TablesRebuilt, ReportsGrowInvariant, PTL
-----------------------------------------------------------------------------
(***************************************************************************)
(* The periods of the stored statements are those of the usable stored     *)
(* reports: a finite set that grows.                                       *)
(***************************************************************************)
Statement == {"bs", "pl", "cf"}

KeysStored ==
    \A k : k \in OfEdinet(db.values) <=>
               /\ k = Sourced(k, "edinet_xbrl")
               /\ \E r \in UsableOf(stored) : Unsourced(k) \in DOMAIN r.read.items

LEMMA EdinetPeriods ==
    ASSUME NEW v, NEW st \in Statement
    PROVE  Periods(v, st) = {k.context.period : k \in {c \in OfEdinet(v) : c.statement = st}}
<1>1. {c \in Canonical(v) : c.statement = st} = {c \in OfEdinet(v) : c.statement = st}
  BY DEF Canonical, OfEdinet, Statement
<1>. QED  BY <1>1 DEF Periods

LEMMA KeysStoredInvariant == Spec => [](KeysStored /\ ReportsGrow)
<1>1. Rebuilt /\ ReportsGrow => KeysStored
  <2> SUFFICES ASSUME Rebuilt, ReportsGrow PROVE KeysStored
    OBVIOUS
  <2>1. \A i : i \in DOMAIN Merged(UsableOf(stored)) <=>
                   \E r \in UsableOf(stored) : i \in DOMAIN r.read.items
    BY StoredDated, MergedLatest
  <2>. QED  BY <2>1, StoredValues DEF KeysStored
<1>. QED  BY <1>1, TablesRebuilt, ReportsGrowInvariant, PTL

\* No step forgets a period of a statement.
LEMMA PeriodsGrow ==
    ASSUME KeysStored, KeysStored', ReportsGrow, [Next]_vars, NEW st \in Statement
    PROVE  Periods(db.values, st) \subseteq Periods(db'.values, st)
<1>1. UsableOf(stored) \subseteq UsableOf(stored')
  BY ReportsGrowStep DEF UsableOf
<1>2. \A k : k \in OfEdinet(db.values) => k \in OfEdinet(db'.values)
  BY <1>1 DEF KeysStored
<1>. QED  BY <1>2, EdinetPeriods

\* Later parses only add to a ticker's history: no step of any command, killed
\* or not, takes a period of a statement away.
THEOREM PeriodsStay == Spec => PeriodsKept
<1> DEFINE Kept == \A statement \in {"bs", "pl", "cf"} :
                       Periods(db.values, statement) \subseteq Periods(db'.values, statement)
<1>1. KeysStored /\ KeysStored' /\ ReportsGrow /\ [Next]_vars => [Kept]_vars
  BY PeriodsGrow DEF Statement
<1>2. [][Kept]_vars <=> PeriodsKept
  BY PTL DEF PeriodsKept, Kept
<1>. QED  BY <1>1, <1>2, KeysStoredInvariant, PTL DEF Spec

LEMMA PeriodsFinite ==
    ASSUME KeysStored, ReportsGrow, NEW st \in Statement
    PROVE  Periods(db.values, st) \in SUBSET Int /\ IsFiniteSet(Periods(db.values, st))
<1> DEFINE R == UsableOf(stored)
           items == [r \in R |-> DOMAIN r.read.items]
           I == UNION {items[r] : r \in DOMAIN items}
           period == [i \in I |-> i.context.period]
           P == {period[i] : i \in DOMAIN period}
<1>1. IsFiniteSet(R) /\ \A r \in R : IsFiniteSet(DOMAIN r.read.items)
  BY StoredDated DEF UsableOf, Dated
<1>2. IsFiniteSet({items[r] : r \in DOMAIN items})
  <2>1. IsFiniteSet(DOMAIN items)
    BY <1>1
  <2>. HIDE DEF items
  <2>. QED  BY <2>1, FiniteImage
<1>3. IsFiniteSet(I)
  <2>1. \A T \in {items[r] : r \in DOMAIN items} : IsFiniteSet(T)
    BY <1>1
  <2>. HIDE DEF items
  <2>. QED  BY <1>2, <2>1, FS_UNION
<1>4. IsFiniteSet(P)
  <2>1. IsFiniteSet(DOMAIN period)
    BY <1>3
  <2>. HIDE DEF period
  <2>. QED  BY <2>1, FiniteImage
<1>5. P \subseteq Int
  <2>1. ASSUME NEW i \in I PROVE i.context.period \in Int
    <3>1. PICK r \in R : i \in DOMAIN r.read.items
      OBVIOUS
    <3>. QED  BY <3>1, StoredDated DEF UsableOf
  <2>. QED  BY <2>1
<1>6. Periods(db.values, st) \in SUBSET P
  <2>1. ASSUME NEW k \in OfEdinet(db.values) PROVE k.context.period \in P
    <3>1. PICK r \in R : Unsourced(k) \in DOMAIN r.read.items
      BY DEF KeysStored
    <3>2. Unsourced(k) \in I /\ Unsourced(k).context = k.context
      BY <3>1 DEF Unsourced
    <3>3. period[Unsourced(k)] = k.context.period
      BY <3>2
    <3>. QED  BY <3>2, <3>3
  <2>. HIDE DEF P
  <2>. QED  BY <2>1, EdinetPeriods
<1>. HIDE DEF P
<1>. QED  BY <1>4, <1>5, <1>6, FS_Subset

\* The latest period is one of them, and the last n hold it.
LEMMA LatestIn ==
    ASSUME NEW S \in SUBSET Int, IsFiniteSet(S), S # {}
    PROVE  Latest(S) \in S /\ \A x \in S : x <= Latest(S)
<1>1. \E m \in S : \A x \in S : x <= m
  BY GreatestExists
<1>. QED  BY <1>1 DEF Latest, MaxOf

LEMMA LastOfReach ==
    ASSUME NEW S \in SUBSET Int, IsFiniteSet(S), NEW x \in S, NEW n \in Nat \ {0}
    PROVE  \E p \in LastOf(S, n) : p >= x
<1>1. PICK m \in S : \A y \in S : y <= m
  BY GreatestExists
<1>2. {y \in S : y > m} = {}
  <2>1. \A y \in S : ~(y > m)
    BY <1>1
  <2>. QED  BY <2>1
<1>3. Cardinality({y \in S : y > m}) = 0
  BY <1>2, FS_EmptySet
<1>4. m \in LastOf(S, n) /\ m >= x
  BY <1>1, <1>3 DEF LastOf
<1>. QED  BY <1>4

-----------------------------------------------------------------------------
(***************************************************************************)
(* A screening call in hand: its period is stored, for as long as the call *)
(* lasts, so the history it selects later reaches it.                      *)
(***************************************************************************)
Reaches(history) ==
    "pl" \in DOMAIN history => \E p \in DOMAIN history["pl"] : p >= screen.period

ScreenSound ==
    screen.pc # "idle" =>
        /\ {"pc", "period", "history"} \subseteq DOMAIN screen
        /\ screen.period # None =>
               screen.period \in Periods(db.values, "pl") /\ Reaches(screen.history)

\* A SELECT of something else.
LEMMA OtherSelect ==
    ASSUME ScreenSound,
           \/ SelectPeriodRows \/ SelectLatest \/ SelectShares
           \/ SelectEquityPeriod \/ SelectInstruments \/ SelectStatus
           \/ SelectAdjustedPeriod \/ SelectAdjustments
    PROVE  /\ screen.pc # "idle" /\ DOMAIN screen' = DOMAIN screen
           /\ screen'.period = screen.period /\ screen'.history = screen.history
<1>. USE DEF ScreenSound, At
<1>1. CASE SelectPeriodRows
  BY <1>1 DEF SelectPeriodRows
<1>2. CASE SelectLatest
  <2>1. screen.pc # "idle"
    BY <1>2 DEF SelectLatest, MergeThen
  <2>2. \E n, f : screen' = [screen EXCEPT !.pc = n, !.financials = f]
    BY <1>2 DEF SelectLatest
  <2>. QED  BY <2>1, <2>2
<1>3. CASE SelectShares \/ SelectEquityPeriod \/ SelectAdjustedPeriod
  BY <1>3 DEF SelectShares, SelectEquityPeriod, SelectAdjustedPeriod
<1>4. CASE SelectInstruments
  BY <1>4 DEF SelectInstruments
<1>5. CASE SelectStatus \/ SelectAdjustments
  BY <1>5 DEF SelectStatus, SelectAdjustments
<1>. QED  BY <1>1, <1>2, <1>3, <1>4, <1>5

LEMMA HistorySelect ==
    ASSUME KeysStored, ReportsGrow, ScreenSound, SelectHistory
    PROVE  /\ screen.pc # "idle" /\ DOMAIN screen' = DOMAIN screen
           /\ screen'.period = screen.period
           /\ screen.period # None => Reaches(screen.history)'
<1>0. PICK pc \in DOMAIN HistoryThen :
          /\ At(pc)
          /\ \E h \in Histories(db.values, HistoryStatement[pc],
                               LastOf(Periods(db.values, HistoryStatement[pc]), HistoryLength)) :
                screen' = [screen EXCEPT !.pc = HistoryThen[pc],
                              !.history = Upserted([x \in {HistoryStatement[pc]} |-> h], @)]
  BY Zenon DEF SelectHistory
<1>1. PICK h \in Histories(db.values, HistoryStatement[pc],
                          LastOf(Periods(db.values, HistoryStatement[pc]), HistoryLength)) :
          screen' = [screen EXCEPT !.pc = HistoryThen[pc],
                        !.history = Upserted([x \in {HistoryStatement[pc]} |-> h], @)]
  BY <1>0, Zenon
<1>. DEFINE st == HistoryStatement[pc]
<1>2. pc \in {"cf", "pl", "payout"}
  BY <1>0 DEF HistoryThen
<1>3. screen.pc # "idle" /\ {"pc", "period", "history"} \subseteq DOMAIN screen
  BY <1>0, <1>2 DEF ScreenSound, At
<1>4. /\ DOMAIN screen' = DOMAIN screen /\ screen'.period = screen.period
      /\ screen'.history = Upserted([x \in {st} |-> h], screen.history)
  BY <1>1, <1>3
<1>5. ASSUME screen.period # None, st = "pl" PROVE Reaches(screen.history)'
  <2>1. screen'.history["pl"] = h
    BY <1>4, <1>5 DEF Upserted
  <2>2. DOMAIN h = LastOf(Periods(db.values, "pl"), HistoryLength)
    BY <1>1, <1>5 DEF Histories
  <2>3. screen.period \in Periods(db.values, "pl")
    BY <1>3, <1>5 DEF ScreenSound
  <2>4. \E p \in DOMAIN h : p >= screen.period
    BY <2>2, <2>3, PeriodsFinite, LastOfReach, ScenarioAssumption DEF Statement
  <2>. QED  BY <1>4, <2>1, <2>4 DEF Reaches
<1>6. ASSUME screen.period # None, st # "pl" PROVE Reaches(screen.history)'
  <2>1. /\ "pl" \in DOMAIN screen'.history => "pl" \in DOMAIN screen.history
        /\ "pl" \in DOMAIN screen'.history => screen'.history["pl"] = screen.history["pl"]
    BY <1>4, <1>6 DEF Upserted
  <2>. QED  BY <1>3, <1>4, <1>6, <2>1 DEF ScreenSound, Reaches
<1>. QED  BY <1>3, <1>4, <1>5, <1>6

LEMMA ScreenStep ==
    ASSUME KeysStored, KeysStored', ReportsGrow, ScreenSound, [Next]_vars
    PROVE  ScreenSound'
<1>0. Periods(db.values, "pl") \subseteq Periods(db'.values, "pl")
  BY PeriodsGrow DEF Statement
<1>1. CASE screen' = screen
  BY <1>0, <1>1 DEF ScreenSound, Reaches
<1>2. CASE SelectPlPeriod
  <2>1. /\ screen'.period = Latest(Periods(db.values, "pl"))
        /\ DOMAIN screen'.history = {}
        /\ {"pc", "period", "history"} \subseteq DOMAIN screen'
    BY <1>2 DEF SelectPlPeriod, At, Empty
  <2>2. ASSUME screen'.period # None PROVE screen'.period \in Periods(db.values, "pl")
    <3>1. Periods(db.values, "pl") # {}
      BY <2>1, <2>2 DEF Latest
    <3>. QED  BY <2>1, <3>1, PeriodsFinite, LatestIn DEF Statement
  <2>. QED  BY <1>0, <2>1, <2>2 DEF ScreenSound, Reaches
<1>3. CASE SelectHistory
  BY <1>0, <1>3, HistorySelect DEF ScreenSound
<1>4. CASE \/ SelectPeriodRows \/ SelectLatest \/ SelectShares
           \/ SelectEquityPeriod \/ SelectInstruments \/ SelectStatus
           \/ SelectAdjustedPeriod \/ SelectAdjustments
  BY <1>0, <1>4, OtherSelect DEF ScreenSound, Reaches
<1>5. CASE Screened
  BY <1>5 DEF Screened, Idle, ScreenSound
<1>6. CASE BalanceSheet
  BY <1>1, <1>6 DEF BalanceSheet, SelectSheetPeriods, SelectDocScope, SelectEdges,
     SelectValues, SelectTotal, Answered, SheetAt
<1>7. CASE \/ ReadEps \/ WriteEps \/ KillEps
           \/ \E count \in scenario.counts : SetShares(count)
           \/ \E e \in scenario.editions : SyncForecasts(e) \/ SyncDividends(e)
  BY <1>1, <1>7 DEF ReadEps, WriteEps, KillEps, SetShares, SyncForecasts, SyncDividends
<1>8. CASE \/ \E r \in scenario.reports : Record(r)
           \/ BeginParse \/ ReadReports \/ WriteTicker \/ KillParse \/ RunAgain
  BY <1>1, <1>8 DEF Record, BeginParse, ReadReports, WriteTicker, KillParse, RunAgain
<1>9. CASE UNCHANGED vars
  BY <1>1, <1>9 DEF vars
<1>. QED
  BY <1>2, <1>3, <1>4, <1>5, <1>6, <1>7, <1>8, <1>9 DEF Next, Screening

\* The profit and loss history of a screening answer reaches the period of its
\* financials, whatever is stored between the two SELECTs.
THEOREM HistoriesReach == Spec => []HistoriesNotBehind
<1>1. Init => ScreenSound
  BY DEF Init, Idle, ScreenSound
<1>2. ScreenSound => HistoriesNotBehind
  BY DEF ScreenSound, Reaches, HistoriesNotBehind
<1>. QED  BY <1>1, <1>2, ScreenStep, KeysStoredInvariant, PTL DEF Spec
-----------------------------------------------------------------------------
(***************************************************************************)
(* The tree of a balance sheet.  Its recursion has a solution whatever the *)
(* edges are, and no other if they have no cycle: at each node, what can   *)
(* be reached from it and from which something with a value can.           *)
(***************************************************************************)
Closed(edges, S) == \A n \in S : Children(edges, n) \subseteq S

Reach(edges, n) ==
    {m \in SheetNodes(edges) :
        \A S \in SUBSET SheetNodes(edges) : n \in S /\ Closed(edges, S) => m \in S}

Alive(edges, valued, n) == \E m \in Reach(edges, n) : m.concept \in valued

Live(edges, valued, n) == {m \in Reach(edges, n) : Alive(edges, valued, m)}

LEMMA ReachFacts ==
    ASSUME NEW edges, NEW n \in SheetNodes(edges)
    PROVE  /\ n \in Reach(edges, n)
           /\ \A c \in Children(edges, n) :
                  c \in SheetNodes(edges) /\ Reach(edges, c) \subseteq Reach(edges, n)
           /\ \A m \in Reach(edges, n) : /\ m \in SheetNodes(edges)
                                         /\ Reach(edges, m) \subseteq Reach(edges, n)
           /\ \A m \in Reach(edges, n) \ {n} : \E c \in Children(edges, n) : m \in Reach(edges, c)
<1> DEFINE N == SheetNodes(edges)
<1>1. n \in Reach(edges, n)
  BY DEF Reach
<1>2. \A m : Children(edges, m) \subseteq N
  BY DEF Children, SheetNodes, Node
<1>3. ASSUME NEW m \in Reach(edges, n)
      PROVE  m \in N /\ Reach(edges, m) \subseteq Reach(edges, n)
  BY <1>3 DEF Reach
<1>4. ASSUME NEW c \in Children(edges, n) PROVE c \in Reach(edges, n)
  BY <1>2, <1>4 DEF Reach, Closed
<1>5. ASSUME NEW m \in Reach(edges, n), m # n
      PROVE  \E c \in Children(edges, n) : m \in Reach(edges, c)
  <2> DEFINE T == {n} \cup UNION {Reach(edges, c) : c \in Children(edges, n)}
  <2>1. T \in SUBSET N /\ n \in T
    BY <1>2 DEF Reach
  <2>2. ASSUME NEW s \in T, NEW k \in Children(edges, s) PROVE k \in T
    <3>1. CASE s = n
      <4>1. k \in Reach(edges, k)
        BY <1>2, <2>2 DEF Reach
      <4>. QED  BY <2>2, <3>1, <4>1
    <3>2. CASE s # n
      <4>1. PICK c \in Children(edges, n) : s \in Reach(edges, c)
        BY <2>2, <3>2
      <4>2. k \in Reach(edges, c)
        BY <1>2, <2>2, <4>1 DEF Reach, Closed
      <4>. QED  BY <4>1, <4>2
    <3>. QED  BY <3>1, <3>2
  <2>3. Closed(edges, T)
    BY <2>2 DEF Closed
  <2>4. m \in T
    BY <1>5, <2>1, <2>3 DEF Reach
  <2>. QED  BY <1>5, <2>4
<1>. QED  BY <1>1, <1>2, <1>3, <1>4, <1>5

\* A node is alive if it has a value or a child that is.
LEMMA AliveFacts ==
    ASSUME NEW edges, NEW valued, NEW n \in SheetNodes(edges)
    PROVE  /\ Alive(edges, valued, n) <=>
                  \/ n.concept \in valued
                  \/ \E c \in Children(edges, n) : Alive(edges, valued, c)
           /\ Alive(edges, valued, n) => n \in Live(edges, valued, n)
           /\ ~Alive(edges, valued, n) => Live(edges, valued, n) = {}
           /\ Alive(edges, valued, n) =>
                  Live(edges, valued, n) =
                      {n} \cup UNION {Live(edges, valued, c) : c \in Children(edges, n)}
<1>1. Alive(edges, valued, n) <=>
          n.concept \in valued \/ \E c \in Children(edges, n) : Alive(edges, valued, c)
  BY ReachFacts DEF Alive
<1>2. ~Alive(edges, valued, n) => Live(edges, valued, n) = {}
  BY ReachFacts DEF Alive, Live
<1>3. ASSUME Alive(edges, valued, n)
      PROVE  Live(edges, valued, n) =
                 {n} \cup UNION {Live(edges, valued, c) : c \in Children(edges, n)}
  BY <1>3, ReachFacts DEF Live
<1>4. Alive(edges, valued, n) => n \in Live(edges, valued, n)
  BY ReachFacts DEF Live
<1>. QED  BY <1>1, <1>2, <1>3, <1>4

Keeps(f, edges, valued) ==
    f = [n \in SheetNodes(edges) |->
            LET below == UNION {f[m] : m \in Children(edges, n)}
            IN  IF n.concept \in valued \/ below # {} THEN {n} \cup below ELSE {}]

LEMMA SubtreesKeep == ASSUME NEW edges, NEW valued PROVE Keeps(Subtrees(edges, valued), edges, valued)
<1> DEFINE f == [n \in SheetNodes(edges) |-> Live(edges, valued, n)]
<1>1. ASSUME NEW n \in SheetNodes(edges)
      PROVE  f[n] = LET below == UNION {f[m] : m \in Children(edges, n)}
                    IN  IF n.concept \in valued \/ below # {} THEN {n} \cup below ELSE {}
  <2> DEFINE below == UNION {Live(edges, valued, m) : m \in Children(edges, n)}
  <2>1. \A c \in Children(edges, n) : c \in SheetNodes(edges)
    BY ReachFacts
  <2>2. UNION {f[m] : m \in Children(edges, n)} = below
    BY <2>1
  <2>3. below # {} <=> \E c \in Children(edges, n) : Alive(edges, valued, c)
    BY <2>1, AliveFacts
  <2>4. f[n] = IF n.concept \in valued \/ below # {} THEN {n} \cup below ELSE {}
    BY <2>3, AliveFacts
  <2>. QED  BY <2>2, <2>4
<1>2. Keeps(f, edges, valued)
  BY <1>1 DEF Keeps
<1>3. Subtrees(edges, valued) = CHOOSE g : Keeps(g, edges, valued)
  BY DEF Subtrees, Keeps
<1>. QED  BY <1>2, <1>3

LEMMA SubtreesAre ==
    ASSUME NEW edges, NEW valued, Acyclic(edges), NEW n \in SheetNodes(edges)
    PROVE  Subtrees(edges, valued)[n] = Live(edges, valued, n)
<1> DEFINE g == Subtrees(edges, valued)
           D == {m \in SheetNodes(edges) : g[m] # Live(edges, valued, m)}
<1>1. SUFFICES ASSUME D # {} PROVE FALSE
  OBVIOUS
<1>2. PICK m \in D : Children(edges, m) \cap D = {}
  BY <1>1 DEF Acyclic
<1>3. \A c \in Children(edges, m) : g[c] = Live(edges, valued, c)
  BY <1>2, ReachFacts
<1>4. Keeps(g, edges, valued)
  BY SubtreesKeep
<1>. HIDE DEF g
<1>5. g[m] = LET below == UNION {g[c] : c \in Children(edges, m)}
             IN  IF m.concept \in valued \/ below # {} THEN {m} \cup below ELSE {}
  BY <1>4 DEF Keeps
<1> DEFINE below == UNION {Live(edges, valued, c) : c \in Children(edges, m)}
<1>6. UNION {g[c] : c \in Children(edges, m)} = below
  BY <1>3
<1>7. below # {} <=> \E c \in Children(edges, m) : Alive(edges, valued, c)
  BY ReachFacts, AliveFacts
<1>8. g[m] = Live(edges, valued, m)
  BY <1>5, <1>6, <1>7, AliveFacts
<1>. QED  BY <1>8

\* In a finite set of nodes one has no parent in it, if there is no cycle.
LEMMA TopExists ==
    ASSUME NEW edges, Acyclic(edges),
           NEW S \in SUBSET SheetNodes(edges), IsFiniteSet(S), S # {}
    PROVE  \E t \in S : \A s \in S : t \notin Children(edges, s)
<1> DEFINE Top(t, U) == t \in U /\ \A s \in U : t \notin Children(edges, s)
           OfSize(n) == {U \in SUBSET S : Cardinality(U) = n + 1}
           H == {n \in Nat : \A U \in OfSize(n) : \E t : Top(t, U)}
<1>1. \A U \in SUBSET S : U # {} => \E b \in U : Children(edges, b) \cap U = {}
  BY DEF Acyclic
<1>2. \A U \in SUBSET S : IsFiniteSet(U)
  BY FS_Subset
<1>3. 0 \in H
  <2>1. ASSUME NEW U \in OfSize(0) PROVE \E t : Top(t, U)
    <3>1. PICK x : U = {x}
      BY <1>2, FS_Singleton
    <3>2. Children(edges, x) \cap U = {}
      BY <1>1, <3>1
    <3>. QED  BY <3>1, <3>2
  <2>. QED  BY <2>1
<1>4. ASSUME NEW n \in H PROVE n + 1 \in H
  <2>1. ASSUME NEW U \in OfSize(n + 1) PROVE \E t : Top(t, U)
    <3>1. IsFiniteSet(U) /\ Cardinality(U) = n + 2 /\ n \in Nat
      BY <1>2
    <3>2. U # {}
      BY <3>1, FS_EmptySet
    <3>3. PICK b \in U : Children(edges, b) \cap U = {}
      BY <1>1, <3>2
    <3>4. U \ {b} \in OfSize(n)
      <4>1. Cardinality(U \ {b}) = Cardinality(U) - 1
        BY <3>1, FS_RemoveElement
      <4>. QED  BY <3>1, <4>1
    <3>5. PICK t : Top(t, U \ {b})
      BY <3>4
    <3>6. Top(t, U)
      BY <3>3, <3>5
    <3>. QED  BY <3>6
  <2>. QED  BY <2>1
<1>5. H \subseteq Nat
  OBVIOUS
<1>. HIDE DEF H
<1>6. H = Nat
  BY <1>3, <1>4, <1>5, InductionBySet
<1>7. Cardinality(S) \in Nat /\ Cardinality(S) # 0
  BY FS_CardinalityType, FS_EmptySet
<1>8. S \in OfSize(Cardinality(S) - 1) /\ Cardinality(S) - 1 \in Nat
  BY <1>7
<1>9. \E t : Top(t, S)
  BY <1>6, <1>8 DEF H
<1>. QED  BY <1>9

\* Each node is reached from a root.
LEMMA RootsReach ==
    ASSUME NEW edges, Acyclic(edges), IsFiniteSet(edges), NEW n \in SheetNodes(edges)
    PROVE  \E r \in SheetRoots(edges) : n \in Reach(edges, r)
<1> DEFINE D == {m \in SheetNodes(edges) : \A r \in SheetRoots(edges) : m \notin Reach(edges, r)}
<1>1. SUFFICES ASSUME D # {} PROVE FALSE
  OBVIOUS
<1>2. IsFiniteSet(SheetNodes(edges))
  <2> DEFINE parent == [e \in edges |-> Node(e, e.parent)]
             child == [e \in edges |-> Node(e, e.child)]
  <2>1. /\ SheetNodes(edges) = {parent[e] : e \in DOMAIN parent} \cup {child[e] : e \in DOMAIN child}
        /\ IsFiniteSet(DOMAIN parent) /\ IsFiniteSet(DOMAIN child)
    BY DEF SheetNodes
  <2>. HIDE DEF parent, child
  <2> DEFINE P == {parent[e] : e \in DOMAIN parent}
             C == {child[e] : e \in DOMAIN child}
  <2>2. IsFiniteSet(P)
    BY <2>1, FiniteImage
  <2>3. IsFiniteSet(C)
    BY <2>1, FiniteImage
  <2>4. SheetNodes(edges) = P \cup C
    BY <2>1
  <2>. HIDE DEF P, C
  <2>5. IsFiniteSet(P \cup C)
    BY <2>2, <2>3, FS_Union
  <2>. QED  BY <2>4, <2>5
<1>3. D \in SUBSET SheetNodes(edges) /\ IsFiniteSet(D)
  BY <1>2, FS_Subset
<1>4. PICK t \in D : \A s \in D : t \notin Children(edges, s)
  BY <1>1, <1>3, TopExists
<1>5. SheetRoots(edges) \subseteq SheetNodes(edges)
  BY DEF SheetRoots, SheetNodes
<1>6. t \notin SheetRoots(edges)
  BY <1>4, <1>5, ReachFacts
<1>7. PICK e \in edges : t = Node(e, e.child)
  BY <1>4, <1>6 DEF SheetRoots, SheetNodes
<1>8. Node(e, e.parent) \in SheetNodes(edges) /\ t \in Children(edges, Node(e, e.parent))
  BY <1>7 DEF SheetNodes, Children
<1>9. PICK r \in SheetRoots(edges) : Node(e, e.parent) \in Reach(edges, r)
  BY <1>4, <1>8
<1>10. t \in Reach(edges, r)
  BY <1>5, <1>8, <1>9, ReachFacts
<1>. QED  BY <1>4, <1>10

LEMMA TreeIs ==
    ASSUME NEW edges, NEW valued, Acyclic(edges), IsFiniteSet(edges)
    PROVE  Tree(edges, valued) = {n \in SheetNodes(edges) : Alive(edges, valued, n)}
<1>1. SheetRoots(edges) \subseteq SheetNodes(edges)
  BY DEF SheetRoots, SheetNodes
<1>2. Tree(edges, valued) = UNION {Live(edges, valued, r) : r \in SheetRoots(edges)}
  BY <1>1, SubtreesAre DEF Tree
<1>3. ASSUME NEW n \in SheetNodes(edges), Alive(edges, valued, n)
      PROVE  n \in Tree(edges, valued)
  BY <1>2, <1>3, RootsReach DEF Live
<1>4. ASSUME NEW n \in Tree(edges, valued)
      PROVE  n \in SheetNodes(edges) /\ Alive(edges, valued, n)
  BY <1>1, <1>2, <1>4, ReachFacts DEF Live
<1>. QED  BY <1>3, <1>4

\* A node of the tree has a value or a child in it, and one with either is in
\* the tree (build_balance_sheet_node).
LEMMA TreeShowsAll ==
    ASSUME NEW edges, NEW valued, Acyclic(edges), IsFiniteSet(edges), NEW n \in SheetNodes(edges)
    PROVE  n \in Tree(edges, valued) <=>
               n.concept \in valued \/ Children(edges, n) \cap Tree(edges, valued) # {}
BY TreeIs, AliveFacts, ReachFacts
-----------------------------------------------------------------------------
(***************************************************************************)
(* A balance sheet call in hand: its edges are those of one report, and    *)
(* its values are of its periods.                                          *)
(***************************************************************************)
Drawn(edges) == Acyclic(edges) /\ IsFiniteSet(edges)

LEMMA StoredRows ==
    ASSUME Rebuilt, ReportsGrow
    PROVE  /\ \A w \in db.raw : w.context.period \in Int
           /\ IsFiniteSet(db.raw)
           /\ \A doc : Drawn(SheetEdges(db.edges, doc))
<1> DEFINE U == UsableOf(stored)
<1>1. /\ U \subseteq scenario.reports /\ scenario \in Scenarios
      /\ \A r, q \in U : r.doc = q.doc => r = q
  BY ScenarioAssumption DEF ReportsGrow, UsableOf
<1>2. \/ db.raw = {} /\ db.edges = {}
      \/ db.raw = RawRows(U) /\ db.edges = EdgeRows(U)
  <2>1. CASE stored = {}
    BY <2>1 DEF Rebuilt, Tables, EdinetTables
  <2>2. CASE stored # {}
    <3>1. PICK t \in Stored(Tables, Parsed(stored)) : \A f \in EdinetTables : db[f] = t[f]
      BY <2>2 DEF Rebuilt
    <3>2. t.raw = Parsed(stored).raw /\ t.edges = Parsed(stored).edges
      BY <3>1 DEF Stored, StoredWith
    <3>3. Parsed(stored).raw = RawRows(U) /\ Parsed(stored).edges = EdgeRows(U)
      BY DEF Parsed, UsableOf
    <3>. QED  BY <3>1, <3>2, <3>3 DEF EdinetTables
  <2>. QED  BY <2>1, <2>2
<1>3. ASSUME NEW w \in db.raw PROVE w.context.period \in Int
  <2>1. PICK r \in U : \E v \in r.read.raw : w.context = v.context
    BY <1>2, <1>3 DEF RawRows
  <2>. QED  BY <1>1, <2>1, ScenarioAssumption
<1>4. ASSUME NEW doc PROVE Drawn(SheetEdges(db.edges, doc))
  <2>1. CASE \E r \in U : r.doc = doc /\ db.edges = EdgeRows(U)
    <3>1. PICK r \in U : r.doc = doc /\ db.edges = EdgeRows(U)
      BY <2>1
    <3>2. SheetEdges(db.edges, doc) = SheetEdges(EdgeRows({r}), r.doc)
      BY <1>1, <3>1 DEF SheetEdges, EdgeRows
    <3>3. Acyclic(SheetEdges(EdgeRows({r}), r.doc)) /\ IsFiniteSet(r.read.edges)
      BY <1>1, ScenarioAssumption
    <3>4. IsFiniteSet(EdgeRows({r}))
      <4> DEFINE row == [e \in r.read.edges |->
                            [doc |-> r.doc, statement |-> e.statement, role |-> e.role,
                             parent |-> e.parent, child |-> e.child]]
      <4>1. EdgeRows({r}) = {row[e] : e \in r.read.edges}
        BY DEF EdgeRows
      <4>2. DOMAIN row = r.read.edges
        OBVIOUS
      <4>. HIDE DEF row
      <4>3. IsFiniteSet({row[e] : e \in DOMAIN row})
        BY <3>3, <4>2, FiniteImage
      <4>. QED  BY <4>1, <4>2, <4>3
    <3>5. SheetEdges(EdgeRows({r}), r.doc) \in SUBSET EdgeRows({r})
      BY DEF SheetEdges
    <3>. QED  BY <3>2, <3>3, <3>4, <3>5, FS_Subset DEF Drawn
  <2>2. CASE ~\E r \in U : r.doc = doc /\ db.edges = EdgeRows(U)
    <3>1. SheetEdges(db.edges, doc) = {}
      BY <1>2, <2>2 DEF SheetEdges, EdgeRows
    <3>. QED  BY <3>1, FS_EmptySet DEF Drawn, Acyclic, SheetNodes
  <2>. QED  BY <2>1, <2>2
<1>5. IsFiniteSet(RawRows(U))
  <2> DEFINE raw(r) == r.read.raw
             Row(r, w) == [doc |-> r.doc, statement |-> w.statement, context |-> w.context,
                           concept |-> w.concept, role |-> w.role, value |-> w.value]
             rows == [r \in U |-> {Row(r, w) : w \in raw(r)}]
             T == {rows[r] : r \in DOMAIN rows}
  <2>1. ASSUME NEW r \in U PROVE IsFiniteSet(rows[r])
    <3> DEFINE row == [w \in raw(r) |-> Row(r, w)]
    <3>1. rows[r] = {row[w] : w \in raw(r)} /\ DOMAIN row = raw(r)
      OBVIOUS
    <3>0. IsFiniteSet(raw(r))
      BY <1>1, ScenarioAssumption
    <3>. HIDE DEF row, rows, raw
    <3>2. IsFiniteSet({row[w] : w \in DOMAIN row})
      BY <3>0, <3>1, FiniteImage
    <3>. QED  BY <3>1, <3>2
  <2>2. RawRows(U) = UNION T
    BY DEF RawRows
  <2>3. IsFiniteSet(T)
    <3>1. DOMAIN rows = U /\ IsFiniteSet(U)
      BY StoredDated DEF Dated
    <3>. HIDE DEF rows
    <3>. QED  BY <3>1, FiniteImage
  <2>4. \A S \in T : IsFiniteSet(S)
    BY <2>1
  <2>. HIDE DEF T
  <2>. QED  BY <2>2, <2>3, <2>4, FS_UNION
<1>6. IsFiniteSet(db.raw)
  BY <1>2, <1>5, FS_EmptySet
<1>. QED  BY <1>3, <1>4, <1>6

InCall == {"scope", "edges", "values", "totals"}
SheetFields == {"pc", "periods", "selected", "edges", "values", "totals"}

SheetSound ==
    /\ sheet.pc \in InCall =>
           /\ SheetFields \subseteq DOMAIN sheet
           /\ sheet.periods \in SUBSET Int /\ IsFiniteSet(sheet.periods) /\ sheet.periods # {}
    /\ sheet.pc \in {"scope", "edges"} => DOMAIN sheet.values = {}
    /\ sheet.pc = "values" => sheet.periods \ DOMAIN sheet.values # {}
    /\ sheet.pc \in {"values", "totals"} => Drawn(sheet.edges)
    /\ sheet.pc \in InCall => DOMAIN sheet.values \subseteq sheet.periods
    /\ sheet.pc = "totals" => DOMAIN sheet.values = sheet.periods
    /\ HistoryShowsAll

\* The period an entry is put for is one without, and the last one if it ends
\* the map.
LEMMA PutNext ==
    ASSUME NEW m, NEW v, sheet.periods \in SUBSET Int, IsFiniteSet(sheet.periods),
           DOMAIN m \subseteq sheet.periods, sheet.periods \ DOMAIN m # {}
    PROVE  LET n == Put(m, NextPeriod(m), v)
           IN  /\ DOMAIN n \subseteq sheet.periods
               /\ Ends(m) => DOMAIN n = sheet.periods
               /\ ~Ends(m) => sheet.periods \ DOMAIN n # {}
<1> DEFINE S == sheet.periods \ DOMAIN m
           p == NextPeriod(m)
<1>1. S \in SUBSET Int /\ IsFiniteSet(S)
  BY FS_Subset
<1>2. \E q \in S : \A x \in S : q <= x
  BY <1>1, LeastExists
<1>3. p \in S
  BY <1>2 DEF NextPeriod
<1>4. DOMAIN Put(m, p, v) = DOMAIN m \cup {p}
  BY DEF Put, Upserted
<1>. HIDE DEF p
<1>5. Ends(m) => S = {p}
  BY <1>3 DEF Ends, One
<1>6. ~Ends(m) => S # {p}
  BY DEF Ends, One
<1>. QED  BY <1>3, <1>4, <1>5, <1>6 DEF p

LEMMA SheetStep ==
    ASSUME Rebuilt, ReportsGrow, SheetSound, [Next]_vars
    PROVE  SheetSound'
<1>1. CASE UNCHANGED sheet
  BY <1>1 DEF SheetSound, Drawn, HistoryShowsAll
<1>2. CASE SelectSheetPeriods
  <2> DEFINE P == SheetPeriods(db.raw, HistoryLength)
             of == [w \in Sheet(db.raw) |-> w.context.period]
             all == {of[w] : w \in DOMAIN of}
  <2>1. all \in SUBSET Int
    BY StoredRows DEF Sheet
  <2>2. IsFiniteSet(all)
    <3>1. DOMAIN of = Sheet(db.raw) /\ IsFiniteSet(Sheet(db.raw))
      BY StoredRows, FS_Subset DEF Sheet
    <3>. HIDE DEF of
    <3>. QED  BY <3>1, FiniteImage
  <2>3. P \in SUBSET all
    BY DEF SheetPeriods, LastOf
  <2>. HIDE DEF all
  <2>4. P \in SUBSET Int /\ IsFiniteSet(P)
    BY <2>1, <2>2, <2>3, FS_Subset
  <2>5. sheet' = IF P = {} THEN Answer("xbrl_balance_sheet_missing")
                 ELSE [pc |-> "scope", periods |-> P, selected |-> Empty,
                       edges |-> {}, values |-> Empty, totals |-> Empty]
    BY <1>2 DEF SelectSheetPeriods
  <2>. HIDE DEF P
  <2>. QED
    BY <2>4, <2>5 DEF Answer, Empty, SheetSound, InCall, SheetFields, HistoryShowsAll
<1>3. CASE SelectDocScope
  BY <1>3 DEF SelectDocScope, SheetAt, Answer, SheetSound, InCall, SheetFields, HistoryShowsAll
<1>4. CASE SelectEdges
  <2>1. Drawn(SheetEdges(db.edges, sheet.selected[MaxOf(sheet.periods)].doc))
    BY StoredRows
  <2>. QED
    BY <1>4, <2>1 DEF SelectEdges, SheetAt, Answer, SheetSound, InCall, SheetFields, HistoryShowsAll
<1>5. CASE SelectValues
  <2> DEFINE p == NextPeriod(sheet.values)
             n == Put(sheet.values, p, SheetValues(db.raw, p, sheet.selected[p]))
  <2>1. /\ sheet.pc = "values"
        /\ sheet' = [sheet EXCEPT !.values = n,
                         !.pc = IF Ends(sheet.values) THEN "totals" ELSE "values"]
    BY <1>5 DEF SelectValues, SheetAt
  <2>2. /\ DOMAIN n \subseteq sheet.periods
        /\ Ends(sheet.values) => DOMAIN n = sheet.periods
        /\ ~Ends(sheet.values) => sheet.periods \ DOMAIN n # {}
    BY <2>1, PutNext DEF SheetSound, InCall
  <2>. HIDE DEF n
  <2>. QED
    BY <2>1, <2>2 DEF SheetSound, InCall, SheetFields, HistoryShowsAll
<1>6. CASE SelectTotal
  <2>1. PICK total : sheet' = LET s == [sheet EXCEPT !.totals = Put(@, NextPeriod(sheet.totals), total)]
                              IN  IF Ends(sheet.totals) THEN Judged(s) ELSE s
    BY <1>6, Zenon DEF SelectTotal
  <2> DEFINE s == [sheet EXCEPT !.totals = Put(@, NextPeriod(sheet.totals), total)]
  <2>2. /\ sheet.pc = "totals" /\ SheetFields \subseteq DOMAIN sheet
        /\ Drawn(sheet.edges) /\ DOMAIN sheet.values = sheet.periods
    BY <1>6 DEF SelectTotal, SheetAt, SheetSound, InCall
  <2>3. /\ s.pc = "totals" /\ SheetFields \subseteq DOMAIN s /\ s.periods = sheet.periods
        /\ s.edges = sheet.edges /\ s.values = sheet.values
    BY <2>2 DEF SheetFields
  <2>4. sheet' = IF Ends(sheet.totals) THEN Judged(s) ELSE s
    BY <2>1
  <2>. HIDE DEF s
  <2>5. CASE ~Ends(sheet.totals)
    BY <2>2, <2>3, <2>4, <2>5 DEF SheetSound, InCall, HistoryShowsAll
  <2>6. CASE Ends(sheet.totals)
    <3>1. \/ sheet'.pc = "answered" /\ sheet'.error # "none"
          \/ /\ sheet'.pc = "answered" /\ sheet'.edges = s.edges /\ sheet'.values = s.values
             /\ sheet'.tree = Tree(s.edges, Valued(s))
      BY <2>4, <2>6 DEF Judged, Answer
    <3>2. \A n \in SheetNodes(s.edges) :
              n \in Tree(s.edges, Valued(s)) <=>
                  \/ n.concept \in Valued(s)
                  \/ Children(s.edges, n) \cap Tree(s.edges, Valued(s)) # {}
      BY <2>2, <2>3, TreeShowsAll DEF Drawn
    <3>3. Valued(s) = UNION {DOMAIN s.values[p] : p \in DOMAIN s.values}
      BY <2>2, <2>3 DEF Valued
    <3>4. CASE sheet'.error # "none"
      BY <3>1, <3>4 DEF SheetSound, InCall, HistoryShowsAll
    <3>5. CASE sheet'.error = "none"
      <4>1. /\ sheet'.edges = s.edges /\ sheet'.values = s.values
            /\ sheet'.tree = Tree(s.edges, Valued(s))
        BY <3>1, <3>5
      <4>2. UNION {DOMAIN sheet'.values[p] : p \in DOMAIN sheet'.values} = Valued(s)
        BY <3>3, <4>1
      <4>3. \A n \in SheetNodes(sheet'.edges) :
                n \in sheet'.tree <=>
                    \/ n.concept \in UNION {DOMAIN sheet'.values[p] : p \in DOMAIN sheet'.values}
                    \/ Children(sheet'.edges, n) \cap sheet'.tree # {}
        BY <3>2, <4>1, <4>2
      <4>4. HistoryShowsAll'
        BY <4>3, Zenon DEF HistoryShowsAll
      <4>. QED  BY <3>1, <4>4 DEF SheetSound, InCall
    <3>. QED  BY <3>4, <3>5
  <2>. QED  BY <2>5, <2>6
<1>7. CASE Answered
  BY <1>7 DEF Answered, SheetAt, Idle, SheetSound, InCall, HistoryShowsAll
<1>8. CASE Screening
  BY <1>1, <1>8, Zenon DEF Screening, SelectPlPeriod, SelectPeriodRows, SelectLatest, SelectShares,
     SelectHistory, SelectEquityPeriod, SelectInstruments, SelectStatus, SelectAdjustedPeriod,
     SelectAdjustments, Screened, At, ScreenUnchanged
<1>9. CASE \/ ReadEps \/ WriteEps \/ KillEps
           \/ \E count \in scenario.counts : SetShares(count)
           \/ \E e \in scenario.editions : SyncForecasts(e) \/ SyncDividends(e)
  BY <1>1, <1>9 DEF ReadEps, WriteEps, KillEps, SetShares, SyncForecasts, SyncDividends
<1>10. CASE \/ \E r \in scenario.reports : Record(r)
            \/ BeginParse \/ ReadReports \/ WriteTicker \/ KillParse \/ RunAgain
  BY <1>1, <1>10 DEF Record, BeginParse, ReadReports, WriteTicker, KillParse, RunAgain
<1>11. CASE UNCHANGED vars
  BY <1>1, <1>11 DEF vars
<1>. QED
  BY <1>2, <1>3, <1>4, <1>5, <1>6, <1>7, <1>8, <1>9, <1>10, <1>11 DEF Next, BalanceSheet

\* A balance sheet history shows the last report's nodes that have a value or
\* something to show below them, and no others, whatever is stored between its
\* SELECTs (get_balance_sheet_history).
THEOREM HistoriesShowAll == Spec => []HistoryShowsAll
<1>1. Init => SheetSound
  BY DEF Init, Idle, SheetSound, InCall, HistoryShowsAll
<1>2. SheetSound => HistoryShowsAll
  BY DEF SheetSound
<1>. QED  BY <1>1, <1>2, SheetStep, TablesRebuilt, ReportsGrowInvariant, PTL DEF Spec

-----------------------------------------------------------------------------
(***************************************************************************)
(* The equity summary.                                                     *)
(***************************************************************************)

\* One stated quantity per instrument.
Picks(rows) ==
    {m \in [Keys(rows) -> {r.shares : r \in rows} \ {Nil}] :
        \A k \in Keys(rows) : m[k] \in OfKey(rows, k)}

\* Each instrument states one quantity if there is one choice, and else there
\* is none or there are several.
LEMMA PicksAre ==
    ASSUME NEW rows
    PROVE  /\ (\E k \in Keys(rows) : ~One(OfKey(rows, k))) => ~One(Picks(rows))
           /\ (\A k \in Keys(rows) : One(OfKey(rows, k))) =>
                  Picks(rows) = {[k \in Keys(rows) |-> AnyOf(OfKey(rows, k))]}
<1>. DEFINE V == {r.shares : r \in rows} \ {Nil}
<1>1. \A k : OfKey(rows, k) \subseteq V
  BY DEF OfKey
<1>2. ASSUME NEW k \in Keys(rows), ~One(OfKey(rows, k)), NEW m, Picks(rows) = {m}
      PROVE  FALSE
  <2>1. m \in [Keys(rows) -> V] /\ \A j \in Keys(rows) : m[j] \in OfKey(rows, j)
    BY <1>2 DEF Picks
  <2>2. PICK x \in OfKey(rows, k) : x # m[k]
    BY <1>2, <2>1 DEF One
  <2>3. [m EXCEPT ![k] = x] \in Picks(rows)
    BY <1>1, <2>1, <2>2 DEF Picks
  <2>4. [m EXCEPT ![k] = x] # m
    BY <2>1, <2>2
  <2>. QED  BY <1>2, <2>3, <2>4
<1>3. ASSUME \A k \in Keys(rows) : One(OfKey(rows, k))
      PROVE  Picks(rows) = {[k \in Keys(rows) |-> AnyOf(OfKey(rows, k))]}
  <2>. DEFINE the == [k \in Keys(rows) |-> AnyOf(OfKey(rows, k))]
  <2>1. \A k \in Keys(rows) : OfKey(rows, k) = {AnyOf(OfKey(rows, k))}
    BY <1>3 DEF One, AnyOf
  <2>2. the \in Picks(rows)
    BY <1>1, <2>1 DEF Picks
  <2>3. \A m \in Picks(rows) : m = the
    BY <2>1 DEF Picks
  <2>. QED  BY <2>2, <2>3
<1>. QED  BY <1>2, <1>3 DEF One

\* An equity summary has the total of one quantity per instrument, or none if
\* they do not all state one, whatever a store leaves in the table
\* (get_potential_equity_summary).
THEOREM InstrumentsSummedOnce == Spec => []SummedOnce
<1>1. SummedOnce
  <2>. SUFFICES ASSUME NEW p \in {r.period : r \in db.instruments}
       PROVE  LET rows == {r \in db.instruments : r.period = p}
                  s == Summary(rows)
              IN  IF s.unresolved THEN s.total = Nil /\ ~One(Picks(rows))
                  ELSE Picks(rows) # {} /\ \A m \in Picks(rows) : s.total = SumOf(m)
    BY Zenon DEF SummedOnce, Picks
  <2>. DEFINE rows == {r \in db.instruments : r.period = p}
  <2>. HIDE DEF rows
  <2>1. CASE \E k \in Keys(rows) : ~One(OfKey(rows, k))
    BY <2>1, PicksAre DEF Summary, rows
  <2>2. CASE \A k \in Keys(rows) : One(OfKey(rows, k))
    <3>1. /\ Summary(rows).unresolved = FALSE
          /\ Summary(rows).total = SumOf([k \in Keys(rows) |-> AnyOf(OfKey(rows, k))])
      BY <2>2 DEF Summary
    <3>2. Picks(rows) = {[k \in Keys(rows) |-> AnyOf(OfKey(rows, k))]}
      BY <2>2, PicksAre
    <3>. QED  BY <3>1, <3>2 DEF rows
  <2>. QED  BY <2>1, <2>2
<1>. QED  BY <1>1, PTL
=============================================================================
