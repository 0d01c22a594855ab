---------------------------- MODULE PriceTables ----------------------------
(***************************************************************************)
(* What the price tables of the stocks database say: observations, the     *)
(* rows of source_refresh_checks and the freshness queries of              *)
(* storage/prices.py over them.  Close and volume are left out: no query   *)
(* of the refresh looks at them.                                           *)
(***************************************************************************)
EXTENDS Integers

CONSTANTS
    Ticker,        \* ticker codes a source may quote
    LastDay,       \* bound: the calendar stops at this day
    BusinessDay,   \* the JPX business days of the calendar
    HoursPerDay    \* clock ticks in a day; a tick is one hour

Day == 0 .. LastDay
NoDay == -1
Obs == [ticker : Ticker, date : Day, source : {"stooq", "yahoo"}]

ASSUME CalendarAssumption ==
    /\ LastDay \in Nat \ {0}
    /\ BusinessDay \subseteq Day
    /\ 0 \in BusinessDay
    /\ HoursPerDay \in Nat \ {0}

(***************************************************************************)
(* A check row holds its target date and the ticks since checked_at.  A    *)
(* whole refresh and an empty database cool down for a day, a lagging      *)
(* database for an hour; ages saturate at a day, the longest span any      *)
(* query tells apart.                                                      *)
(***************************************************************************)
LaggedCooldown == 1
DayCooldown == HoursPerDay
CheckRow == [target : Day \cup {NoDay}, age : 0 .. DayCooldown]

NoCheck == [target |-> NoDay, age |-> DayCooldown]
Checked(d) == [target |-> d, age |-> 0]

Aged(c) == [c EXCEPT !.age = IF c.age < DayCooldown THEN c.age + 1 ELSE c.age]

RecentAnyTarget(c, d, cooldown) == c.age < cooldown
RecentOneLess(c, d, cooldown) == c.target = d /\ c.age + 1 < cooldown
RecentForever(c, d, cooldown) == c.target = d
Recent(c, d, cooldown) == c.target = d /\ c.age < cooldown

IsLatestBusinessDay(b, d) ==
    /\ b \in BusinessDay
    /\ b <= d
    /\ \A c \in BusinessDay : c <= d => c <= b

\* The newest price of t in P is of day d or later.
Fresh(t, d, P) == \E o \in P : o.ticker = t /\ o.date >= d

\* get_stale_price_tickers over the stocks S and the prices P.
StaleTickers(S, P, d) == {t \in S : ~Fresh(t, d, P)}

\* get_latest_price_date is None or older than d.
LagsNever(P, d) == P = {}
Lags(P, d) == \A o \in P : o.date < d
=============================================================================
