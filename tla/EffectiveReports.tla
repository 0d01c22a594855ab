-------------------------- MODULE EffectiveReports --------------------------
(***************************************************************************)
(* Which of the annual reports and corrections that EDINET lists count:    *)
(* select_effective_reports of rust/src/edinet/historical.rs.  Documents   *)
(* are records; doc ids and submission times are numbers because the code  *)
(* compares them.                                                          *)
(***************************************************************************)
EXTENDS Integers

NoDoc == 0      \* parentDocID is missing
NoPeriod == 0   \* periodEnd is missing

Document(Id, Ticker, Period, Time) ==
    [id : Id, ticker : Ticker, period : Period \cup {NoPeriod}, submitted : Time,
     correction : BOOLEAN, parent : Id \cup {NoDoc}]

SupersededItself(C) == {c.id : c \in {d \in C : d.correction /\ d.parent # NoDoc}}
Superseded(C) == {c.parent : c \in {d \in C : d.correction}} \ {NoDoc}

Remaining(C) == {d \in C : d.id \notin Superseded(C)}

SamePeriod(d, e) ==
    /\ d.ticker = e.ticker
    /\ d.period = e.period
    /\ d.period = NoPeriod => d.id = e.id

Newer(d, e) ==
    \/ d.submitted > e.submitted
    \/ /\ d.submitted = e.submitted
       /\ \/ d.correction /\ ~e.correction
          \/ d.correction = e.correction /\ d.id > e.id

\* The active documents C without the superseded ones, the newest per period.
Effective(C) ==
    {d \in Remaining(C) : \A e \in Remaining(C) : SamePeriod(d, e) /\ e # d => Newer(d, e)}
=============================================================================
