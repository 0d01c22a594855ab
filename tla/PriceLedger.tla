---------------------------- MODULE PriceLedger ----------------------------
(***************************************************************************)
(* What the refresh pipeline promises to a reader of the stocks database,  *)
(* whatever processes run, wait, fail or die inside it: the committed      *)
(* tables change only by whole transactions.  A Stooq file arrives with    *)
(* its check row, Yahoo quotes arrive as a batch, a whole refresh is       *)
(* checked off only with every stock it covers fresh, and nothing that was *)
(* stored goes away.                                                       *)
(***************************************************************************)
EXTENDS PriceTables

VARIABLES stocks, prices, stooqCheck, refreshCheck,
          vouched    \* the stocks refreshCheck speaks for

vars == <<stocks, prices, stooqCheck, refreshCheck, vouched>>

Init ==
    /\ stocks \subseteq Ticker
    /\ prices \subseteq Obs
    /\ stooqCheck = NoCheck /\ refreshCheck = NoCheck
    /\ vouched = {}

HourPasses ==
    /\ stooqCheck' = Aged(stooqCheck)
    /\ refreshCheck' = Aged(refreshCheck)
    /\ UNCHANGED <<stocks, prices, vouched>>

AddStock ==
    /\ \E t \in Ticker : stocks' = stocks \cup {t}
    /\ UNCHANGED <<prices, stooqCheck, refreshCheck, vouched>>

\* Rows of one source for known stocks, none taken away.
Store(source, days) ==
    \E new \in SUBSET {o \in Obs : o.source = source /\ o.ticker \in stocks} :
        /\ \E d \in days : \A o \in new : source = "stooq" => o.date = d
        /\ prices' = prices \cup new

StoreFile ==
    /\ Store("stooq", Day)
    /\ \E d \in Day : stooqCheck' = Checked(d)
    /\ UNCHANGED <<stocks, refreshCheck, vouched>>

StoreQuotes ==
    /\ Store("yahoo", Day)
    /\ UNCHANGED <<stocks, stooqCheck, refreshCheck, vouched>>

\* Quotes and the check that closes the refresh are one transaction.
Confirm ==
    /\ Store("yahoo", Day)
    /\ \E d \in Day, covered \in SUBSET stocks :
        /\ \A t \in covered : Fresh(t, d, prices')
        /\ refreshCheck' = Checked(d)
        /\ vouched' = covered
    /\ UNCHANGED <<stocks, stooqCheck>>

Next == HourPasses \/ AddStock \/ StoreFile \/ StoreQuotes \/ Confirm

Spec == Init /\ [][Next]_vars
=============================================================================
