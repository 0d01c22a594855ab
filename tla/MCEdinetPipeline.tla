-------------------------- MODULE MCEdinetPipeline --------------------------
(***************************************************************************)
(* Small instances of EdinetPipeline: a report, its correction a day later *)
(* that has no secCode, a report of another company, and a correction of   *)
(* that one whose two codes name different stocks.                         *)
(***************************************************************************)
EXTENDS EdinetPipeline, TLC

CONSTANTS r1, r2

Original ==
    [id |-> 1, ticker |-> 1, period |-> 202403, submitted |-> 1, correction |-> FALSE, parent |-> NoDoc]
Correction ==
    [id |-> 2, ticker |-> 1, period |-> 202403, submitted |-> 2, correction |-> TRUE, parent |-> 1]
Other ==
    [id |-> 3, ticker |-> 2, period |-> 202403, submitted |-> 1, correction |-> FALSE, parent |-> NoDoc]

Stray ==
    [id |-> 4, ticker |-> 2, period |-> 202403, submitted |-> 1, correction |-> TRUE, parent |-> 3]

MCStocks == 1 :> 11 @@ 2 :> NoCode
MCCodes ==
    LET code(s, e) == [sec |-> s, edinet |-> e]
    IN  <<code(1, NoCode), code(NoCode, 11), code(2, NoCode), code(2, 11)>>

TwoCompanies == {Original, Correction, Other, Stray}
OneReport == {Original}
RunSymmetry == Permutations(Run)
=============================================================================
