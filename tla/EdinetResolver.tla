--------------------------- MODULE EdinetResolver ---------------------------
(***************************************************************************)
(* Which stock a document of EDINET's list is about:                       *)
(* rust/src/edinet/resolver.rs and get_edinet_target_tickers.  A document  *)
(* is listed as [sec (the first four characters of its secCode), edinet    *)
(* (its edinetCode)]; codes are numbers.                                   *)
(***************************************************************************)
EXTENDS Integers

CONSTANTS
    Stocks,   \* the stocks table: tickers to their EDINET codes, each at most once
    Jpx       \* the codes that have the form of a security code

NoCode == 0   \* a missing code, and no ticker

SecTicker(listed) == IF listed.sec \in Jpx THEN listed.sec ELSE NoCode

WithCode(code) == {t \in DOMAIN Stocks : Stocks[t] = code /\ code # NoCode}

Target == {t \in DOMAIN Stocks : t \in Jpx \/ Stocks[t] # NoCode}

\* The security code decides, unless the stock with the EDINET code is another.
Resolves(listed, t) ==
    /\ t \in Target
    /\ IF SecTicker(listed) # NoCode
       THEN t = SecTicker(listed) /\ WithCode(listed.edinet) \subseteq {t}
       ELSE t \in WithCode(listed.edinet)
=============================================================================
