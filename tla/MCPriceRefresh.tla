--------------------------- MODULE MCPriceRefresh ---------------------------
(***************************************************************************)
(* Small instances of PriceRefresh.  tse trades in Tokyo and is in every   *)
(* Stooq file, nag and sap trade in Nagoya and Sapporo: nag is in some of  *)
(* the files of SomeListings, sap in none.                                 *)
(***************************************************************************)
EXTENDS PriceRefresh

CONSTANTS r1, r2, tse, nag, sap

SomeListings == {{tse}, {tse, nag}}
TseOnly == {{tse}}
=============================================================================
