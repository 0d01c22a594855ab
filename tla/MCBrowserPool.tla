--------------------------- MODULE MCBrowserPool ---------------------------
(***************************************************************************)
(* Small instances of BrowserPool.                                         *)
(***************************************************************************)
EXTENDS BrowserPool, TLC

CONSTANTS q1, q2, direct, proxy, b1, b2, b3

PoolSymmetry == Permutations(Request) \cup Permutations(Browser)
=============================================================================
