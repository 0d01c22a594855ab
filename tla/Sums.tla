-------------------------------- MODULE Sums --------------------------------
(***************************************************************************)
(* Sums over finite sets of numbers, by their recursion: what the folds of *)
(* FiniteSetsExt give, in a form that can be reasoned about.               *)
(***************************************************************************)
EXTENDS Integers

\* The sum of f[x] over the x in S, taken in some order.
SumOver(f, S) ==
    LET sum[T \in SUBSET S] ==
            IF T = {} THEN 0
            ELSE LET x == CHOOSE y \in T : TRUE
                 IN  f[x] + sum[T \ {x}]
    IN  sum[S]
=============================================================================
