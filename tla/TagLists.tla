------------------------------ MODULE TagLists ------------------------------
(***************************************************************************)
(* The tag lists of rust/src/xml_util.rs: what the local name of a concept *)
(* says of inventories and of share counts.  A name is [stem, tail], its   *)
(* words in order.  Tags holds the compiled-in lists: totals, components   *)
(* and exempt, sets of names; keywords and fragments, sets of words that a *)
(* name may contain; and issued, the share counts, the preferred first.    *)
(***************************************************************************)
EXTENDS Integers, Sequences

CONSTANTS Tags, None

Words(n) == {n.stem} \cup {n.tail[i] : i \in DOMAIN n.tail}

IsTotal(n) == n \in Tags.totals
IsComponent(n) == n \in Tags.components

LooksLike(n) == Words(n) \cap Tags.keywords # {}

\* Construction in progress is an inventory under IFRS only.
Ignored(n) ==
    \/ n \in Tags.exempt
    \/ IF n.stem = "ConstructionInProgress" THEN n.tail # <<"CAIFRS">>
       ELSE Words(n) \cap Tags.fragments # {}

\* unknown_inventory_like_tags: none of the lists has the name.
UnknownLike(n) == LooksLike(n) /\ ~Ignored(n) /\ ~IsTotal(n) /\ ~IsComponent(n)

\* The names of the share counts, and their places in the order.
ShareCount(n) == \E i \in DOMAIN Tags.issued : Tags.issued[i] = n

IssuedPriority(n) ==
    IF ShareCount(n) THEN (CHOOSE i \in DOMAIN Tags.issued : Tags.issued[i] = n) - 1 ELSE None

\* A share count names no class, whatever its label says.
ClassByName(n, class) == IF ShareCount(n) THEN None ELSE class
=============================================================================
