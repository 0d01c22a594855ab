---------------------------- MODULE ReadModels -----------------------------
(***************************************************************************)
(* What the read models take from the tables of one ticker: the views of   *)
(* storage/sql, rust/src/screening.rs and rust/src/downstream.rs.  Each    *)
(* operator is one SELECT with what is made of its rows.                   *)
(*                                                                         *)
(* values maps a [context, statement, item, source] to a value.            *)
(***************************************************************************)
EXTENDS TickerParse

CONSTANT None   \* no context, role, period or document

\* Shikiho and computed values have a period and no context.
Plain(p) == [period |-> p, start |-> None, id |-> None, scope |-> "consolidated", members |-> 0]

MaxOf(S) == CHOOSE x \in S : \A y \in S : y <= x
Latest(S) == IF S = {} THEN None ELSE MaxOf(S)
\* Mutant: ORDER BY period ASC.
FirstOf(S, n) == {x \in S : Cardinality({y \in S : y < x}) < n}

LastOf(S, n) == {x \in S : Cardinality({y \in S : y > x}) < n}

(***************************************************************************)
(* canonical_financial_items.  A context with a period is stripped to it:  *)
(* rows of several contexts of one month stay.                             *)
(***************************************************************************)
EpsItem == {"eps_current", "eps_next"}

Canonical(values) ==
    {k \in DOMAIN values :
        \/ k.statement = "forecast" /\ k.item \in EpsItem /\ k.source = "computed"
        \/ k.statement = "forecast" /\ k.item \notin EpsItem /\ k.source = "shikiho"
        \/ k.statement = "dividend" /\ k.source = "shikiho"
        \/ k.statement \in {"bs", "pl", "cf"} /\ k.source = "edinet_xbrl"}

Periods(values, statement) ==
    {k.context.period : k \in {c \in Canonical(values) : c.statement = statement}}

(***************************************************************************)
(* Screening.  Rows of one item are put into a map in no given order: any  *)
(* of them may be the last.                                                *)
(***************************************************************************)
Named(keys) == {[statement |-> k.statement, item |-> k.item] : k \in keys}

Maps(values, keys) ==
    {f \in [Named(keys) -> {values[k] : k \in keys}] :
        \A n \in Named(keys) : \E k \in keys :
            k.statement = n.statement /\ k.item = n.item /\ f[n] = values[k]}

OfPeriod(values, p) == {k \in Canonical(values) : k.context.period = p}

LatestStatement(values, statement, sources) ==
    LET keys == {k \in Canonical(values) : k.statement = statement /\ k.source \in sources}
    IN  {k \in keys : k.context.period = Latest({j.context.period : j \in keys})}

History(values, statement, p) == {k \in OfPeriod(values, p) : k.statement = statement}

Histories(values, statement, periods) ==
    {h \in [periods -> UNION {Maps(values, History(values, statement, p)) : p \in periods}] :
        \A p \in periods : h[p] \in Maps(values, History(values, statement, p))}

LatestFinancialPeriod(values) == Latest(Periods(values, "bs") \cup Periods(values, "pl"))

OfKey(rows, key) == {r.shares : r \in {x \in rows : x.key = key}} \ {Nil}
Keys(rows) == {r.key : r \in rows}
AnyOf(S) == CHOOSE x \in S : TRUE
One(S) == \E x \in S : S = {x}

\* The sum of a map of numbers.
SumOf(m) == MapThenSumSet(LAMBDA k : m[k], DOMAIN m)

\* Mutant: every block of text counts.
SummaryOfRows(rows) ==
    LET unresolved == \E k \in Keys(rows) : OfKey(rows, k) = {}
    IN  [present |-> TRUE, unresolved |-> unresolved,
         total |-> IF unresolved THEN Nil ELSE
                     MapThenSumSet(LAMBDA r : r.shares, {x \in rows : x.shares # Nil})]

\* Instruments with one quantity are summed if no other is without.
Summary(rows) ==
    LET unresolved == \E k \in Keys(rows) : ~One(OfKey(rows, k))
    IN  [present |-> TRUE, unresolved |-> unresolved,
         total |-> IF unresolved THEN Nil
                   ELSE SumOf([k \in Keys(rows) |-> AnyOf(OfKey(rows, k))])]

StatusSummary(rows) ==
    IF \E s \in rows : s.present THEN [present |-> TRUE, unresolved |-> TRUE, total |-> Nil]
    ELSE IF rows # {} THEN [present |-> FALSE, unresolved |-> FALSE, total |-> 0]
    ELSE [present |-> Nil, unresolved |-> FALSE, total |-> Nil]

Increase(rows) ==
    IF rows = {} \/ \E k \in Keys(rows) : ~One(OfKey(rows, k)) THEN Nil
    ELSE SumOf([k \in Keys(rows) |-> AnyOf(OfKey(rows, k))])

(***************************************************************************)
(* Balance sheet history.                                                  *)
(***************************************************************************)
Sheet(raw) == {w \in raw : w.statement = "bs"}

SheetPeriods(raw, n) == LastOf({w.context.period : w \in Sheet(raw)}, n)

Groups(raw, p) ==
    {[doc |-> w.doc, scope |-> w.context.scope] :
        w \in {x \in Sheet(raw) : x.context.period = p /\ x.value # Nil}}

OfGroup(raw, p, g) ==
    {w \in Sheet(raw) : w.context.period = p /\ w.doc = g.doc /\ w.context.scope = g.scope}

\* A group with roles comes first, then consolidated, then by roles, facts
\* and document.
Better(raw, p, g, h) ==
    LET facts(x) == {w \in OfGroup(raw, p, x) : w.value # Nil}
        roles(x) == {w \in facts(x) : w.role # None}
        class(x) ==
            CASE x.scope = "consolidated" /\ roles(x) # {} -> 0
              [] x.scope = "non_consolidated" /\ roles(x) # {} -> 1
              [] x.scope = "consolidated" -> 2
              [] OTHER -> 3
        order(x) == <<-class(x), Cardinality(roles(x)), Cardinality(facts(x)), x.doc>>
    IN  \E i \in 1 .. 4 :
            order(g)[i] > order(h)[i] /\ \A j \in 1 .. i - 1 : order(g)[j] = order(h)[j]

DocScope(raw, p) ==
    CHOOSE g \in Groups(raw, p) : \A h \in Groups(raw, p) \ {g} : Better(raw, p, g, h)

SheetEdges(edges, doc) == {e \in edges : e.doc = doc /\ e.statement = "bs"}

\* Per concept the first value that is not null: without members first, then
\* fewer of them, with a role, by context.
SheetValues(raw, p, g) ==
    LET rows(c) == {w \in OfGroup(raw, p, g) : w.concept = c /\ w.value # Nil}
        order(w) == <<w.context.members, IF w.role # None THEN 0 ELSE 1, w.context.id>>
        first(w, x) == \E i \in 1 .. 3 :
            order(w)[i] < order(x)[i] /\ \A j \in 1 .. i - 1 : order(w)[j] = order(x)[j]
        best(c) == CHOOSE w \in rows(c) : \A x \in rows(c) : ~first(x, w)
    IN  [c \in {w.concept : w \in {x \in OfGroup(raw, p, g) : x.value # Nil}} |-> best(c).value]

\* LIMIT 1 takes any row of the month.
TotalAssets(values, p) ==
    LET rows == {k \in DOMAIN values : /\ k.source = "edinet_xbrl" /\ k.statement = "bs"
                                       /\ k.item = "total_assets" /\ k.context.period = p}
    IN  IF rows = {} THEN {Nil} ELSE {values[k] : k \in rows}

Node(e, c) == [role |-> e.role, concept |-> c]
Children(edges, n) == {Node(e, e.child) : e \in {x \in edges : Node(x, x.parent) = n}}
SheetNodes(edges) == {Node(e, e.parent) : e \in edges} \cup {Node(e, e.child) : e \in edges}
SheetRoots(edges) == {Node(e, e.parent) : e \in edges} \ {Node(e, e.child) : e \in edges}

\* No nodes each have a child among them.
Acyclic(edges) ==
    \A S \in SUBSET SheetNodes(edges) : S # {} => \E n \in S : Children(edges, n) \cap S = {}

\* Mutant: a node without a value goes, with all below it.
TreeCut(edges, valued) ==
    LET tree[n \in SheetNodes(edges)] ==
            IF n.concept \in valued THEN {n} \cup UNION {tree[m] : m \in Children(edges, n)} ELSE {}
    IN  UNION {tree[r] : r \in SheetRoots(edges)}

\* The nodes that stay at and below each node.  One without a value stays for
\* what is below it.
Subtrees(edges, valued) ==
    LET tree[n \in SheetNodes(edges)] ==
            LET below == UNION {tree[m] : m \in Children(edges, n)}
            IN  IF n.concept \in valued \/ below # {} THEN {n} \cup below ELSE {}
    IN  tree

Tree(edges, valued) == UNION {Subtrees(edges, valued)[r] : r \in SheetRoots(edges)}
=============================================================================
