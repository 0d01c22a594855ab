-------------------------- MODULE InventoryTotals --------------------------
(***************************************************************************)
(* The inventory total of one XBRL context (rust/src/inventory.rs): an     *)
(* explicit total fact, else what the calculation linkbase sums to one,    *)
(* else what the presentation linkbase puts under one.                     *)
(*                                                                         *)
(* fact maps the concepts with a fact to a record with its value.  A link  *)
(* of a linkbase is a record [role, from, to, weight] with two locators,   *)
(* and an arc is one with the two concepts they name.                      *)
(***************************************************************************)
EXTENDS TagLists, FiniteSets, Sums

CONSTANT Nil   \* the value of a nil fact, and no total

L == INSTANCE SchemaLookup

Name(c) == [stem |-> c.stem, tail |-> c.tail]

ValueOf(fact, c) == IF c \in DOMAIN fact THEN fact[c].value ELSE Nil

Factful(fact) == {c \in DOMAIN fact : fact[c].value # Nil}

\* A locator of this module resolves only through a schema of the package.
Concept(schemas, l) == L!BySchema(schemas, l)

\* Each calculation arc that is read is one more edge of the graph, also one
\* that is read before; of presentation arcs the graph is a set.
Occurrences(links) ==
    {[role |-> links[n].role, from |-> links[n].from, to |-> links[n].to,
      weight |-> links[n].weight, nth |-> n] : n \in DOMAIN links}

Located(schemas, links) ==
    {a \in {[l EXCEPT !.from = Concept(schemas, @), !.to = Concept(schemas, @)] : l \in links} :
        a.from # None /\ a.to # None}

Roles(arcs) == {a.role : a \in arcs}
InRole(arcs, r) == {a \in arcs : a.role = r}
Nodes(arcs) == {a.from : a \in arcs} \cup {a.to : a \in arcs}
Roots(arcs) == {c \in Nodes(arcs) : IsTotal(Name(c))}
Kids(arcs, n) == {a.to : a \in {b \in arcs : b.from = n}}

\* No concepts each have a child among them.
NoCycle(arcs) ==
    \A U \in SUBSET Nodes(arcs) : U # {} => \E n \in U : Kids(arcs, n) \cap U = {}

\* Mutant: a parent's own fact is added to its children's.
EvaluateBoth(arcs, fact, root) ==
    LET val[c \in Nodes(arcs)] ==
            LET terms == {a \in arcs : a.from = c /\ val[a.to] # Nil}
                own == IF ValueOf(fact, c) = Nil THEN 0 ELSE ValueOf(fact, c)
            IN  IF terms # {}
                THEN own + SumOver([a \in terms |-> a.weight * val[a.to]], terms)
                ELSE ValueOf(fact, c)
    IN  val[root]

\* Children that have a value count, and then the parent's own fact does not.
Evaluate(arcs, fact, root) ==
    LET val[c \in Nodes(arcs)] ==
            LET terms == {a \in arcs : a.from = c /\ val[a.to] # Nil}
            IN  IF terms # {}
                THEN SumOver([a \in terms |-> a.weight * val[a.to]], terms)
                ELSE ValueOf(fact, c)
    IN  val[root]

Below(arcs, c) ==
    LET below[n \in Nodes(arcs) \cup {c}] ==
            UNION {{a.to} \cup below[a.to] : a \in {b \in arcs : b.from = n}}
    IN  below[c]

\* The factful concepts under root that have no factful one below them.
Deepest(arcs, fact, root) ==
    LET factful == ({root} \cup Below(arcs, root)) \cap Factful(fact)
    IN  {c \in factful : Below(arcs, c) \cap factful = {}}

PresentationSum(arcs, fact, root) ==
    LET deepest == Deepest(arcs, fact, root)
    IN  IF deepest = {} THEN Nil
        ELSE SumOver([c \in Factful(fact) |-> fact[c].value], deepest)

DirectCandidates(fact) == {fact[c].value : c \in {d \in Factful(fact) : IsTotal(Name(d))}}

CalculationCandidates(fact, arcs) ==
    (UNION {{Evaluate(InRole(arcs, r), fact, c) : c \in Roots(InRole(arcs, r))} :
              r \in Roles(arcs)}) \ {Nil}

PresentationCandidates(fact, arcs) ==
    (UNION {{PresentationSum(InRole(arcs, r), fact, c) : c \in Roots(InRole(arcs, r))} :
              r \in Roles(arcs)}) \ {Nil}

\* Components without a total, or a tag that only looks like inventory.
Unexplained(fact) == \E c \in Factful(fact) : IsComponent(Name(c)) \/ UnknownLike(Name(c))

\* The candidates of the first source that has any.
Candidates(fact, calc, pres) ==
    LET direct == DirectCandidates(fact)
        summed == CalculationCandidates(fact, calc)
    IN  IF direct # {} THEN direct
        ELSE IF summed # {} THEN summed
        ELSE PresentationCandidates(fact, pres)

\* Candidates that differ, or components nothing explains, refuse the report.
Refused(fact, calc, pres) ==
    \/ Cardinality(Candidates(fact, calc, pres)) > 1
    \/ Candidates(fact, calc, pres) = {} /\ Unexplained(fact)

InventoryTotal(fact, calc, pres) ==
    IF Candidates(fact, calc, pres) = {} THEN Nil
    ELSE CHOOSE v \in Candidates(fact, calc, pres) : TRUE
=============================================================================
