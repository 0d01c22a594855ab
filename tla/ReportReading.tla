--------------------------- MODULE ReportReading ---------------------------
(***************************************************************************)
(* Reading one XBRL report into canonical statements: rust/src/artifact.rs *)
(* (load_xbrl_artifact), linkbase.rs, inventory.rs, share_classes.rs and   *)
(* financials.rs.  Documents come in the order of read_dir, the concepts   *)
(* of a context in the order of a HashSet: both are arbitrary.             *)
(*                                                                         *)
(* A package is a record [directory, holds (has an XBRL directory), files, *)
(* labelled (its label files are well-formed), contexts, schemas, declared *)
(* (see SchemaLookup), links, calc].                                       *)
(* A file is [public, kind ("xbrl", "inline", "other"), dated (names the   *)
(* fiscal year end), sound (well-formed), facts], a fact [concept,         *)
(* context, unit, decimals, nil, digits, scale, marks, relevant (to        *)
(* potential equity), inside (nested in an inline text block)].  Contexts  *)
(* are numbers in the order of their keys.                                 *)
(***************************************************************************)
EXTENDS Decimals, FiniteSets, Sequences, SequencesExt, Sums

CONSTANTS
    Package,    \* the packages a report may come as
    Taxonomy,   \* the compiled-in tables
    Tags,       \* the compiled-in tag lists
    None        \* no item, statement, role, period, class or context

I == INSTANCE InventoryTotals
S == INSTANCE InstanceScan
T == INSTANCE ConceptLookup
L == INSTANCE SchemaLookup

Elements(p) == UNION {{d.facts[i] : i \in DOMAIN d.facts} : d \in p.files}

ASSUME PackageAssumption ==
    \A p \in Package :
        /\ IsFiniteSet(p.links)
        /\ p.calc \in Seq({p.calc[n] : n \in DOMAIN p.calc})
        /\ \A n \in DOMAIN p.calc : p.calc[n].weight \in Int
        /\ DOMAIN p.contexts \subseteq Int /\ None \notin DOMAIN p.contexts
        /\ \A d \in p.files : d.facts \in Seq(Elements(p))
        /\ \A f \in Elements(p) :
               /\ f.decimals \in Decimal /\ S!Value(f) \in Int \cup {Nil}
               /\ T!Canonical(f.concept) # None => T!Canonical(f.concept).priority \in Nat

\* The arcs of a role form no cycle.  In one, what the code finds depends on the
\* concept its walk starts from (evaluate_calculation: visiting, memo).
ASSUME LinkbaseAssumption ==
    \A p \in Package : p.directory =>
        \A arcs \in {I!Located(p.schemas, I!Occurrences(p.calc)), I!Located(p.schemas, p.links)} :
            \A r \in I!Roles(arcs) : I!NoCycle(I!InRole(arcs, r))

VARIABLES
    package,    \* the package read
    pc,         \* the stage: "open", "read", "dedupe", "total", "insert", "shares", "flag",
                \* "done" or "failed"
    unread,     \* fact documents not read yet
    facts,      \* facts left in the document being read
    bucket,     \* the six fact maps: [kind, context, concept] to its value and decimals
    merged,     \* history: per bucket key, the values merged into it
    pushed,     \* raw statement rows, in document order
    raw,        \* raw statement rows without duplicates
    classes,    \* share_class_facts, in document order
    texts,      \* text_facts
    inventory,  \* per context: the inventory total
    at,         \* the context whose statements are built
    left,       \* its concepts not inserted yet
    items       \* [context, statement, item] to its CanonicalStatementItem

reading == <<unread, facts, bucket, merged, pushed, classes, texts>>
building == <<inventory, at, left, items>>
vars == <<package, pc, reading, raw, building>>

Empty == [x \in {} |-> x]
Put(f, k, e) == [x \in DOMAIN f \cup {k} |-> IF x = k THEN e ELSE f[x]]

Stop == pc' = "failed" /\ UNCHANGED <<package, reading, raw, building>>

(***************************************************************************)
(* Fact documents.                                                         *)
(***************************************************************************)
Public == {f \in package.files : f.public}
PublicInstances == {f \in Public : f.kind = "xbrl"}
PublicInline == {f \in Public : f.kind = "inline"}

\* iter_fact_document_paths, is_valid_xbrl_text: every instance and every
\* dated inline document.
Discovered == {f \in package.files : f.kind = "xbrl" \/ (f.kind = "inline" /\ f.dated)}

FactDocuments ==
    IF ~package.directory THEN package.files
    ELSE IF PublicInstances # {} THEN PublicInstances \cup PublicInline
    ELSE IF PublicInline # {} THEN PublicInline
    ELSE Discovered

Reported(f) ==
    IF f.kind = "xbrl" THEN f.facts ELSE S!InlineFacts(f, PublicInstances = {})

Init ==
    /\ package \in Package
    /\ pc = "open"
    /\ unread = {} /\ facts = <<>>
    /\ bucket = Empty /\ merged = Empty
    /\ pushed = <<>> /\ raw = Empty
    /\ classes = <<>> /\ texts = {}
    /\ inventory = Empty /\ at = None /\ left = {} /\ items = Empty

\* A package without an XBRL directory reads as an empty artifact.
OpenEmpty ==
    /\ pc = "open"
    /\ package.directory /\ ~package.holds
    /\ pc' = "dedupe"
    /\ UNCHANGED <<package, reading, raw, building>>

\* A single file that is no instance, no document, a malformed document or a
\* malformed label file end the reading.
OpenFails ==
    /\ pc = "open"
    /\ package.directory => package.holds
    /\ \/ ~package.directory /\ \E f \in package.files : f.kind # "xbrl"
       \/ FactDocuments = {}
       \/ \E f \in FactDocuments : ~f.sound
       \/ ~package.labelled
    /\ Stop

Open ==
    /\ pc = "open"
    /\ package.directory => package.holds
    /\ ~package.directory => \A f \in package.files : f.kind = "xbrl"
    /\ FactDocuments # {}
    /\ \A f \in FactDocuments : f.sound
    /\ package.labelled
    /\ pc' = "read"
    /\ unread' = FactDocuments
    /\ UNCHANGED <<package, facts, bucket, merged, pushed, classes, texts, raw, building>>

NextDocument(f) ==
    /\ pc = "read" /\ facts = <<>>
    /\ f \in unread
    /\ unread' = unread \ {f}
    /\ facts' = Reported(f)
    /\ UNCHANGED <<package, pc, bucket, merged, pushed, classes, texts, raw, building>>

(***************************************************************************)
(* The statements a concept is presented in.  A link is [role (its words), *)
(* from, to (locators), weight]; an arc has the concepts they name.        *)
(***************************************************************************)
ConceptAt(l) == L!Located(package.schemas, package.declared, l)

Presented ==
    {a \in {[role |-> l.role, from |-> ConceptAt(l.from), to |-> ConceptAt(l.to)] : l \in package.links} :
        package.directory /\ None \notin {a.from, a.to}}

Ends(a) == {a.from, a.to}

RolesOf(c) ==
    {[statement |-> S!StatementOf(a.role), role |-> a.role] :
        a \in {b \in Presented : c \in Ends(b) /\ S!StatementOf(b.role) # None}}

(***************************************************************************)
(* One fact.                                                               *)
(***************************************************************************)
Known(f) == f.context \in DOMAIN package.contexts
ContextAt(x) == S!ContextOf(package.contexts[x])
Context(f) == ContextAt(f.context)

\* should_use_context, for each bucket.
Group(x) == x.consolidated /\ x.members = 0
Parent(x) == ~x.consolidated /\ x.members = 1

Kind(f) == S!UnitKind(f.unit)

\* Mutant: the parent's values fill the group's statements.
KindsMixed(f) ==
    LET x == Context(f)
    IN  IF Kind(f) = "Shares"
        THEN {k \in {"shares"} : I!ShareCount(I!Name(f.concept)) /\ Group(x) /\ x.instant}
        ELSE {k \in {"financial"} : Group(x) \/ Parent(x)}
             \cup {k \in {"inventory"} : Group(x) /\ x.instant}

Kinds(f) ==
    LET x == Context(f)
    IN  IF Kind(f) = "Shares"
        THEN {k \in {"shares"} : I!ShareCount(I!Name(f.concept)) /\ Group(x) /\ x.instant}
        ELSE {k \in {"financial"} : Group(x)}
             \cup {k \in {"inventory"} : Group(x) /\ x.instant}
             \cup {k \in {"parent_financial", "parent_dividend"} : Parent(x)}
             \cup {k \in {"parent_inventory"} : Parent(x) /\ x.instant}

Stored(f) == IF Context(f).period = None \/ Kind(f) = "Other" THEN {} ELSE Kinds(f)

Key(k, f) == [kind |-> k, context |-> f.context, concept |-> f.concept]

Statement(f) == [value |-> S!Value(f), decimals |-> f.decimals]

\* Mutant: the last value wins.
MergeLast(new, old) == IF new.value # Nil THEN new ELSE old

\* store_concept_value.
Merge(new, old) ==
    IF Improves(new, old) THEN new
    ELSE IF new.value = Nil /\ old.value = Nil /\ MorePrecise(new, old)
         THEN [old EXCEPT !.decimals = new.decimals]
         ELSE old

Conflicts(f) == \E k \in Stored(f) :
    Key(k, f) \in DOMAIN bucket /\ Contradicts(Statement(f), bucket[Key(k, f)])

\* Without a role an instant of the group or the parent is balance sheet, and
\* a duration goes by the taxonomy.
Unpresented(c, x) ==
    {s \in {"bs"} : ContextAt(x).instant /\ (Group(ContextAt(x)) \/ Parent(ContextAt(x)))}
    \cup {s \in {"bs", "pl", "cf"} : ~ContextAt(x).instant /\ s = T!StatementOfConcept(c)}

Placed(c, x) ==
    IF RolesOf(c) # {} THEN RolesOf(c)
    ELSE {[statement |-> s, role |-> None] : s \in Unpresented(c, x)}

\* One raw row per statement role of the concept.
Rows(f) ==
    IF Context(f).period = None \/ Kind(f) \notin {"JPY", "JPYPerShare"} THEN {}
    ELSE {[statement |-> r.statement, role |-> r.role, context |-> f.context,
           concept |-> f.concept, unit |-> f.unit, value |-> S!Value(f), decimals |-> f.decimals] :
             r \in Placed(f.concept, f.context)}

\* build_share_class_fact: by the member of the axis, else by the concept.
ShareClass(f) ==
    LET x == Context(f)
        issued == I!IssuedPriority(I!Name(f.concept))
        named == I!ClassByName(I!Name(f.concept), f.concept.class)
        row(class, kind, priority) ==
            [period |-> x.period, class |-> class, shares |-> S!Value(f), kind |-> kind,
             priority |-> priority]
    IN  IF Kind(f) # "Shares" \/ S!Value(f) = Nil \/ x.period = None THEN <<>>
        ELSE IF issued # None /\ x.class # None
        THEN IF x.class.total THEN <<>> ELSE <<row(x.class, 1, issued)>>
        ELSE IF named # None THEN <<row(named, 0, 0)>>
        ELSE <<>>

Skip ==
    /\ pc = "read" /\ facts # <<>>
    /\ ~Known(Head(facts))
    /\ facts' = Tail(facts)
    /\ UNCHANGED <<package, pc, unread, bucket, merged, pushed, classes, texts, raw, building>>

Disagree ==
    /\ pc = "read" /\ facts # <<>>
    /\ Known(Head(facts)) /\ Conflicts(Head(facts))
    /\ Stop

Read ==
    /\ pc = "read" /\ facts # <<>>
    /\ LET f == Head(facts)
           keys == {Key(k, f) : k \in Stored(f)}
       IN  /\ Known(f) /\ ~Conflicts(f)
           /\ bucket' = [k \in DOMAIN bucket \cup keys |->
                  IF k \notin keys THEN bucket[k]
                  ELSE IF k \in DOMAIN bucket THEN Merge(Statement(f), bucket[k])
                  ELSE Statement(f)]
           /\ merged' = [k \in DOMAIN merged \cup keys |->
                  (IF k \in DOMAIN merged THEN merged[k] ELSE {})
                  \cup (IF k \in keys THEN {Statement(f)} ELSE {})]
           /\ pushed' = pushed \o SetToSeq(Rows(f))
           /\ classes' = classes \o ShareClass(f)
           /\ texts' = IF S!TextFact(f) /\ Context(f).period # None
                       THEN texts \cup {[concept |-> f.concept, context |-> f.context]}
                       ELSE texts
    /\ facts' = Tail(facts)
    /\ UNCHANGED <<package, pc, unread, raw, building>>

ReadEnds ==
    /\ pc = "read" /\ facts = <<>> /\ unread = {}
    /\ pc' = "dedupe"
    /\ UNCHANGED <<package, reading, raw, building>>

(***************************************************************************)
(* dedupe_raw_statement_facts, a row at a time.                            *)
(***************************************************************************)
RowKey(r) ==
    [statement |-> r.statement, role |-> r.role, context |-> r.context, concept |-> r.concept]

RowConflicts(r) ==
    /\ RowKey(r) \in DOMAIN raw
    /\ LET old == raw[RowKey(r)]
       IN  r.unit # old.unit \/ Contradicts(r, old)

Dedupe ==
    /\ pc = "dedupe" /\ pushed # <<>>
    /\ LET r == Head(pushed)
       IN  /\ ~RowConflicts(r)
           /\ raw' = IF RowKey(r) \in DOMAIN raw /\ ~Improves(r, raw[RowKey(r)])
                     THEN raw ELSE Put(raw, RowKey(r), r)
    /\ pushed' = Tail(pushed)
    /\ UNCHANGED <<package, pc, unread, facts, bucket, merged, classes, texts, building>>

DedupeFails ==
    /\ pc = "dedupe" /\ pushed # <<>>
    /\ RowConflicts(Head(pushed))
    /\ Stop

DedupeEnds ==
    /\ pc = "dedupe" /\ pushed = <<>>
    /\ pc' = "total"
    /\ UNCHANGED <<package, reading, raw, building>>

(***************************************************************************)
(* Inventory totals.                                                       *)
(***************************************************************************)
Contexts(kind) == {k.context : k \in {j \in DOMAIN bucket : j.kind = kind}}

Concepts(kind, x) ==
    {k.concept : k \in {j \in DOMAIN bucket : j.kind = kind /\ j.context = x}}

FactsOf(kind, x) ==
    [c \in Concepts(kind, x) |-> bucket[[kind |-> kind, context |-> x, concept |-> c]]]

\* Only a package has linkbases.
Calculation ==
    IF package.directory THEN I!Located(package.schemas, I!Occurrences(package.calc)) ELSE {}
Presentation == IF package.directory THEN I!Located(package.schemas, package.links) ELSE {}

TotalRefused(x) == I!Refused(FactsOf("inventory", x), Calculation, Presentation)

Total ==
    /\ pc = "total"
    /\ \A x \in Contexts("inventory") : ~TotalRefused(x)
    /\ inventory' = [x \in Contexts("inventory") |->
           I!InventoryTotal(FactsOf("inventory", x), Calculation, Presentation)]
    /\ pc' = "next"
    /\ UNCHANGED <<package, reading, raw, at, left, items>>

TotalFails ==
    /\ pc = "total"
    /\ \E x \in Contexts("inventory") : TotalRefused(x)
    /\ Stop

(***************************************************************************)
(* Share classes: rows by the axis count for the latest period.            *)
(***************************************************************************)
Financial ==
    UNION {Contexts(k) : k \in {"financial", "parent_financial", "inventory", "parent_inventory"}}

ClassPeriod(r) ==
    IF r.kind = 1 /\ Financial # {}
    THEN ContextAt(CHOOSE x \in Financial : \A y \in Financial : y <= x).period
    ELSE r.period

\* The row kept per period and class: lowest priority, then the concept's
\* own, then the first read.
Kept(i) == \A j \in DOMAIN classes :
    LET r == classes[i]  o == classes[j]
    IN  ClassPeriod(o) = ClassPeriod(r) /\ o.class = r.class =>
            \/ r.priority < o.priority
            \/ r.priority = o.priority /\ (r.kind < o.kind \/ (r.kind = o.kind /\ i <= j))

PreferredIn(period) == \E i \in DOMAIN classes :
    /\ Kept(i)
    /\ ClassPeriod(classes[i]) = period
    /\ classes[i].class.preferred /\ classes[i].shares > 0

(***************************************************************************)
(* Canonical statements, context by context from the latest.               *)
(***************************************************************************)
\* Only a reviewed concept is routed, and only into a statement it is known in.
RawStatements(c) == {r.statement : r \in {q \in DOMAIN raw : q.concept = c}}

StatementFor(c) ==
    IF T!StatementOfConcept(c) # None THEN T!StatementOfConcept(c)
    ELSE IF "bs" \in RawStatements(c) THEN "bs"
    ELSE IF "pl" \in RawStatements(c) THEN "pl"
    ELSE IF "cf" \in RawStatements(c) THEN "cf"
    ELSE c.named

Semantic(c) == T!Status(c) = "semantic"
Item(c) == T!Canonical(c).item
Priority(c) == T!Canonical(c).priority

Routed(c) == Semantic(c) /\ StatementFor(c) # None

\* The most precise decimals of the concept's raw rows in the context.
DecimalsOf(x, c) ==
    LET rows == {raw[r].decimals : r \in {q \in DOMAIN raw : q.concept = c /\ q.context = x}}
    IN  IF rows = {} THEN Blank ELSE CHOOSE d \in rows : \A e \in rows : e <= d

ItemKey(statement, item) == [context |-> at, statement |-> statement, item |-> item]

Entry(value, priority, decimals, source) ==
    [value |-> value, priority |-> priority, decimals |-> decimals, source |-> source]

\* insert_canonical_item.
Ambiguous(k, e) ==
    k \in DOMAIN items /\ e.priority = items[k].priority /\ Contradicts(e, items[k])

\* Mutant: the first concept of an item keeps it.
InsertFirst(k, e) ==
    IF k \notin DOMAIN items \/ Improves(e, items[k]) THEN Put(items, k, e) ELSE items

Insert(k, e) ==
    IF \/ k \notin DOMAIN items
       \/ e.priority > items[k].priority
       \/ e.priority = items[k].priority /\ Improves(e, items[k])
    THEN Put(items, k, e) ELSE items

\* Earlier is later in the code's descending order.
Remaining == {x \in Contexts("financial") : at = None \/ x < at}

NextContext ==
    /\ pc = "next" /\ Remaining # {}
    /\ at' = CHOOSE x \in Remaining : \A y \in Remaining : y <= x
    /\ left' = {c \in Concepts("financial", at') : Routed(c)}
    /\ pc' = "insert"
    /\ UNCHANGED <<package, reading, raw, inventory, items>>

ConceptEntry(c) == Entry(bucket[[kind |-> "financial", context |-> at, concept |-> c]].value,
                         Priority(c), DecimalsOf(at, c), c)

InsertConcept(c) ==
    /\ pc = "insert" /\ c \in left
    /\ LET k == ItemKey(StatementFor(c), Item(c))
       IN  ~Ambiguous(k, ConceptEntry(c)) /\ items' = Insert(k, ConceptEntry(c))
    /\ left' = left \ {c}
    /\ UNCHANGED <<package, pc, reading, raw, inventory, at>>

InsertFails(c) ==
    /\ pc = "insert" /\ c \in left
    /\ Ambiguous(ItemKey(StatementFor(c), Item(c)), ConceptEntry(c))
    /\ Stop

\* The inventory total goes in above every concept.
Synthetic == 255

InsertTotal ==
    /\ pc = "insert" /\ left = {}
    /\ items' = IF at \in DOMAIN inventory /\ inventory[at] # Nil
                THEN Insert(ItemKey("bs", "inventories"),
                            Entry(inventory[at], Synthetic, Blank, None))
                ELSE items
    /\ left' = {c \in Concepts("shares", at) : Semantic(c)}
    /\ pc' = "shares"
    /\ UNCHANGED <<package, reading, raw, inventory, at>>

ShareEntry(c) == Entry(bucket[[kind |-> "shares", context |-> at, concept |-> c]].value,
                       Priority(c), Blank, c)

InsertShares(c) ==
    /\ pc = "shares" /\ c \in left
    /\ LET k == ItemKey("bs", Item(c))
       IN  ~Ambiguous(k, ShareEntry(c)) /\ items' = Insert(k, ShareEntry(c))
    /\ left' = left \ {c}
    /\ UNCHANGED <<package, pc, reading, raw, inventory, at>>

SharesFail(c) ==
    /\ pc = "shares" /\ c \in left
    /\ Ambiguous(ItemKey("bs", Item(c)), ShareEntry(c))
    /\ Stop

Flag ==
    /\ pc = "shares" /\ left = {}
    /\ items' = IF ContextAt(at).start = None
                THEN Insert(ItemKey("bs", "has_preferred_shares"),
                            Entry(IF PreferredIn(ContextAt(at).period) THEN 1 ELSE 0,
                                  Synthetic, Blank, None))
                ELSE items
    /\ pc' = "next"
    /\ UNCHANGED <<package, reading, raw, inventory, at, left>>

Finish ==
    /\ pc = "next" /\ Remaining = {}
    /\ pc' = "done"
    /\ UNCHANGED <<package, reading, raw, building>>

Ended == pc \in {"done", "failed"} /\ UNCHANGED vars

Next ==
    \/ OpenEmpty \/ OpenFails \/ Open
    \/ \E f \in unread : NextDocument(f)
    \/ Skip \/ Disagree \/ Read \/ ReadEnds
    \/ Dedupe \/ DedupeFails \/ DedupeEnds
    \/ Total \/ TotalFails
    \/ NextContext
    \/ \E c \in left : InsertConcept(c) \/ InsertFails(c)
    \/ InsertTotal
    \/ \E c \in left : InsertShares(c) \/ SharesFail(c)
    \/ Flag \/ Finish \/ Ended

Spec == Init /\ [][Next]_vars
-----------------------------------------------------------------------------
\* Values of a concept in a context agree pairwise to their tolerance when
\* they are merged, but that does not chain: what is kept can be further from
\* a value merged earlier.  It never is by more than three tolerances of the
\* coarsest value (store_concept_value).
Coarsest(k) == {u \in merged[k] : u.value # Nil}
DriftBounded == \A k \in DOMAIN bucket : \A u \in Coarsest(k) :
    \E w \in Coarsest(k) :
        Distance(bucket[k].value, u.value) <= 3 * Tolerance[w.decimals]

\* The raw rows and the canonical input are merged apart, by different keys
\* and rules, and still hold the same value.
RawMatchesBuckets == pc \notin {"open", "read", "dedupe", "failed"} =>
    \A k \in DOMAIN raw : Group(ContextAt(k.context)) => raw[k].value =
            bucket[[kind |-> "financial", context |-> k.context, concept |-> k.concept]].value

\* The routed concepts of a context, each with what it offers.
Offers(x) ==
    {[at |-> [context |-> x, statement |-> StatementFor(c), item |-> Item(c)],
      priority |-> Priority(c), decimals |-> DecimalsOf(x, c),
      value |-> FactsOf("financial", x)[c].value] :
        c \in {d \in Concepts("financial", x) : Routed(d)}}
    \cup
    {[at |-> [context |-> x, statement |-> "bs", item |-> Item(c)],
      priority |-> Priority(c), decimals |-> Blank,
      value |-> FactsOf("shares", x)[c].value] :
        c \in {d \in Concepts("shares", x) : Semantic(d)}}

\* Whatever the order of the HashSet, an item ends with its highest priority,
\* with a value if a concept of that priority has one, and none more precise.
BestEvidence == pc = "done" =>
    \A x \in Contexts("financial") : \A o \in Offers(x) :
        /\ o.at \in DOMAIN items
        /\ LET e == items[o.at]
           IN  /\ o.priority <= e.priority
               /\ o.priority = e.priority /\ o.value # Nil =>
                      e.value # Nil /\ o.decimals <= e.decimals

\* A canonical value was stated by its source concept, for the group, in the
\* same context, in a document the reading chose (ARCHITECTURE.md 4.1); and an
\* issuer's own concept that reuses a standard name fills no item, unless an
\* override names it (classify_namespace_uri).
Provenance == pc = "done" =>
    \A k \in DOMAIN items : items[k].priority < Synthetic =>
        /\ Group(ContextAt(k.context))
        /\ LET c == items[k].source
           IN  \/ c.space \in DOMAIN T!FamilyOf \cup T!Sibling
               \/ [space |-> c.space, stem |-> c.stem, tail |-> c.tail] \in DOMAIN Taxonomy.exact
        /\ \E d \in FactDocuments : \E i \in DOMAIN Reported(d) : LET f == Reported(d)[i] IN
              /\ f.context = k.context /\ f.concept = items[k].source
              /\ S!Value(f) = items[k].value

\* How often c counts in each concept: once in itself, and in another what it
\* counts in its children, by the arcs' weights.
Times(arcs, c) ==
    LET times[n \in I!Nodes(arcs)] ==
            LET out == {a \in arcs : a.from = n}
            IN  IF n = c THEN 1 ELSE SumOver([a \in out |-> a.weight * times[a.to]], out)
    IN  times

\* What the lowest facts at and below n are worth in it.
Weighted(arcs, fact, n) ==
    LET deepest == I!Deepest(arcs, fact, n)
    IN  IF deepest = {} THEN Nil
        ELSE SumOver([c \in deepest |-> Times(arcs, c)[n] * fact[c].value], deepest)

Linked(fact, arcs) ==
    (UNION {{Weighted(I!InRole(arcs, r), fact, n) : n \in I!Roots(I!InRole(arcs, r))} :
              r \in I!Roles(arcs)}) \ {Nil}

\* An inventory total is one a report states, or else what the facts that stand
\* lowest below a total come to, each as often as arcs lead to it and never
\* beside a fact above it, or else what the presentation puts under a total
\* (parse_inventories_from_artifact: priority and double counting).
CountedAsLinked == pc = "done" =>
    \A x \in {y \in DOMAIN inventory : inventory[y] # Nil} :
        LET fact == FactsOf("inventory", x)
            direct == I!DirectCandidates(fact)
            linked == Linked(fact, Calculation)
        IN  inventory[x] \in IF direct # {} THEN direct
                             ELSE IF linked # {} THEN linked
                             ELSE I!PresentationCandidates(fact, Presentation)
=============================================================================
