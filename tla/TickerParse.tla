---------------------------- MODULE TickerParse ----------------------------
(***************************************************************************)
(* The reports of one ticker merged into the rows of its tables            *)
(* (rust/src/db.rs parse_ticker).                                          *)
(*                                                                         *)
(* A report is a record [doc, year, updated, read]; read is what reading   *)
(* its package gave: [outcome ("read", "broken" or "refused"), raw, edges, *)
(* items, classes, texts].  A raw row is [statement, context, concept,     *)
(* role, value], an edge [statement, role, parent, child]; items maps a    *)
(* [context, statement, item] to its value.  A context is [period, start,  *)
(* id, scope, members]; only the group's contexts without members hold     *)
(* items.                                                                  *)
(***************************************************************************)
EXTENDS EquityTerms, Sequences, SequencesExt

Empty == [x \in {} |-> x]

\* Rows put over the rows of a table or map with the same keys.
Upserted(rows, table) ==
    [k \in DOMAIN rows \cup DOMAIN table |-> IF k \in DOMAIN rows THEN rows[k] ELSE table[k]]

\* The order of merging: fiscal year, then updated_at, then doc_id.
Before(r, s) ==
    \/ r.year < s.year
    \/ r.year = s.year /\ r.updated < s.updated
    \/ r.year = s.year /\ r.updated = s.updated /\ r.doc < s.doc

InOrder(reports) ==
    CHOOSE list \in [1 .. Cardinality(reports) -> reports] :
        \A m, n \in DOMAIN list : m < n => Before(list[m], list[n])

Raw(r, statement) == {w \in r.read.raw : w.statement = statement}

Parseable(r) ==
    \/ r.read.raw # {} \/ DOMAIN r.read.items # {}
    \/ r.read.classes # {} \/ r.read.texts # {}

\* A report without raw balance-sheet facts is left out if it has no facts at
\* all, and an error otherwise.
Usable(r) == Raw(r, "bs") # {}

Broken(reports) == \E r \in reports : r.read.outcome = "broken"

Refused(reports) == \E r \in reports :
    \/ r.read.outcome = "refused"
    \/ ~Usable(r) /\ Parseable(r)

\* build_raw_statement_rows, build_statement_presentation_edge_rows: rows and
\* edges keep their document.
RawRows(reports) ==
    UNION {{[doc |-> r.doc, statement |-> w.statement, context |-> w.context,
             concept |-> w.concept, role |-> w.role, value |-> w.value] : w \in r.read.raw} :
                r \in reports}

EdgeRows(reports) ==
    UNION {{[doc |-> r.doc, statement |-> e.statement, role |-> e.role,
             parent |-> e.parent, child |-> e.child] : e \in r.read.edges} : r \in reports}

\* Mutant: an item keeps its first value.
MergedFirst(reports) == FoldLeft(LAMBDA m, r : m @@ r.read.items, Empty, InOrder(reports))

\* A later report's item replaces an earlier one's, its nil value too.
Merging(list) ==
    LET merged[n \in 0 .. Len(list)] ==
            IF n = 0 THEN Empty ELSE Upserted(list[n].read.items, merged[n - 1])
    IN  merged

Merged(reports) == Merging(InOrder(reports))[Len(InOrder(reports))]

\* A class's row by the axis beats one by a concept, a later one an earlier.
ClassRows(reports) ==
    LET put(m, row) ==
            LET key == <<row.period, row.class.name>>
            IN  IF key \in DOMAIN m /\ row.kind < m[key].kind THEN m
                ELSE (key :> row) @@ m
        report(m, r) == FoldLeft(put, m, SetToSeq(r.read.classes))
    IN  FoldLeft(report, Empty, InOrder(reports))

\* Texts with the same key are the same text; a later reading replaces it.
Terms(of(_), key(_), reports) ==
    FoldLeft(LAMBDA m, r : [k \in {key(t) : t \in of(r)} |->
                                CHOOSE t \in of(r) : key(t) = k] @@ m,
             Empty, InOrder(reports))

TermKey(t) == <<t.period, t.key, t.concept, t.block>>
StatusKey(t) == <<t.period, t.present, t.concept, t.block>>

PreferredRows(reports) ==
    Terms(LAMBDA r : PreferredTerms(r.read.classes, r.read.texts), TermKey, reports)
InstrumentRows(reports) ==
    Terms(LAMBDA r : Instruments(r.read.classes, r.read.texts), TermKey, reports)
StatusRows(reports) == Terms(LAMBDA r : Statuses(r.read.texts), StatusKey, reports)
AdjustmentRows(reports) == Terms(LAMBDA r : Adjustments(r.read.texts), TermKey, reports)

Parsed(reports) ==
    LET used == {r \in reports : Usable(r)}
    IN  [values |-> Merged(used), raw |-> RawRows(used), edges |-> EdgeRows(used),
         classes |-> ClassRows(used), terms |-> PreferredRows(used),
         instruments |-> InstrumentRows(used), statuses |-> StatusRows(used),
         adjustments |-> AdjustmentRows(used)]

NoFacts(parsed) ==
    /\ \A f \in {"values", "classes", "terms", "instruments", "statuses", "adjustments"} :
           DOMAIN parsed[f] = {}
    /\ parsed.raw = {}
=============================================================================
