---------------------------- MODULE TickerTables ----------------------------
(***************************************************************************)
(* What the transaction of a store leaves in the tables of one ticker:     *)
(* write_ticker_in_tx of rust/src/db.rs.                                   *)
(***************************************************************************)
EXTENDS TickerParse

Tables ==
    [values |-> Empty, raw |-> {}, edges |-> {}, defs |-> Empty, issuances |-> Empty,
     blocks |-> Empty, instruments |-> {}, statuses |-> {}, adjustments |-> {}]

\* What a DELETE and an INSERT of m leave of a table.
Rows(m) == {m[k] : k \in DOMAIN m}
Without(f, S) == [k \in DOMAIN f \ S |-> f[k]]

Sourced(k, source) ==
    [context |-> k.context, statement |-> k.statement, item |-> k.item, source |-> source]
Unsourced(k) == [context |-> k.context, statement |-> k.statement, item |-> k.item]
OfEdinet(values) == {k \in DOMAIN values : k.source = "edinet_xbrl"}

EdinetValues(values) ==
    [k \in {Sourced(j, "edinet_xbrl") : j \in DOMAIN values} |->
        values[Unsourced(k)]]

\* Class rows come by period and name, both descending: the last one stays.
Issuances(classes) ==
    LET of(i) == {r \in Rows(classes) : r.period = i.period /\ r.class.key = i.key}
        last(i) == CHOOSE r \in of(i) : \A s \in of(i) : r.class.name <= s.class.name
    IN  [i \in {[period |-> r.period, key |-> r.class.key] : r \in Rows(classes)} |->
            [shares |-> last(i).shares, kind |-> last(i).kind]]

\* The rows of the terms come after them, by period descending and name
\* ascending, each of a preferred class.
Defs(classes, terms) ==
    LET of(key) == {r \in Rows(classes) : r.class.key = key}
        in(key) == {t \in Rows(terms) : t.key = key}
        class(key) == CHOOSE r \in of(key) : \A s \in of(key) :
            r.period < s.period \/ (r.period = s.period /\ r.class.name <= s.class.name)
        term(key) == CHOOSE t \in in(key) : \A u \in in(key) :
            t.period < u.period \/ (t.period = u.period /\ u.name <= t.name)
    IN  [key \in {r.class.key : r \in Rows(classes)} \cup {t.key : t \in Rows(terms)} |->
            IF in(key) # {} THEN [name |-> term(key).name, preferred |-> TRUE]
            ELSE [name |-> class(key).class.name, preferred |-> class(key).class.preferred]]

(***************************************************************************)
(* Blocks of preferred terms.  Of two texts of one block the later row's   *)
(* stays; the facts of both are inserted after all blocks, and without an  *)
(* ON CONFLICT.                                                            *)
(***************************************************************************)
FactName == {"shares", "ratio", "converted"}

BlockKey(t) == [period |-> t.period, key |-> t.key, concept |-> t.concept]
BlockKeys(terms) == {BlockKey(t) : t \in Rows(terms)}
OfBlock(terms, b) == {t \in Rows(terms) : BlockKey(t) = b}

Collide(terms) ==
    \E b \in BlockKeys(terms), f \in FactName :
        Cardinality({t \in OfBlock(terms, b) : t[f] # Nil}) > 1

\* Rows of one name come in any order.
LastTexts(terms, b) ==
    {t.block : t \in {u \in OfBlock(terms, b) : \A v \in OfBlock(terms, b) : v.name <= u.name}}

Facts(terms, b) ==
    UNION {{<<f, t[f]>> : f \in {g \in FactName : t[g] # Nil}} : t \in OfBlock(terms, b)}

Blocks(terms) ==
    {[b \in BlockKeys(terms) |-> [block |-> texts[b], facts |-> Facts(terms, b)]] :
        texts \in {m \in [BlockKeys(terms) -> {t.block : t \in Rows(terms)}] :
                      \A b \in BlockKeys(terms) : m[b] \in LastTexts(terms, b)}}

\* Everything but the definitions of classes is deleted before it is inserted.
StoredWith(tables, parsed, issuances) ==
    {[values |-> Upserted(EdinetValues(parsed.values), Without(tables.values, OfEdinet(tables.values))),
      raw |-> parsed.raw, edges |-> parsed.edges,
      defs |-> Upserted(Defs(parsed.classes, parsed.terms), tables.defs),
      issuances |-> issuances, blocks |-> blocks, instruments |-> Rows(parsed.instruments),
      statuses |-> Rows(parsed.statuses), adjustments |-> Rows(parsed.adjustments)] :
        blocks \in Blocks(parsed.terms)}

\* Mutant: the issuances of earlier stores are not deleted.
StoredOver(tables, parsed) ==
    StoredWith(tables, parsed, Upserted(Issuances(parsed.classes), tables.issuances))

Stored(tables, parsed) == StoredWith(tables, parsed, Issuances(parsed.classes))
=============================================================================
