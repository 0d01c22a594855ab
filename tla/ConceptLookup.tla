--------------------------- MODULE ConceptLookup ---------------------------
(***************************************************************************)
(* The item, priority and statement the taxonomy has for a concept:        *)
(* rust/src/taxonomy_registry.rs over rust/src/taxonomy.rs.                *)
(*                                                                         *)
(* A concept has a space (the taxonomy its namespace URI names, "issuer"   *)
(* for a company's own), a stem and a tail: the words its local name ends  *)
(* in, in order.  Taxonomy holds the compiled-in tables: exact, of [space, *)
(* stem, tail] to an item; family, per family, and safe, of [stem, tail]   *)
(* to an item; aliases, the reviewed alias modules in order, each of       *)
(* [family, stem, tail] to [item, priority]; categories, of items to       *)
(* statements; overrides, the alias modules' own, in order; and excluded,  *)
(* a set of [stem, tail].                                                  *)
(***************************************************************************)
EXTENDS Sequences, SequencesExt

CONSTANTS Taxonomy, None

FamilyOf == [jppfs |-> "EdinetJppfs", jpigp |-> "EdinetJpigp", jpcrp |-> "EdinetJpcrp",
             jpdei |-> "EdinetJpDei", us_gaap |-> "UsGaap", ifrs |-> "Ifrs"]

\* EDINET spaces without a family that share the J-GAAP names.
Sibling == {"jplvh", "jpsps", "jpctl"}

Name(c) == [stem |-> c.stem, tail |-> c.tail]
Has(n, word) == \E i \in DOMAIN n.tail : n.tail[i] = word

NonScalar(n) ==
    \/ Has(n, "TextBlock")
    \/ \E word \in {"Abstract", "Table", "LineItems", "Axis", "Domain", "Member", "Heading"} :
           IsSuffix(<<word>>, n.tail)

Priority(n) == IF Has(n, "Summary") THEN 5 ELSE IF Has(n, "IFRS") THEN 20 ELSE 10

\* Endings with a summary or an abstract are listed too, and never reached.
Endings ==
    <<<<"ContinuingOperations", "IFRS">>, <<"IFRS">>, <<"USGAAP">>, <<"JMIS">>, <<"JMISS">>>>

Strip(n, suffix) == [n EXCEPT !.tail = SubSeq(@, 1, Len(@) - Len(suffix))]

\* The names a name is looked up by.
Spellings(n) ==
    LET ends == SelectSeq(Endings, LAMBDA s : IsSuffix(s, n.tail))
    IN  <<n>> \o IF Has(n, "Summary") THEN <<>> ELSE [i \in DOMAIN ends |-> Strip(n, ends[i])]

Find(table, n) ==
    LET known == SelectSeq(Spellings(n), LAMBDA m : m \in DOMAIN table)
    IN  IF known = <<>> THEN None ELSE table[Head(known)]

\* Goodwill is in J-GAAP's intangible assets only.
MustRemainIdentity(family, n) ==
    /\ family \in {"Ifrs", "EdinetJpigp", "UsGaap"}
    /\ n.stem = "IntangibleAssets"
    /\ n.tail \in {<<>>, <<"IFRS">>}

ByFamily(c) ==
    LET n == Name(c)
        family == FamilyOf[c.space]
        own == Find(Taxonomy.family[family], n)
    IN  IF MustRemainIdentity(family, n) THEN None
        ELSE IF own # None THEN own ELSE Find(Taxonomy.safe, n)

\* An issuer's own concept has an item by an override alone.
ItemFor(c) ==
    LET exact == [space |-> c.space, stem |-> c.stem, tail |-> c.tail]
    IN  IF exact \in DOMAIN Taxonomy.exact THEN Taxonomy.exact[exact]
        ELSE IF c.space \in DOMAIN FamilyOf THEN ByFamily(c) ELSE None

Resolved(c) ==
    IF NonScalar(Name(c)) \/ ItemFor(c) = None THEN None
    ELSE [item |-> ItemFor(c), priority |-> Priority(Name(c))]

\* The first alias module that has the concept, and then the tables.
Reviewed(c) ==
    LET key == [family |-> FamilyOf[c.space], stem |-> c.stem, tail |-> c.tail]
        having == SelectSeq(Taxonomy.aliases, LAMBDA a : key \in DOMAIN a)
    IN  IF c.space \in DOMAIN FamilyOf /\ having # <<>> THEN Head(having)[key] ELSE Resolved(c)

Canonical(c) ==
    IF Reviewed(c) # None THEN Reviewed(c)
    ELSE IF c.space \in Sibling THEN Reviewed([c EXCEPT !.space = "jppfs"]) ELSE None

Status(c) ==
    IF Canonical(c) # None THEN "semantic"
    ELSE IF c.space \notin DOMAIN FamilyOf \cup Sibling THEN "extension"
    ELSE IF Name(c) \in Taxonomy.excluded THEN "excluded" ELSE "unknown"

\* The first alias module that differs from the tables.
StatementOfItem(item) ==
    LET base == IF item \in DOMAIN Taxonomy.categories THEN Taxonomy.categories[item] ELSE None
        differing == SelectSeq(Taxonomy.overrides,
                               LAMBDA o : item \in DOMAIN o /\ o[item] # base)
    IN  IF differing = <<>> THEN base ELSE Head(differing)[item]

StatementOfConcept(c) ==
    IF Canonical(c) = None THEN None ELSE StatementOfItem(Canonical(c).item)
=============================================================================
