---------------------------- MODULE EquityTerms ----------------------------
(***************************************************************************)
(* What a report's texts say about preferred shares, potential equity and  *)
(* diluted EPS: rust/src/preferred_terms.rs and potential_terms.rs.        *)
(*                                                                         *)
(* A text is a record: period, concept, family (what the concept's name    *)
(* contains), block (its words, as an identity), names (the class names in *)
(* it), says (the phrases in it) and what the scans find, in the order in  *)
(* which they do, Nil where there is no number:                            *)
(*   counts    after each mention of a class, [value, ratio]: a number of  *)
(*             shares, and whether a "one share for" phrase has it         *)
(*   ratios    after each "one share for", [value, split, conversion]      *)
(*   stated    from each mention to the common shares after it, [value,    *)
(*             conversion, ratio, several]                                 *)
(*   rows      of its tables, [held, common, increase, thousands, cells,   *)
(*             after]: what the row's label is about, its cells' numbers   *)
(*             and the number after the words "increase of common shares"  *)
(*   total, rights, each, marked, face, price, round   numbers by label    *)
(*   increases after each mention of an increase, [heading, thousands,     *)
(*             tokens], a dash being Nil                                   *)
(* A share class row is [period, class, shares, kind, priority] with a     *)
(* class [key, name, preferred].                                           *)
(***************************************************************************)
EXTENDS Integers, FiniteSets, FiniteSetsExt, Sequences, SequencesExt

CONSTANTS
    Nil,            \* no value
    StandardName,   \* the class names looked for without a share class row
    MaxShares       \* is_plausible_share_count's limit

PreferredKind ==
    [changes |-> "issued_share_change_text", classes |-> "classes_of_shares_text",
     issued |-> "issued_shares_text", voting |-> "issued_shares_text",
     per_share |-> "per_share_information_text", results |-> "business_results_text",
     options |-> "preferred_share_text", rights |-> "preferred_share_text",
     other |-> "preferred_share_text"]

PotentialKind ==
    [changes |-> "issued_shares_text", classes |-> "potential_equity_text",
     issued |-> "issued_shares_text", voting |-> "potential_equity_text",
     per_share |-> "per_share_information_text", results |-> "business_results_text",
     options |-> "share_options_text", rights |-> "share_acquisition_rights_text",
     other |-> "potential_equity_text"]

Or(v, w) == IF v # Nil THEN v ELSE w
Times(v, w) == IF v # Nil /\ w # Nil THEN v * w ELSE Nil

First(s) == IF s = <<>> THEN Nil ELSE Head(s)
FirstValue(s) == First(SelectSeq(s, LAMBDA v : v # Nil))
Finds(f, name) == IF name \in DOMAIN f THEN f[name] ELSE <<>>
FirstSuch(s, Ok(_)) ==
    LET ok == SelectSeq(s, LAMBDA x : Ok(x) /\ x.value # Nil)
    IN  IF ok = <<>> THEN Nil ELSE Head(ok).value

(***************************************************************************)
(* Preferred shares.                                                       *)
(***************************************************************************)
\* A class is its key and its name; the latest positive count stays with it.
PreferredClasses(rows) ==
    LET of(r) == [key |-> r.class.key, name |-> r.class.name]
        held(c) == {r \in rows : r.class.preferred /\ of(r) = c /\ r.shares > 0}
        latest(c) == CHOOSE r \in held(c) : \A s \in held(c) : s.period <= r.period
    IN  {[key |-> c.key, name |-> c.name,
          shares |-> IF held(c) = {} THEN Nil ELSE latest(c).shares] :
            c \in {of(r) : r \in {s \in rows : s.class.preferred}}}

Matching(classes, t) == {c \in classes : c.name \in t.names}

Inferred(t) ==
    LET named == t.names \cap StandardName
    IN  IF named # {} THEN {[key |-> <<"text", n>>, name |-> n, shares |-> Nil] : n \in named}
        ELSE IF "preferred" \in t.says THEN {[key |-> <<"text", 0>>, name |-> 0, shares |-> Nil]}
        ELSE {}

\* "One preferred share for ..." counts nothing.
StatedShares(t, name) ==
    FirstSuch(Finds(t.counts, name), LAMBDA x : ~(x.value = 1 /\ x.ratio))

PreferredShares(t, c) == Or(StatedShares(t, c.name), c.shares)

\* A ratio counts near words of conversion, and not near those of a split.
ConversionRatio(t, c) ==
    FirstSuch(Finds(t.ratios, c.name), LAMBDA x : x.conversion /\ ~x.split)

StatedConverted(t, c) ==
    FirstSuch(Finds(t.stated, c.name), LAMBDA x : x.conversion /\ ~x.ratio /\ ~x.several)

\* A conversion of all classes one to one: the common shares are their sum.
OneForOne(t, c, classes) ==
    LET counted == {d \in classes : d.name \in t.names /\ PreferredShares(t, d) # Nil}
        sum == MapThenSumSet(LAMBDA d : PreferredShares(t, d), counted)
    IN  IF /\ "conversion" \in t.says /\ sum > 0 /\ t.total # Nil
           /\ t.total - sum \in -1 .. 1
           /\ c.name \in t.names
        THEN PreferredShares(t, c) ELSE Nil

Converted(t, c, classes) ==
    Or(Times(PreferredShares(t, c), ConversionRatio(t, c)),
       Or(StatedConverted(t, c), OneForOne(t, c, classes)))

TermFact(t, c, classes) ==
    [period |-> t.period, key |-> c.key, name |-> c.name, block |-> t.block,
     concept |-> t.concept, kind |-> PreferredKind[t.family],
     shares |-> PreferredShares(t, c), ratio |-> ConversionRatio(t, c),
     converted |-> Converted(t, c, classes)]

ShouldParse(t) ==
    PreferredKind[t.family] \in
        {"issued_share_change_text", "classes_of_shares_text", "preferred_share_text"}

PreferredTerms(rows, texts) ==
    LET classes == PreferredClasses(rows)
        named(t) == IF Matching(classes, t) # {} THEN Matching(classes, t) ELSE Inferred(t)
    IN  UNION {{TermFact(t, c, classes) : c \in named(t)} : t \in {u \in texts : ShouldParse(u)}}

(***************************************************************************)
(* Potential equity.  All kinds of text PreferredTerms parses are allowed. *)
(***************************************************************************)
PreferredInstruments(rows, texts) ==
    {[period |-> p.period, key |-> <<"preferred_share", p.key>>, type |-> "preferred_share",
      shares |-> Or(p.converted, Times(p.shares, p.ratio)),
      concept |-> p.concept, block |-> p.block] :
        p \in {q \in PreferredTerms(rows, texts) : q.shares # Nil /\ q.shares > 0}}

\* The first type whose words the text has.
InstrumentTypes ==
    <<"preferred_share", "convertible_bond", "stock_option", "share_acquisition_right",
      "share_based_compensation", "other_potential_equity">>

TypeWords ==
    [preferred_share |-> {"preferred", "class_shares"}, convertible_bond |-> {"bond"},
     stock_option |-> {"option"}, share_acquisition_right |-> {"right"},
     share_based_compensation |-> {"compensation"},
     other_potential_equity |-> {"potential_shares", "dilution"}]

InstrumentType(t) ==
    First(SelectSeq(InstrumentTypes, LAMBDA type : TypeWords[type] \cap t.says # {}))

AbsenceOnly(t) == "not_applicable" \in t.says /\ "they_exist" \notin t.says

InstrumentName(t) == Or(t.round, InstrumentType(t))

Quantifies(t) ==
    PotentialKind[t.family] \in
        {"share_options_text", "share_acquisition_rights_text", "potential_equity_text"}

Plausible(v) == IF v # Nil /\ v \in 0 .. MaxShares THEN v ELSE Nil

\* The last number of the first row about common shares that has one.
TableShares(t) ==
    LET about == SelectSeq(t.rows, LAMBDA r : r.held /\ r.common)
    IN  FirstValue([i \in DOMAIN about |-> FirstValue(Reverse(about[i].cells))])

Markers ==
    <<"number_of_shares", "type_content_number", "type_number", "number_of_object", "common_shares">>

\* One common share is taken for the "one common share" of a definition.
MarkedShares(t) ==
    FirstValue([i \in DOMAIN Markers |->
        IF Markers[i] \notin DOMAIN t.marked THEN Nil
        ELSE IF Markers[i] = "common_shares" /\ t.marked[Markers[i]] = 1 THEN Nil
        ELSE t.marked[Markers[i]]])

PeriodEndShares(t) ==
    Plausible(Or(TableShares(t), Or(Times(t.rights, t.each), MarkedShares(t))))

\* A convertible bond without a count is worth its face over its price.
OfFaceValue(t) ==
    IF t.face # Nil /\ t.price \notin {Nil, 0} THEN t.face \div t.price ELSE Nil

TextInstruments(texts) ==
    {[period |-> t.period, key |-> <<InstrumentType(t), InstrumentName(t)>>,
      type |-> InstrumentType(t), shares |-> Or(PeriodEndShares(t), OfFaceValue(t)),
      concept |-> t.concept, block |-> t.block] :
        t \in {u \in texts : /\ ~AbsenceOnly(u)
                             /\ InstrumentType(u) \notin {Nil, "preferred_share"}
                             /\ Quantifies(u)}}

Instruments(rows, texts) == PreferredInstruments(rows, texts) \cup TextInstruments(texts)

PerShare(t) == PotentialKind[t.family] = "per_share_information_text"

\* That no dilutive shares exist is not that no potential shares do.
SaysAbsent(t) == "none_exist" \in t.says /\ "none_dilutive" \notin t.says
SaysPresent(t) == "exist_but" \in t.says \/ "antidilutive" \in t.says

Statuses(texts) ==
    {[period |-> t.period, present |-> ~SaysAbsent(t),
      concept |-> t.concept, block |-> t.block] :
        t \in {u \in texts : PerShare(u) /\ (SaysAbsent(u) \/ SaysPresent(u))}}

Shares(v, thousands) ==
    IF v = Nil \/ v <= 0 THEN Nil ELSE IF thousands THEN 1000 * v ELSE v

\* The first row about the increase that has cells or a number decides: the
\* last cell is the current year's, and a dash there is no increase.
TableIncrease(t) ==
    LET decides(r) == r.increase /\ (Len(r.cells) > 1 \/ Shares(r.after, FALSE) # Nil)
        about == SelectSeq(t.rows, decides)
        row == Head(about)
    IN  IF about = <<>> THEN Nil
        ELSE Shares(IF Len(row.cells) > 1 THEN Last(row.cells) ELSE row.after, row.thousands)

\* The last number before the words that end the passage.
TextIncrease(t) ==
    LET about == SelectSeq(t.increases, LAMBDA x : ~x.heading)
    IN  IF about = <<>> \/ Head(about).tokens = <<>> THEN Nil
        ELSE Shares(Last(Head(about).tokens), Head(about).thousands)

CommonIncrease(t) == Plausible(Or(TableIncrease(t), TextIncrease(t)))

Adjustments(texts) ==
    {[period |-> t.period, key |-> "common_share_increase", shares |-> CommonIncrease(t),
      concept |-> t.concept, block |-> t.block] :
        t \in {u \in texts : /\ PerShare(u)
                             /\ {"diluted", "potential_shares", "dilution"} \cap u.says # {}
                             /\ CommonIncrease(u) # Nil}}
=============================================================================
