---------------------------- MODULE InstanceScan ----------------------------
(***************************************************************************)
(* What the readers of rust/src/artifact.rs and linkbase.rs make of the    *)
(* elements of an XBRL document.  Text is abstracted to what they tell     *)
(* apart: a date to its month (0 when too short to hold one), a measure,   *)
(* member or role to a word, a number to its digits and its marks.         *)
(***************************************************************************)
EXTENDS Integers, FiniteSets

CONSTANTS
    Nil,    \* no value
    None    \* an absent attribute or element

\* A context element is [start, instant, end, members], a member [axis,
\* member, form ("explicit", "typed", or "blank" for an empty element)].
PeriodEnd(x) == IF x.instant # None THEN x.instant ELSE x.end

ContextOf(x) ==
    LET explicit == {m \in x.members : m.form = "explicit"}
        classes == {m \in explicit : m.axis = "ClassesOfShares"}
    IN  [period |-> IF PeriodEnd(x) = 0 THEN None ELSE PeriodEnd(x),
         start |-> x.start,
         instant |-> x.instant # None,
         consolidated |-> \A m \in explicit : m.member.name # "NonConsolidated",
         members |-> Cardinality(x.members),
         class |-> IF classes = {} THEN None ELSE (CHOOSE m \in classes : TRUE).member]

\* Any measure named JPY or shares counts, above or below a divide.
UnitKind(unit) ==
    CASE {"JPY", "shares"} \subseteq unit.measures -> "JPYPerShare"
      [] "JPY" \in unit.measures /\ "shares" \notin unit.measures -> "JPY"
      [] "shares" \in unit.measures /\ "JPY" \notin unit.measures -> "Shares"
      [] OTHER -> "Other"

\* parse_xbrl_value: the sign attribute, a triangle and parentheses negate
\* once between them; a dash and a blank are no value.
Value(f) ==
    IF f.nil \/ f.digits = None THEN Nil
    ELSE (IF f.marks \cap {"sign", "triangle", "parentheses"} # {} THEN -1 ELSE 1)
         * f.digits * 10 ^ f.scale

\* build_text_fact: relevant says what the text itself is about.
TextFact(f) == ~f.nil /\ f.relevant

\* read_text_block_until_end takes what is nested in a text block for text.
Swallowed(f) == f.inside

\* An element that is no fact; scan_document_parts takes any with a context.
NoFact == [context |-> None]

\* A document beside an instance reports its text blocks only.
InlineFacts(d, numeric) ==
    [i \in DOMAIN d.facts |->
        LET f == d.facts[i] IN IF ~Swallowed(f) /\ (numeric \/ f.relevant) THEN f ELSE NoFact]

\* classify_statement_role, by the words in a role.
StatementOf(role) ==
    CASE "notes" \in role -> None
      [] "notes" \notin role /\ "balancesheet" \in role -> "bs"
      [] "notes" \notin role /\ "balancesheet" \notin role /\ "cashflows" \in role -> "cf"
      [] OTHER -> IF "income" \in role /\ role \cap {"notes", "balancesheet", "cashflows",
                                                    "comprehensive"} = {}
                  THEN "pl" ELSE None
=============================================================================
