-------------------------- MODULE MCFinancialStore --------------------------
EXTENDS FinancialStore

\* Contexts of a month: 1 is the current year's, 2 the prior year's.
Context(p, id) == [period |-> p, start |-> None, id |-> id, scope |-> "consolidated", members |-> 0]
Alone(p) == [Context(p, 1) EXCEPT !.scope = "non_consolidated"]

Item(context, statement, item, value) ==
    [context |-> context, statement |-> statement, item |-> item] :> value

Fact(context, concept, role, value) ==
    [statement |-> "bs", context |-> context, concept |-> concept, role |-> role, value |-> value]

Edge(parent, child) == [statement |-> "bs", role |-> 1, parent |-> parent, child |-> child]

Nothing ==
    [outcome |-> "read", raw |-> {}, edges |-> {}, items |-> Empty, classes |-> {}, texts |-> {}]
Report(doc, year, updated, read) == [doc |-> doc, year |-> year, updated |-> updated, read |-> read]

\* Concept 1 is the heading, 2 is under it, 3 is the total of both.
Annual(y, prior, role) ==
    [Nothing EXCEPT
        !.raw = {Fact(Context(y, 1), 2, role, 7), Fact(Context(y, 1), 3, None, 9),
                 Fact(Context(y - 1, 2), 3, role, prior)},
        !.edges = {Edge(1, 2), Edge(3, 1)},
        !.items = Item(Context(y, 1), "bs", "total_assets", 9)
                  @@ Item(Context(y - 1, 2), "bs", "total_assets", prior)
                  @@ Item(Context(y, 1), "pl", "net_income", 4)
                  @@ Item(Context(y - 1, 2), "pl", "net_income", prior)]

NoForecast == [forecasts |-> <<>>, dividends |-> Empty]
Forecast(p, income) == [period |-> p, income |-> income]

Scenario(reports, readers) ==
    [reports |-> reports, editions |-> {}, counts |-> {}, readers |-> readers]

\* Two years' reports, and a correction of the later one's prior year.
Restated(prior) ==
    {Report(1, 4, 1, Annual(4, 9, 1)), Report(2, 5, 1, Annual(5, prior, 1)),
     Report(3, 5, 2, [Annual(5, prior, 1) EXCEPT !.items = Item(Context(5, 1), "pl", "net_income", 3)])}

\* Balance sheets that lack something.
Lacking ==
    {Nothing,
     [Nothing EXCEPT !.outcome = "broken"],
     [Nothing EXCEPT !.outcome = "refused"],
     [Nothing EXCEPT !.items = Item(Context(4, 1), "pl", "net_income", 4)],
     [Annual(4, 9, 1) EXCEPT !.edges = {}],
     [Annual(4, 9, 1) EXCEPT !.raw = {Fact(Context(4, 1), 2, 1, Nil)}],
     [Annual(4, 9, 1) EXCEPT !.raw = {Fact(Alone(4), 2, 1, 7), Fact(Context(4, 1), 3, None, 9)}],
     [Annual(4, 9, None) EXCEPT !.raw = {Fact(Alone(4), 3, None, 7), Fact(Context(4, 1), 2, None, 9)}],
     [Annual(4, 9, 1) EXCEPT !.items = Item(Context(4, 1), "pl", "net_income", 4)],
     [Annual(4, 9, 1) EXCEPT !.edges = {Edge(1, 4)}]}

\* Classes and texts of preferred shares and potential equity.
Class(key, name, preferred) == [key |-> key, name |-> name, preferred |-> preferred]
ByAxis(name) == [period |-> 5, class |-> Class(<<"axis", name>>, name, TRUE), shares |-> 20,
                 kind |-> 1, priority |-> 0]
ByConcept(name) == [period |-> 5, class |-> Class(<<"concept", name>>, name, TRUE), shares |-> 10,
                    kind |-> 0, priority |-> 1]

Text(concept, family, block, names) ==
    [period |-> 5, concept |-> concept, family |-> family, block |-> block, names |-> names,
     says |-> {}, counts |-> Empty, ratios |-> Empty, stated |-> Empty, rows |-> <<>>,
     total |-> Nil, rights |-> Nil, each |-> Nil, marked |-> Empty, face |-> Nil, price |-> Nil,
     round |-> Nil, increases |-> <<>>]

Ratio(value) == [value |-> value, split |-> FALSE, conversion |-> TRUE]
Row(cells) ==
    [held |-> TRUE, common |-> TRUE, increase |-> TRUE, thousands |-> FALSE, cells |-> cells,
     after |-> Nil]

\* The ratio of a split comes before that of the conversion.
Preferred(block, ratio) ==
    [Text(1, "classes", block, {1}) EXCEPT
        !.ratios = 1 :> <<[Ratio(9) EXCEPT !.split = TRUE], Ratio(ratio)>>]
\* A class that is converted one to one.
OneToOne(block, total) ==
    [Text(1, "classes", block, {1}) EXCEPT
        !.says = {"conversion"}, !.total = total, !.counts = 1 :> <<[value |-> 20, ratio |-> FALSE]>>]
Option(concept, block, units) ==
    [Text(concept, "options", block, {}) EXCEPT !.says = {"option", "right"},
        !.rows = <<Row(<<Nil>>)>>,
        !.marked = "common_shares" :> 1 @@ IF units = Nil THEN Empty ELSE "type_number" :> units]
Warrant(block, rights) ==
    [Text(2, "rights", block, {}) EXCEPT !.says = {"right"}, !.rights = rights, !.each = 2]
Bond(block, price) ==
    [Text(3, "rights", block, {}) EXCEPT !.says = {"bond", "right"}, !.face = 60, !.price = price]
Earnings(block, said, cells) ==
    [Text(4, "per_share", block, {}) EXCEPT
        !.says = said \cup {"diluted"}, !.rows = <<Row(<<1>>), Row(cells)>>,
        !.increases = <<[heading |-> FALSE, thousands |-> FALSE, tokens |-> <<6, 5>>]>>]

Equity(doc, updated, classes, texts) ==
    Report(doc, 5, updated, [Annual(5, 9, 1) EXCEPT !.classes = classes, !.texts = texts])

Amended(classes, texts) ==
    {Equity(1, 1, {ByConcept(1)}, {Preferred(1, 2), Option(2, 2, 5), Earnings(3, {"exist_but"}, <<2, 6, 7>>)}),
     Equity(2, 2, classes, texts)}

MCScenarios ==
    {Scenario(Restated(p), {"balance_sheet"}) : p \in {6, 9}}
    \cup {Scenario(Restated(6), {"screening"})}
    \cup {Scenario({Report(1, 4, 1, r), Report(2, 5, 1, Annual(5, 9, 1))}, {"balance_sheet"}) : r \in Lacking}
    \cup {Scenario({Report(1, 4, 1, r)}, {"balance_sheet", "screening"}) : r \in Lacking}
    \cup {Scenario(Amended(c, t), {"screening"}) :
             c \in {{ByConcept(1)}, {ByAxis(1)}, {ByAxis(1), ByConcept(2)}},
             t \in {{Preferred(1, 2), Option(5, 6, 5)}, {Preferred(1, 2), Option(5, 6, 8)},
                    {Preferred(4, 3), Warrant(6, 4)}, {OneToOne(4, 20), Warrant(6, Nil)}, {Option(5, 6, Nil), Bond(7, 4), Bond(8, 0)},
                    {Earnings(3, {"none_exist"}, <<2, 7>>), Earnings(9, {"antidilutive"}, <<2, Nil>>)}}}
    \cup {[reports |-> {}, counts |-> {0, 2, 3}, readers |-> {"screening"},
           editions |-> {[forecasts |-> <<Forecast(5, 6), Forecast(6, 12)>>, dividends |-> 5 :> 1],
                         [forecasts |-> <<Forecast(4, 1), Forecast(5, 8), Forecast(6, Nil)>>,
                          dividends |-> 5 :> 2 @@ 6 :> 3],
                         [forecasts |-> <<Forecast(6, Nil)>>, dividends |-> Empty]}],
          [reports |-> {Report(1, 5, 1, Annual(5, 9, 1))}, counts |-> {2}, readers |-> {"screening"},
           editions |-> {[forecasts |-> <<Forecast(5, 6)>>, dividends |-> 5 :> 1]}]}
=============================================================================
