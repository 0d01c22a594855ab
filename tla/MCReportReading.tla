-------------------------- MODULE MCReportReading --------------------------
EXTENDS ReportReading, TLC

\* Amounts are in half yen, so that the tolerance of decimals d is 10^-d.
MCBlank == -9
Inf == 9
MCTolerance == [d \in {MCBlank, -1, 0, Inf} |-> CASE d = -1 -> 10 [] d = 0 -> 1 [] OTHER -> 0]

Yen == [measures |-> {"JPY"}, ref |-> 1]
Share == [measures |-> {"shares"}, ref |-> 2]

\* The stems 1 to 5 and 9 are cash, each by another table.
Stem == <<"Cash", "Deposits", "Money", "Bank", "Till", "Issued", "Sales", "Bonus", "Purse">>
Word(stem) == [stem |-> stem, tail |-> <<>>]

MCTaxonomy ==
    [exact |-> [space |-> "issuer", stem |-> "Purse", tail |-> <<>>] :> "cash",
     family |-> [f \in {"EdinetJppfs", "EdinetJpigp", "EdinetJpcrp", "EdinetJpDei", "UsGaap", "Ifrs"} |->
                    IF f # "EdinetJppfs" THEN <<>>
                    ELSE Word("Cash") :> "cash" @@ Word("Deposits") :> "cash" @@ Word("Bonus") :> "bonus"
                         @@ Word("IntangibleAssets") :> "cash"],
     safe |-> Word("Money") :> "cash" @@ Word("Till") :> "cash" @@ Word("Issued") :> "issued"
              @@ Word("IntangibleAssets") :> "cash",
     aliases |-> <<[family |-> "EdinetJppfs", stem |-> "Sales", tail |-> <<>>] :>
                       [item |-> "sales", priority |-> 20],
                   [family |-> "EdinetJppfs", stem |-> "Sales", tail |-> <<>>] :>
                       [item |-> "bonus", priority |-> 5]
                   @@ [family |-> "EdinetJppfs", stem |-> "Bank", tail |-> <<>>] :>
                       [item |-> "cash", priority |-> 10]>>,
     categories |-> [cash |-> "bs", issued |-> "bs", sales |-> "dividend"],
     overrides |-> <<[sales |-> "dividend"], [sales |-> "pl"]>>,
     excluded |-> {Word("Heading")}]

MCTags ==
    [totals |-> {Word("Total")}, components |-> {Word("Goods"), Word("Parts"), Word("Works")},
     exempt |-> {}, keywords |-> {"Stocks"}, fragments |-> {"Valuation"},
     issued |-> <<Word("Bonus"), Word("Issued")>>]

Concept(n) ==
    [space |-> IF n = 9 THEN "issuer" ELSE "jppfs", stem |-> IF n = 0 THEN "Heading" ELSE Stem[n],
     tail |-> <<>>, named |-> None, class |-> None]

Locator(href, file, id) == [href |-> href, path |-> 1, file |-> file, id |-> id]
Schema(path, file, elements) ==
    [path |-> path, file |-> file, target |-> "space", elements |-> elements]

Fact(c, x, v, d) ==
    [concept |-> c, context |-> x, unit |-> Yen, decimals |-> d, nil |-> v = Nil,
     digits |-> v, scale |-> 0, marks |-> {}, relevant |-> FALSE, inside |-> FALSE]

File(name, seq) ==
    [name |-> name, public |-> TRUE, kind |-> "xbrl", dated |-> FALSE, sound |-> TRUE,
     facts |-> seq]

Instant == [start |-> None, instant |-> 2, end |-> None, members |-> {}]
Class(name, preferred) == [name |-> name, preferred |-> preferred, total |-> FALSE]
Member(axis, member) == [axis |-> axis, member |-> member, form |-> "explicit"]

Bundle(files) ==
    [directory |-> TRUE, holds |-> TRUE, files |-> files, labelled |-> TRUE,
     contexts |-> 2 :> Instant, schemas |-> {}, declared |-> Empty, links |-> {}, calc |-> <<>>]

Amounts == {Nil, 200, 206, 214}
Worth == Amounts \X {-1, 0}

\* Three concepts compete for one item.
Competing ==
    {Bundle({File(1, <<Fact(Concept(1), 2, a[1], a[2]), Fact(Concept(2), 2, b[1], b[2]),
                       Fact([Concept(d[1]) EXCEPT !.space = d[2], !.tail = d[3]], 2, c[1], c[2])>>)}) :
        a \in Worth, b \in Worth, c \in Worth,
        d \in {<<4, "jppfs", <<>>>>, <<3, "jpigp", <<"IFRS">>>>}}
    \cup
    {Bundle({File(1, <<Fact([Concept(1) EXCEPT !.space = d[1], !.stem = d[2], !.tail = d[3]], 2, 214, 0),
                       Fact(Concept(1), 2, 200, 0)>>)}) :
        d \in {"issuer", "jpsps", "us_gaap"} \X {"Cash", "Money", "IntangibleAssets", "Purse"}
              \X {<<>>, <<"IFRS">>, <<"IFRS", "Summary">>, <<"ContinuingOperations", "IFRS">>,
                   <<"Abstract">>}}

\* One concept is stated in three documents; values drift over more than one
\* tolerance.
Drifting == {Nil, 180, 190, 200, 208, 211} \X {-1, 0}

Repeated ==
    {Bundle({File(1, <<Fact(Concept(1), 2, a[1], a[2])>>),
             File(2, <<Fact(Concept(1), 2, b[1], b[2])>>),
             File(3, <<[Fact(Concept(1), 2, c[1], c[2]) EXCEPT !.unit.ref = u]>>)}) :
        a \in Drifting, b \in {200, 206} \X {MCBlank, 0, -1, Inf}, c \in Drifting, u \in {1, 3}}

\* A total, three components (or names alike) and the linkbases that relate
\* them.
Node(n, tail) ==
    [Concept(0) EXCEPT !.stem = <<"Total", "Goods", "Parts", "Works">>[n],
                       !.tail = IF n = 1 THEN <<>> ELSE tail]

Arc(m, n) ==
    [role |-> {"notes"}, from |-> Locator("relative", "a.xsd", m),
     to |-> Locator("relative", "a.xsd", n), weight |-> 1]

Tree(parents) ==
    SetToSeq({Arc(parents[n], n) : n \in {m \in DOMAIN parents : parents[m] # 0}})

\* A child of two parents, an arc read twice, a locator by URL to the same
\* concept, weights, a second role, and both at two levels.
Tangles ==
    {<<Arc(1, 2), Arc(1, 3), Arc(2, 4), Arc(3, 4)>>,
     <<Arc(1, 2), Arc(1, 3), Arc(1, 2)>>,
     <<Arc(1, 2), [Arc(1, 2) EXCEPT !.to.href = "remote"], Arc(2, 4)>>,
     <<[Arc(1, 2) EXCEPT !.weight = -1], Arc(1, 3), Arc(2, 4)>>,
     <<Arc(1, 2), Arc(2, 3), [Arc(1, 3) EXCEPT !.weight = -1]>>,
     <<Arc(1, 2), Arc(1, 3), [Arc(1, 3) EXCEPT !.role = {"other"}]>>,
     <<Arc(1, 2), Arc(1, 2), Arc(2, 3), [Arc(2, 3) EXCEPT !.weight = 2], Arc(2, 4)>>}

Stocked(tail, own, arcs, factful, calc, pres) ==
    LET node == [n \in 1 .. 4 |-> Node(n, tail)]
        worth == <<32, 16, 4, 8>>
    IN  [Bundle({File(1, SetToSeq({Fact(node[n], 2, worth[n], 0) : n \in factful}))}) EXCEPT
            !.schemas = {Schema(1, "a.xsd", [n \in 1 .. 4 \ (IF own THEN {} ELSE {2}) |-> node[n]])},
            !.declared = node,
            !.calc = IF calc THEN arcs ELSE <<>>, !.links = IF pres THEN ToSet(arcs) ELSE {}]

Inventories ==
    {Stocked(<<>>, own, Tree(<<0, a, b, c>>), f, s[1], s[2]) :
        own \in BOOLEAN, a \in {0, 1}, b \in 0 .. 2, c \in {0, 1, 3}, f \in SUBSET (1 .. 4),
        s \in {<<TRUE, FALSE>>, <<FALSE, TRUE>>, <<TRUE, TRUE>>}}
    \cup
    {Stocked(<<>>, TRUE, arcs, f, TRUE, p) : arcs \in Tangles, f \in SUBSET (1 .. 4), p \in BOOLEAN}
    \cup
    {Stocked(tail, TRUE, Tree(<<0, 1, 1, 2>>), f, FALSE, p) :
        tail \in {<<"Stocks">>, <<"Stocks", "Valuation">>}, f \in SUBSET (1 .. 4), p \in BOOLEAN}

\* One concept in every kind of context, unit and statement.
Periods ==
    {[Instant EXCEPT !.instant = 1], [Instant EXCEPT !.instant = 0],
     [start |-> 1, instant |-> None, end |-> 1, members |-> {}]}

Dimensions ==
    {{}, {Member("Scope", Class("NonConsolidated", FALSE))}, {Member("Scope", Class("Segment", FALSE))},
     {[Member("Scope", Class("NonConsolidated", FALSE)) EXCEPT !.form = "blank"]}}

Roles == {{"notes", "balancesheet"}, {"income"}, {"cashflows"}, {"comprehensive", "income"}}

\* What its schemas make of a concept and the heading it stands under: both
\* by path; by the second schema of the name, another concept; nothing; and
\* both by their prefix.
Defining(c) ==
    LET all == [n \in 0 .. 1 |-> IF n = 0 THEN Concept(0) ELSE c]
        other == [n \in 0 .. 1 |-> Concept(n)]
        one == Schema(1, "a.xsd", all)
    IN  {[href |-> "relative", schemas |-> {one}, declared |-> Empty],
         [href |-> "remote", schemas |-> {one, Schema(2, "a.xsd", other)}, declared |-> Empty],
         [href |-> "local", schemas |-> {[one EXCEPT !.target = None]}, declared |-> Empty],
         [href |-> "relative", schemas |-> {}, declared |-> all]}

Presenting ==
    UNION {
        LET c == [Concept(s[1]) EXCEPT !.named = s[2]]
        IN  {[Bundle({File(1, <<[Fact(c, x, 200, 0) EXCEPT !.unit.measures = u, !.relevant = (u = {}),
                                                           !.marks = {"sign", "triangle"}],
                                Fact(Concept(2), 2, 300, 0)>>)})
              EXCEPT !.contexts = 2 :> Instant @@ 1 :> [p EXCEPT !.members = m],
                     !.schemas = d.schemas, !.declared = d.declared,
                     !.links = {[role |-> r, from |-> Locator(d.href, "a.xsd", 0),
                                 to |-> Locator(d.href, "a.xsd", 1), weight |-> 1] : r \in l}] :
                 d \in IF l = {} THEN {CHOOSE e \in Defining(c) : TRUE} ELSE Defining(c)} :
        s \in {<<1, None>>, <<7, None>>, <<8, "dividend">>, <<8, None>>},
        x \in {1, 3}, u \in {{"JPY"}, {"JPY", "shares"}, {"shares"}, {}},
        p \in Periods, m \in Dimensions, l \in {{}, {{"income"}, {"cashflows"}}, Roles}}

\* Share classes by axis and by concept, in two periods.
Classes ==
    {[Bundle({File(1, <<Fact(Concept(1), 2, 200, 0), Fact(Concept(1), 1, 200, 0),
                        [Fact(Concept(6), 3, v, 0) EXCEPT !.unit = Share],
                        [Fact([Concept(c) EXCEPT !.class = Class("A", TRUE)],
                              z, w, 0) EXCEPT !.unit = Share],
                        [Fact([Concept(6) EXCEPT !.space = "jpcrp"], 2, v, 0) EXCEPT !.unit = Share],
                        [Fact([Concept(6) EXCEPT !.space = "ifrs"], 2, 4, 0) EXCEPT !.unit = Share]>>)})
        EXCEPT !.contexts = 2 :> Instant @@ 1 :> [Instant EXCEPT !.instant = 1] @@
                    3 :> [Instant EXCEPT !.instant = 1,
                             !.members = {Member("ClassesOfShares", [Class("A", TRUE) EXCEPT !.total = t])}]] :
        v \in {0, 4}, w \in {0, 4, Nil}, c \in {3, 6, 8}, z \in {1, 3}, t \in BOOLEAN}

\* Which documents of a package are read.
Chosen ==
    LET doc(n, public, kind, v) ==
            [File(n, <<Fact(Concept(n), 2, v, 0),
                       [Fact(Concept(9), 2, v, 0) EXCEPT !.inside = (kind = "inline")]>>)
                EXCEPT !.public = public, !.kind = kind, !.dated = (n = 4)]
        all == {doc(1, TRUE, "xbrl", 200), doc(2, TRUE, "inline", 200),
                doc(3, FALSE, "xbrl", 200), doc(4, FALSE, "inline", 200),
                doc(5, FALSE, "inline", 200)}
    IN  {[Bundle(files) EXCEPT !.holds = h, !.labelled = l] :
            files \in SUBSET all, h \in BOOLEAN, l \in BOOLEAN}
        \cup {[Bundle({f}) EXCEPT !.directory = FALSE] : f \in all}
        \cup {Bundle({[doc(1, TRUE, "xbrl", 200) EXCEPT !.sound = FALSE]})}

MCPackage == Competing \cup Repeated \cup Inventories \cup Presenting \cup Classes \cup Chosen
=============================================================================
