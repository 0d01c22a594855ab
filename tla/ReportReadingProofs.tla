------------------------ MODULE ReportReadingProofs ------------------------
(***************************************************************************)
(* Proofs about the reading of an XBRL report, for any package, taxonomy   *)
(* and tag lists: documents in any order, concepts in any order, values in *)
(* any number and precision.                                               *)
(***************************************************************************)
EXTENDS ReportReading, DataInduction, SequenceTheorems

Value == Int \cup {Nil}

\* All that the chosen documents report.
Reports == UNION {{Reported(d)[i] : i \in DOMAIN Reported(d)} : d \in FactDocuments}

\* What is read comes from the chosen documents, and so does each bucket: its
\* value is one a fact states that belongs there.
Sourced ==
    /\ package \in Package
    /\ unread \subseteq FactDocuments
    /\ facts \in Seq(Reports)
    /\ \A k \in DOMAIN bucket : \E f \in Reports :
           /\ Known(f) /\ k.kind \in Stored(f) /\ k = Key(k.kind, f)
           /\ S!Value(f) = bucket[k].value

\* A fact in a known context is one of the package's.
LEMMA ReportsStated ==
    ASSUME package \in Package, NEW f \in Reports, Known(f)
    PROVE  f \in Elements(package)
<1>1. PICK d \in FactDocuments : \E i \in DOMAIN Reported(d) : f = Reported(d)[i]
  BY DEF Reports
<1>2. d \in package.files
  BY DEF FactDocuments, PublicInstances, PublicInline, Public, Discovered
<1>3. None \notin DOMAIN package.contexts
  BY PackageAssumption
<1>4. (\E i \in DOMAIN d.facts : f = d.facts[i]) \/ f = [context |-> None]
  BY <1>1 DEF Reported, S!InlineFacts, S!NoFact
<1>5. f # [context |-> None]
  BY <1>3 DEF Known
<1>. QED  BY <1>2, <1>4, <1>5 DEF Elements

\* A document's facts stand in a sequence.
LEMMA ReportedSeq ==
    ASSUME package \in Package, NEW d \in FactDocuments
    PROVE  Reported(d) \in Seq(Reports)
<1>1. d \in package.files
  BY DEF FactDocuments, PublicInstances, PublicInline, Public, Discovered
<1>2. d.facts \in Seq(Elements(package))
  BY <1>1, PackageAssumption
<1>. DEFINE n == Len(d.facts)
<1>3. n \in Nat /\ DOMAIN d.facts = 1 .. n
  BY <1>2
<1>. HIDE DEF n
<1>4. DOMAIN Reported(d) = 1 .. n /\ Reported(d) = [i \in 1 .. n |-> Reported(d)[i]]
  <2>1. CASE d.kind = "xbrl"
    <3>1. Reported(d) = d.facts
      BY <2>1 DEF Reported
    <3>2. d.facts = [i \in 1 .. n |-> d.facts[i]]
      BY <1>2, <1>3
    <3>. QED  BY <1>3, <3>1, <3>2
  <2>2. CASE d.kind # "xbrl"
    BY <1>3, <2>2 DEF Reported, S!InlineFacts
  <2>. QED  BY <2>1, <2>2
<1>5. ASSUME NEW i \in 1 .. n PROVE Reported(d)[i] \in Reports
  <2>1. i \in DOMAIN Reported(d)
    BY <1>4
  <2>2. Reported(d)[i] \in {Reported(d)[j] : j \in DOMAIN Reported(d)}
    BY <2>1
  <2>. QED  BY <2>2 DEF Reports
<1>. DEFINE g == [i \in 1 .. n |-> Reported(d)[i]]
<1>6. g \in [1 .. n -> Reports]
  BY <1>5
<1>7. Reported(d) = g
  BY <1>4
<1>. HIDE DEF g
<1>8. g \in Seq(Reports)
  BY <1>3, <1>6, SeqDef
<1>. QED  BY <1>7, <1>8
-----------------------------------------------------------------------------
(***************************************************************************)
(* The distance a kept value may be from those merged into it.  A value is *)
(* only replaced by one of more decimals, so half a tolerance remains for  *)
(* what may still come; Blank tolerates nothing and is replaced by all.    *)
(***************************************************************************)
Stated == [value : Value, decimals : Decimal]

Drift(kept, seen) ==
    /\ kept \in Stated /\ seen \subseteq Stated
    /\ kept.value = Nil => \A u \in seen : u.value = Nil
    /\ kept.value # Nil => kept \in seen
    /\ \A u \in seen : u.value # Nil =>
           /\ u.decimals <= kept.decimals
           /\ \E w \in seen :
                  /\ w.value # Nil
                  /\ Distance(kept.value, u.value) + 2 * Tolerance[kept.decimals]
                         <= 3 * Tolerance[w.decimals]

LEMMA DistanceFacts ==
    ASSUME NEW x \in Int, NEW y \in Int, NEW z \in Int
    PROVE  /\ Distance(x, y) \in Nat /\ Distance(x, x) = 0
           /\ Distance(x, y) = Distance(y, x)
           /\ Distance(x, z) <= Distance(x, y) + Distance(y, z)
           /\ Distance(x, y) = 0 => x = y
BY DEF Distance

LEMMA FirstDrift ==
    ASSUME NEW first \in Stated
    PROVE  Drift(first, {first})
<1>1. CASE first.value = Nil
  BY <1>1 DEF Drift
<1>2. CASE first.value # Nil
  <2>1. first.value \in Int /\ first.decimals \in Decimal
    BY <1>2 DEF Stated, Value
  <2>2. Tolerance[first.decimals] \in Nat /\ first.decimals \in Int
    BY <2>1, ToleranceAssumption
  <2>3. Distance(first.value, first.value) = 0
    BY <2>1, DistanceFacts
  <2>4. Distance(first.value, first.value) + 2 * Tolerance[first.decimals]
            <= 3 * Tolerance[first.decimals]
    BY <2>2, <2>3
  <2>. QED  BY <1>2, <2>2, <2>4 DEF Drift
<1>. QED  BY <1>1, <1>2

\* Stating a value keeps the drift within its bound.
LEMMA MergeDrift ==
    ASSUME NEW old, NEW seen, Drift(old, seen), NEW new \in Stated, ~Contradicts(new, old)
    PROVE  Drift(Merge(new, old), seen \cup {new})
<1>. DEFINE all == seen \cup {new}
<1>1. old \in Stated /\ all \subseteq Stated
  BY DEF Drift
<1>2. \A d \in Decimal : d \in Int /\ Tolerance[d] \in Nat
  BY ToleranceAssumption
<1>3. CASE new.value = Nil
  <2>1. Merge(new, old) \in Stated /\ Merge(new, old).value = old.value
    BY <1>1, <1>3 DEF Merge, Improves, Stated
  <2>2. old.value # Nil => Merge(new, old) = old
    BY <1>1, <1>3 DEF Merge, Improves
  <2>3. CASE old.value = Nil
    BY <1>1, <1>3, <2>1, <2>3 DEF Drift
  <2>4. CASE old.value # Nil
    BY <1>1, <1>3, <2>2, <2>4 DEF Drift
  <2>. QED  BY <2>3, <2>4
<1>4. CASE new.value # Nil /\ old.value = Nil
  <2>1. Merge(new, old) = new
    BY <1>4 DEF Merge, Improves
  <2>2. \A u \in seen : u.value = Nil
    BY <1>4 DEF Drift
  <2>3. new.value \in Int /\ new.decimals \in Decimal
    BY <1>4 DEF Stated, Value
  <2>4. Distance(new.value, new.value) + 2 * Tolerance[new.decimals] <= 3 * Tolerance[new.decimals]
    <3>1. Distance(new.value, new.value) = 0
      BY <2>3, DistanceFacts
    <3>2. Tolerance[new.decimals] \in Nat
      BY <1>2, <2>3
    <3>. QED  BY <3>1, <3>2
  <2>. QED  BY <1>1, <1>2, <1>4, <2>1, <2>2, <2>3, <2>4 DEF Drift
<1>5. CASE new.value # Nil /\ old.value # Nil
  <2>. DEFINE to == Tolerance[old.decimals]
              tn == Tolerance[new.decimals]
              gap == Distance(old.value, new.value)
  <2>1. /\ new.value \in Int /\ old.value \in Int
        /\ new.decimals \in Decimal /\ old.decimals \in Decimal
        /\ new.decimals \in Int /\ old.decimals \in Int
        /\ to \in Nat /\ tn \in Nat
    BY <1>1, <1>2, <1>5 DEF Stated, Value
  <2>2. gap \in Nat /\ gap = Distance(new.value, old.value) /\ Distance(new.value, new.value) = 0
    BY <2>1, DistanceFacts
  <2>3. gap <= to \/ gap <= tn
    BY <1>5 DEF Contradicts, Compatible
  <2>4. old \in seen
    BY <1>5 DEF Drift
  <2>5. \A d, e \in Decimal : d # Blank /\ d < e => 2 * Tolerance[e] <= Tolerance[d]
    BY ToleranceAssumption
  <2>6. Tolerance[Blank] = 0 /\ Blank \in Decimal /\ \A d \in Decimal : Blank <= d
    BY ToleranceAssumption
  <2>7. CASE new.decimals > old.decimals
    <3>1. Merge(new, old) = new
      BY <1>5, <2>7 DEF Merge, Improves, MorePrecise
    <3>2. ASSUME NEW u \in seen, u.value # Nil
          PROVE  /\ u.decimals <= new.decimals
                 /\ \E w \in all : /\ w.value # Nil
                                   /\ Distance(new.value, u.value) + 2 * tn <= 3 * Tolerance[w.decimals]
      <4>1. u.value \in Int /\ u.decimals \in Decimal /\ u.decimals \in Int
        BY <1>1, <1>2, <3>2 DEF Stated, Value
      <4>2. u.decimals <= old.decimals
        BY <3>2 DEF Drift
      <4>3. PICK w \in seen : /\ w.value # Nil
                              /\ Distance(old.value, u.value) + 2 * to <= 3 * Tolerance[w.decimals]
        BY <3>2 DEF Drift
      <4>4. w.decimals \in Decimal /\ w.decimals \in Int /\ Tolerance[w.decimals] \in Nat
            /\ w.decimals <= old.decimals
        BY <1>1, <1>2, <4>3 DEF Stated, Drift
      <4>5. /\ Distance(old.value, u.value) \in Nat
            /\ Distance(new.value, u.value) \in Nat
            /\ Distance(new.value, u.value) <= gap + Distance(old.value, u.value)
        BY <2>1, <2>2, <4>1, DistanceFacts
      <4>6. u.decimals <= new.decimals
        BY <2>1, <2>7, <4>1, <4>2
      <4>7. CASE old.decimals = Blank
        <5>1. w.decimals = Blank
          BY <2>1, <2>6, <4>4, <4>7
        <5>2. to = 0 /\ Tolerance[w.decimals] = 0
          BY <2>6, <4>7, <5>1
        <5>3. Distance(old.value, u.value) = 0
          BY <4>3, <4>5, <5>2
        <5>4. Distance(new.value, u.value) + 2 * tn <= 3 * tn
          BY <2>1, <2>2, <2>3, <4>5, <5>2, <5>3
        <5>. QED  BY <1>5, <4>6, <5>4
      <4>8. CASE old.decimals # Blank
        <5>1. 2 * tn <= to
          BY <2>1, <2>5, <2>7, <4>8
        <5>2. Distance(new.value, u.value) + 2 * tn <= 3 * Tolerance[w.decimals]
          <6>1. \A a, b, c, x, y, z \in Nat :
                    c <= a + b /\ (a <= x \/ a <= y) /\ 2 * y <= x /\ b + 2 * x <= z => c + 2 * y <= z
            OBVIOUS
          <6>. QED  BY <2>1, <2>2, <2>3, <4>3, <4>4, <4>5, <5>1, <6>1
        <5>. QED  BY <4>3, <4>6, <5>2
      <4>. QED  BY <4>7, <4>8
    <3>3. Distance(new.value, new.value) + 2 * tn <= 3 * tn
      BY <2>1, <2>2
    <3>4. new.decimals <= new.decimals
      BY <2>1
    <3>. HIDE DEF to, gap
    <3>. QED  BY <1>1, <1>5, <3>1, <3>2, <3>3, <3>4 DEF Drift
  <2>8. CASE ~(new.decimals > old.decimals)
    <3>1. Merge(new, old) = old
      BY <1>5, <2>8 DEF Merge, Improves, MorePrecise
    <3>2. new.decimals <= old.decimals
      BY <2>1, <2>8
    <3>3. \E w \in all : /\ w.value # Nil
                         /\ Distance(old.value, new.value) + 2 * to <= 3 * Tolerance[w.decimals]
      <4>1. CASE gap <= to
        <5>1. Distance(old.value, new.value) + 2 * to <= 3 * to
          BY <2>1, <2>2, <4>1
        <5>. QED  BY <1>5, <2>4, <5>1
      <4>2. CASE ~(gap <= to)
        <5>1. gap <= tn
          BY <2>3, <4>2
        <5>2. new.decimals # Blank
          BY <2>1, <2>2, <2>6, <4>2, <5>1
        <5>3. new.decimals # old.decimals
          BY <4>2, <5>1
        <5>4. 2 * to <= tn
          BY <2>1, <2>5, <3>2, <5>2, <5>3
        <5>5. Distance(old.value, new.value) + 2 * to <= 3 * tn
          BY <2>1, <2>2, <5>1, <5>4
        <5>. QED  BY <1>5, <5>5
      <4>. QED  BY <4>1, <4>2
    <3>. HIDE DEF to, gap
    <3>. QED  BY <1>1, <1>5, <3>1, <3>2, <3>3 DEF Drift, to
  <2>. QED  BY <2>7, <2>8
<1>. QED  BY <1>3, <1>4, <1>5
-----------------------------------------------------------------------------
(***************************************************************************)
(* The steps that read.                                                    *)
(***************************************************************************)
LEMMA ReadingSteps ==
    ASSUME [Next]_vars
    PROVE  /\ package' = package
           /\ \/ Open \/ (\E f \in unread : NextDocument(f)) \/ Skip \/ Read
              \/ UNCHANGED <<unread, facts, bucket, merged>>
<1>. USE DEF reading, building, Stop
<1>1. CASE OpenEmpty \/ OpenFails \/ Open \/ (\E f \in unread : NextDocument(f))
  BY <1>1 DEF OpenEmpty, OpenFails, Open, NextDocument
<1>2. CASE Skip \/ Disagree \/ Read \/ ReadEnds
  BY <1>2 DEF Skip, Disagree, Read, ReadEnds
<1>3. CASE Dedupe \/ DedupeFails \/ DedupeEnds \/ Total \/ TotalFails \/ NextContext
  BY <1>3 DEF Dedupe, DedupeFails, DedupeEnds, Total, TotalFails, NextContext
<1>4. CASE (\E c \in left : InsertConcept(c) \/ InsertFails(c)) \/ InsertTotal
  BY <1>4 DEF InsertConcept, InsertFails, InsertTotal
<1>5. CASE (\E c \in left : InsertShares(c) \/ SharesFail(c)) \/ Flag \/ Finish
  BY <1>5 DEF InsertShares, SharesFail, Flag, Finish
<1>6. CASE Ended \/ UNCHANGED vars
  BY <1>6 DEF Ended, vars
<1>. QED  BY <1>1, <1>2, <1>3, <1>4, <1>5, <1>6 DEF Next

\* What depends on the package alone stays.
LEMMA PackageFixed ==
    ASSUME package' = package
    PROVE  /\ FactDocuments' = FactDocuments /\ Reports' = Reports
           /\ \A f : (Known(f) <=> Known(f)') /\ Stored(f)' = Stored(f)
<1>1. FactDocuments' = FactDocuments
  BY DEF FactDocuments, PublicInstances, PublicInline, Public, Discovered
<1>2. \A f : Reported(f)' = Reported(f)
  BY DEF Reported, PublicInstances, Public
<1>3. Reports' = Reports
  BY <1>1, <1>2 DEF Reports
<1>4. \A f : (Known(f) <=> Known(f)') /\ Context(f)' = Context(f)
  BY DEF Known, Context, ContextAt
<1>5. \A f : Stored(f)' = Stored(f)
  BY <1>4 DEF Stored, Kinds
<1>. QED  BY <1>1, <1>3, <1>4, <1>5

LEMMA SourcedInit == Init => Sourced
BY EmptySeq DEF Init, Sourced, Empty

LEMMA SourcedNext == Sourced /\ [Next]_vars => Sourced'
<1>. SUFFICES ASSUME Sourced, [Next]_vars PROVE Sourced'
  OBVIOUS
<1>1. package' = package
  BY ReadingSteps
<1>2. /\ FactDocuments' = FactDocuments /\ Reports' = Reports
      /\ \A f : (Known(f) <=> Known(f)') /\ Stored(f)' = Stored(f)
  BY <1>1, PackageFixed
<1>3. package' \in Package
  BY <1>1 DEF Sourced
<1>4. CASE UNCHANGED <<unread, facts, bucket>>
  BY <1>1, <1>2, <1>4 DEF Sourced
<1>5. CASE Open
  BY <1>2, <1>3, <1>5 DEF Open, Sourced
<1>6. CASE \E f \in unread : NextDocument(f)
  <2>1. PICK d \in unread : NextDocument(d)
    BY <1>6
  <2>2. Reported(d) \in Seq(Reports)
    BY ReportedSeq DEF Sourced
  <2>. QED  BY <1>2, <1>3, <2>1, <2>2 DEF NextDocument, Sourced
<1>7. CASE Skip
  BY <1>2, <1>3, <1>7, HeadTailProperties DEF Skip, Sourced
<1>8. CASE Read
  <2>. DEFINE f == Head(facts)
              keys == {Key(k, f) : k \in Stored(f)}
  <2>1. f \in Reports /\ facts' \in Seq(Reports) /\ Known(f) /\ unread' = unread
    BY <1>8, HeadTailProperties DEF Read, Sourced
  <2>2. bucket' = [k \in DOMAIN bucket \cup keys |->
            IF k \notin keys THEN bucket[k]
            ELSE IF k \in DOMAIN bucket THEN Merge(Statement(f), bucket[k]) ELSE Statement(f)]
    BY <1>8 DEF Read
  <2>3. \A k \in keys : k.kind \in Stored(f) /\ k = Key(k.kind, f)
    BY DEF Key
  <2>4. Statement(f).value = S!Value(f)
    BY DEF Statement
  <2>. HIDE DEF f, keys
  <2>5. ASSUME NEW k \in DOMAIN bucket'
        PROVE  \E g \in Reports : /\ Known(g) /\ k.kind \in Stored(g) /\ k = Key(k.kind, g)
                                  /\ S!Value(g) = bucket'[k].value
    <3>1. k \in DOMAIN bucket => \E g \in Reports :
              /\ Known(g) /\ k.kind \in Stored(g) /\ k = Key(k.kind, g)
              /\ S!Value(g) = bucket[k].value
      BY DEF Sourced
    <3>2. k \in DOMAIN bucket \/ k \in keys
      BY <2>2
    <3>3. \/ k \in DOMAIN bucket /\ bucket'[k].value = bucket[k].value
          \/ k \in keys /\ bucket'[k].value = Statement(f).value
      BY <2>2, <3>2 DEF Merge
    <3>. QED  BY <2>1, <2>3, <2>4, <3>1, <3>3
  <2>. QED  BY <1>2, <1>3, <2>1, <2>5 DEF Sourced
<1>. QED  BY <1>4, <1>5, <1>6, <1>7, <1>8, ReadingSteps

LEMMA AlwaysSourced == Spec => []Sourced
BY SourcedInit, SourcedNext, PTL DEF Spec
-----------------------------------------------------------------------------
Drifts ==
    /\ DOMAIN merged = DOMAIN bucket
    /\ \A k \in DOMAIN bucket : Drift(bucket[k], merged[k])

LEMMA DriftsNext == Sourced /\ Drifts /\ [Next]_vars => Drifts'
<1>. SUFFICES ASSUME Sourced, Drifts, [Next]_vars PROVE Drifts'
  OBVIOUS
<1>1. CASE Read
  <2>. DEFINE f == Head(facts)
              keys == {Key(k, f) : k \in Stored(f)}
  <2>1. f \in Reports /\ Known(f) /\ ~Conflicts(f)
    BY <1>1, HeadTailProperties DEF Read, Sourced
  <2>2. f \in Elements(package) /\ package \in Package
    BY <2>1, ReportsStated DEF Sourced
  <2>3. Statement(f) \in Stated
    BY <2>2, PackageAssumption DEF Statement, Stated, Value
  <2>4. bucket' = [k \in DOMAIN bucket \cup keys |->
            IF k \notin keys THEN bucket[k]
            ELSE IF k \in DOMAIN bucket THEN Merge(Statement(f), bucket[k]) ELSE Statement(f)]
    BY <1>1 DEF Read
  <2>5. merged' = [k \in DOMAIN merged \cup keys |->
            (IF k \in DOMAIN merged THEN merged[k] ELSE {})
            \cup (IF k \in keys THEN {Statement(f)} ELSE {})]
    BY <1>1 DEF Read
  <2>6. \A k \in keys : k \in DOMAIN bucket => ~Contradicts(Statement(f), bucket[k])
    BY <2>1 DEF Conflicts
  <2>. HIDE DEF f, keys
  <2>7. DOMAIN merged' = DOMAIN bucket' /\ DOMAIN merged = DOMAIN bucket
    BY <2>4, <2>5 DEF Drifts
  <2>8. ASSUME NEW k \in DOMAIN bucket' PROVE Drift(bucket'[k], merged'[k])
    <3>1. CASE k \notin keys
      <4>1. k \in DOMAIN bucket /\ bucket'[k] = bucket[k] /\ merged'[k] = merged[k]
        BY <2>4, <2>5, <2>7, <3>1
      <4>. QED  BY <4>1 DEF Drifts
    <3>2. CASE k \in keys /\ k \in DOMAIN bucket
      <4>1. /\ bucket'[k] = Merge(Statement(f), bucket[k])
            /\ merged'[k] = merged[k] \cup {Statement(f)}
        BY <2>4, <2>5, <2>7, <3>2
      <4>2. Drift(bucket[k], merged[k])
        BY <3>2 DEF Drifts
      <4>. QED  BY <2>3, <2>6, <3>2, <4>1, <4>2, MergeDrift
    <3>3. CASE k \in keys /\ k \notin DOMAIN bucket
      <4>1. bucket'[k] = Statement(f) /\ merged'[k] = {Statement(f)}
        BY <2>4, <2>5, <2>7, <3>3
      <4>. QED  BY <2>3, <4>1, FirstDrift
    <3>. QED  BY <3>1, <3>2, <3>3
  <2>. QED  BY <2>7, <2>8 DEF Drifts
<1>2. CASE UNCHANGED <<bucket, merged>>
  BY <1>2 DEF Drifts
<1>3. \/ Read \/ UNCHANGED <<bucket, merged>>
  BY ReadingSteps DEF Open, NextDocument, Skip
<1>. QED  BY <1>1, <1>2, <1>3

LEMMA AlwaysDrifts == Spec => []Drifts
<1>1. Init => Drifts
  BY DEF Init, Drifts, Empty
<1>. QED  BY <1>1, DriftsNext, AlwaysSourced, PTL DEF Spec

\* What is kept of a concept in a context is never further from any value
\* merged into it than three tolerances of the coarsest (store_concept_value).
THEOREM ValuesDriftLittle == Spec => []DriftBounded
<1>1. Drifts => DriftBounded
  <2>. SUFFICES ASSUME Drifts, NEW k \in DOMAIN bucket, NEW u \in Coarsest(k)
                PROVE  \E w \in Coarsest(k) :
                           Distance(bucket[k].value, u.value) <= 3 * Tolerance[w.decimals]
    BY DEF DriftBounded
  <2>1. Drift(bucket[k], merged[k]) /\ u \in merged[k] /\ u.value # Nil
    BY DEF Drifts, Coarsest
  <2>2. PICK w \in merged[k] :
            /\ w.value # Nil
            /\ Distance(bucket[k].value, u.value) + 2 * Tolerance[bucket[k].decimals]
                   <= 3 * Tolerance[w.decimals]
    BY <2>1 DEF Drift
  <2>3. /\ bucket[k].value \in Int /\ u.value \in Int
        /\ Tolerance[bucket[k].decimals] \in Nat /\ Tolerance[w.decimals] \in Nat
    BY <2>1, ToleranceAssumption DEF Drift, Stated, Value
  <2>4. Distance(bucket[k].value, u.value) \in Nat
    BY <2>3, DistanceFacts
  <2>5. w \in Coarsest(k)
    BY <2>2 DEF Coarsest
  <2>. QED  BY <2>2, <2>3, <2>4, <2>5
<1>. QED  BY <1>1, AlwaysDrifts, PTL
-----------------------------------------------------------------------------
(***************************************************************************)
(* Where the canonical values come from.                                   *)
(***************************************************************************)
LEMMA InsertGives ==
    ASSUME NEW k, NEW e, NEW j \in DOMAIN Insert(k, e)
    PROVE  \/ j = k /\ Insert(k, e)[j] = e
           \/ j \in DOMAIN items /\ Insert(k, e)[j] = items[j]
BY DEF Insert, Put

\* Only what the taxonomy knows is semantic.
LEMMA SemanticKnown ==
    ASSUME NEW c, Semantic(c)
    PROVE  \/ c.space \in DOMAIN T!FamilyOf \cup T!Sibling
           \/ [space |-> c.space, stem |-> c.stem, tail |-> c.tail] \in DOMAIN Taxonomy.exact
<1>. SUFFICES ASSUME c.space \notin DOMAIN T!FamilyOf, c.space \notin T!Sibling
              PROVE  [space |-> c.space, stem |-> c.stem, tail |-> c.tail] \in DOMAIN Taxonomy.exact
  OBVIOUS
<1>1. T!Canonical(c) # None
  BY DEF Semantic, T!Status
<1>2. T!Reviewed(c) # None
  BY <1>1 DEF T!Canonical
<1>3. T!Resolved(c) # None
  BY <1>2 DEF T!Reviewed
<1>4. T!ItemFor(c) # None
  BY <1>3 DEF T!Resolved
<1>. QED  BY <1>4 DEF T!ItemFor

Bucket(kind, x, c) == [kind |-> kind, context |-> x, concept |-> c]

Standing(kind, x, c) == Bucket(kind, x, c) \in DOMAIN bucket /\ Semantic(c)

\* The bucket an item's value was taken from.
Taken(k) == \E kind \in {"financial", "shares"} :
    /\ Standing(kind, k.context, items[k].source)
    /\ bucket[Bucket(kind, k.context, items[k].source)].value = items[k].value

Founded ==
    /\ pc \in {"open", "read"} => items = Empty
    /\ \A k \in DOMAIN items : items[k].priority < Synthetic => Taken(k)
    /\ pc = "insert" => \A c \in left : Standing("financial", at, c)
    /\ pc = "shares" => \A c \in left : Standing("shares", at, c)

LEMMA ConceptsStand ==
    ASSUME Sourced, NEW kind, NEW x, NEW c \in Concepts(kind, x)
    PROVE  Bucket(kind, x, c) \in DOMAIN bucket
<1>1. PICK k \in DOMAIN bucket : k.kind = kind /\ k.context = x /\ k.concept = c
  BY DEF Concepts
<1>2. PICK f \in Reports : k = Key(k.kind, f)
  BY DEF Sourced
<1>3. k = Bucket(kind, x, c)
  BY <1>1, <1>2 DEF Key, Bucket
<1>. QED  BY <1>3

\* Building takes no value from elsewhere.
LEMMA TakenKept ==
    ASSUME Founded, UNCHANGED bucket,
           \A k \in DOMAIN items' :
               \/ k \in DOMAIN items /\ items'[k] = items[k]
               \/ items'[k].priority < Synthetic => Taken(k)'
    PROVE  \A k \in DOMAIN items' : items'[k].priority < Synthetic => Taken(k)'
<1>1. ASSUME NEW k \in DOMAIN items, items'[k] = items[k], Taken(k) PROVE Taken(k)'
  BY <1>1 DEF Taken, Standing, Semantic
<1>. QED  BY <1>1 DEF Founded

LEMMA FoundedNext == Sourced /\ Founded /\ [Next]_vars => Founded'
<1>. SUFFICES ASSUME Sourced, Founded, [Next]_vars PROVE Founded'
  OBVIOUS
<1>. USE DEF reading, building
<1>1. CASE UNCHANGED <<bucket, at, left, items>> /\ (pc' = pc \/ pc' \in {"read", "dedupe", "total", "next", "done", "failed"})
                         /\ (pc' = "read" => items = Empty)
  <2>1. \A k \in DOMAIN items' : items'[k].priority < Synthetic => Taken(k)'
    BY <1>1, TakenKept
  <2>2. \A kind, c : Standing(kind, at, c) => Standing(kind, at, c)'
    BY <1>1 DEF Standing, Semantic
  <2>. QED  BY <1>1, <2>1, <2>2 DEF Founded
<1>2. CASE pc = "read" /\ pc' = "read" /\ items' = items
  BY <1>2 DEF Founded, Empty
<1>3. CASE NextContext
  <2>1. items' = items /\ bucket' = bucket /\ pc' = "insert"
    BY <1>3 DEF NextContext
  <2>2. \A k \in DOMAIN items' : items'[k].priority < Synthetic => Taken(k)'
    BY <2>1, TakenKept
  <2>3. left' = {c \in Concepts("financial", at') : Routed(c)}
    BY <1>3 DEF NextContext
  <2>4. \A c \in left' : Standing("financial", at', c)
    BY <2>3, ConceptsStand DEF Standing, Routed
  <2>5. \A c \in left' : Standing("financial", at, c)'
    BY <2>1, <2>4 DEF Standing, Semantic
  <2>. QED  BY <2>1, <2>2, <2>5 DEF Founded
<1>4. CASE \E c \in left : InsertConcept(c)
  <2>. PICK c \in left : InsertConcept(c)
    BY <1>4
  <2>1. /\ pc = "insert" /\ pc' = pc /\ bucket' = bucket /\ at' = at /\ left' = left \ {c}
        /\ items' = Insert(ItemKey(StatementFor(c), Item(c)), ConceptEntry(c))
    BY DEF InsertConcept
  <2>2. Standing("financial", at, c)
    BY <2>1 DEF Founded
  <2>3. ASSUME NEW k \in DOMAIN items', k = ItemKey(StatementFor(c), Item(c)), items'[k] = ConceptEntry(c)
        PROVE  Taken(k)'
    <3>1. /\ k.context = at /\ items'[k].source = c
          /\ items'[k].value = bucket[Bucket("financial", at, c)].value
      BY <2>3 DEF ItemKey, ConceptEntry, Entry, Bucket
    <3>. QED  BY <2>1, <2>2, <3>1 DEF Taken, Standing, Semantic
  <2>4. \A k \in DOMAIN items' : items'[k].priority < Synthetic => Taken(k)'
    BY <2>1, <2>3, InsertGives, TakenKept
  <2>5. \A d \in left' : Standing("financial", at, d)'
    BY <2>1 DEF Founded, Standing, Semantic
  <2>. QED  BY <2>1, <2>4, <2>5 DEF Founded
<1>5. CASE InsertTotal
  <2>1. /\ pc' = "shares" /\ bucket' = bucket /\ at' = at
        /\ left' = {c \in Concepts("shares", at) : Semantic(c)}
        /\ \/ items' = items
           \/ items' = Insert(ItemKey("bs", "inventories"), Entry(inventory[at], Synthetic, Blank, None))
    BY <1>5 DEF InsertTotal
  <2>2. ~(Entry(inventory[at], Synthetic, Blank, None).priority < Synthetic)
    BY DEF Entry, Synthetic
  <2>3. \A k \in DOMAIN items' : items'[k].priority < Synthetic => Taken(k)'
    BY <2>1, <2>2, InsertGives, TakenKept
  <2>4. \A c \in left' : Standing("shares", at, c)
    BY <2>1, ConceptsStand DEF Standing
  <2>5. \A c \in left' : Standing("shares", at, c)'
    BY <2>1, <2>4 DEF Standing, Semantic
  <2>. QED  BY <2>1, <2>3, <2>5 DEF Founded
<1>6. CASE \E c \in left : InsertShares(c)
  <2>. PICK c \in left : InsertShares(c)
    BY <1>6
  <2>1. /\ pc = "shares" /\ pc' = pc /\ bucket' = bucket /\ at' = at /\ left' = left \ {c}
        /\ items' = Insert(ItemKey("bs", Item(c)), ShareEntry(c))
    BY DEF InsertShares
  <2>2. Standing("shares", at, c)
    BY <2>1 DEF Founded
  <2>3. ASSUME NEW k \in DOMAIN items', k = ItemKey("bs", Item(c)), items'[k] = ShareEntry(c)
        PROVE  Taken(k)'
    <3>1. /\ k.context = at /\ items'[k].source = c
          /\ items'[k].value = bucket[Bucket("shares", at, c)].value
      BY <2>3 DEF ItemKey, ShareEntry, Entry, Bucket
    <3>. QED  BY <2>1, <2>2, <3>1 DEF Taken, Standing, Semantic
  <2>4. \A k \in DOMAIN items' : items'[k].priority < Synthetic => Taken(k)'
    BY <2>1, <2>3, InsertGives, TakenKept
  <2>5. \A d \in left' : Standing("shares", at, d)'
    BY <2>1 DEF Founded, Standing, Semantic
  <2>. QED  BY <2>1, <2>4, <2>5 DEF Founded
<1>7. CASE Flag
  <2>. DEFINE entry == Entry(IF PreferredIn(ContextAt(at).period) THEN 1 ELSE 0, Synthetic, Blank, None)
  <2>1. /\ pc' = "next" /\ bucket' = bucket /\ at' = at
        /\ \/ items' = items
           \/ items' = Insert(ItemKey("bs", "has_preferred_shares"), entry)
    BY <1>7 DEF Flag
  <2>2. ~(entry.priority < Synthetic)
    BY DEF Entry, Synthetic
  <2>. HIDE DEF entry
  <2>3. \A k \in DOMAIN items' : items'[k].priority < Synthetic => Taken(k)'
    BY <2>1, <2>2, InsertGives, TakenKept
  <2>. QED  BY <2>1, <2>3 DEF Founded
<1>8. CASE OpenEmpty \/ OpenFails \/ Open \/ (\E f \in unread : NextDocument(f)) \/ Skip \/ Disagree \/ ReadEnds
  BY <1>1, <1>8 DEF OpenEmpty, OpenFails, Open, NextDocument, Skip, Disagree, ReadEnds, Stop, Founded
<1>9. CASE Dedupe \/ DedupeFails \/ DedupeEnds \/ Total \/ TotalFails \/ Finish
           \/ (\E c \in left : InsertFails(c)) \/ (\E c \in left : SharesFail(c))
  BY <1>1, <1>9 DEF Dedupe, DedupeFails, DedupeEnds, Total, TotalFails, Finish, InsertFails, SharesFail, Stop
<1>10. CASE Read
  BY <1>2, <1>10 DEF Read
<1>11. CASE Ended \/ UNCHANGED vars
  <2>1. UNCHANGED vars
    BY <1>11 DEF Ended
  <2>2. pc' = pc /\ UNCHANGED <<bucket, at, left, items>>
    BY <2>1 DEF vars
  <2>. QED  BY <1>1, <2>2 DEF Founded
<1>. QED  BY <1>3, <1>4, <1>5, <1>6, <1>7, <1>8, <1>9, <1>10, <1>11 DEF Next

LEMMA AlwaysFounded == Spec => []Founded
<1>1. Init => Founded
  BY DEF Init, Founded, Empty
<1>. QED  BY <1>1, FoundedNext, AlwaysSourced, PTL DEF Spec

\* A canonical value that is no total was stated by its source, a concept the
\* taxonomy knows, for the group and in its context, in a chosen document.
THEOREM ValuesHaveSources == Spec => []Provenance
<1>1. Sourced /\ Founded => Provenance
  <2>. SUFFICES ASSUME Sourced, Founded, NEW k \in DOMAIN items, items[k].priority < Synthetic
                PROVE  /\ Group(ContextAt(k.context))
                       /\ LET c == items[k].source
                          IN  \/ c.space \in DOMAIN T!FamilyOf \cup T!Sibling
                              \/ [space |-> c.space, stem |-> c.stem, tail |-> c.tail]
                                     \in DOMAIN Taxonomy.exact
                       /\ \E d \in FactDocuments : \E i \in DOMAIN Reported(d) :
                             /\ Reported(d)[i].context = k.context
                             /\ Reported(d)[i].concept = items[k].source
                             /\ S!Value(Reported(d)[i]) = items[k].value
    BY DEF Provenance
  <2>1. PICK kind \in {"financial", "shares"} :
            /\ Standing(kind, k.context, items[k].source)
            /\ bucket[Bucket(kind, k.context, items[k].source)].value = items[k].value
    BY DEF Founded, Taken
  <2>2. PICK f \in Reports :
            /\ kind \in Stored(f)
            /\ Bucket(kind, k.context, items[k].source) = Key(kind, f)
            /\ S!Value(f) = items[k].value
    <3>1. Bucket(kind, k.context, items[k].source).kind = kind
      BY DEF Bucket
    <3>. QED  BY <2>1, <3>1 DEF Sourced, Standing
  <2>3. f.context = k.context /\ f.concept = items[k].source
    BY <2>2 DEF Bucket, Key
  <2>4. Group(Context(f))
    BY <2>2 DEF Stored, Kinds
  <2>5. Semantic(items[k].source)
    BY <2>1 DEF Standing
  <2>6. PICK d \in FactDocuments : \E i \in DOMAIN Reported(d) : f = Reported(d)[i]
    BY DEF Reports
  <2>. QED  BY <2>2, <2>3, <2>4, <2>5, <2>6, SemanticKnown DEF Context
<1>. QED  BY <1>1, AlwaysSourced, AlwaysFounded, PTL
-----------------------------------------------------------------------------
(***************************************************************************)
(* The raw rows.  They are pushed in document order and merged later, the  *)
(* buckets at once; which value is to win is the same for both.            *)
(***************************************************************************)
\* A set put in a sequence is there once.
LEMMA Listed ==
    ASSUME NEW U, IsFiniteSet(U)
    PROVE  /\ SetToSeq(U) \in Seq(U)
           /\ \A i, j \in 1 .. Len(SetToSeq(U)) : SetToSeq(U)[i] = SetToSeq(U)[j] => i = j
           /\ \A x \in U : \E i \in 1 .. Len(SetToSeq(U)) : SetToSeq(U)[i] = x
<1>. DEFINE n == Cardinality(U)
            s == SetToSeq(U)
<1>1. n \in Nat /\ \E f : f \in Bijection(1 .. n, U)
  BY FS_CardinalityType DEF ExistsBijection
<1>2. \E f \in [1 .. n -> U] : IsInjective(f)
  BY <1>1 DEF Bijection, Injection
<1>3. s \in [1 .. n -> U] /\ IsInjective(s)
  BY <1>2 DEF SetToSeq
<1>4. s \in Injection(1 .. n, U)
  BY <1>3 DEF Injection
<1>5. IsFiniteSet(1 .. n) /\ Cardinality(1 .. n) = n
  BY <1>1, FS_Interval
<1>6. s \in Surjection(1 .. n, U)
  BY <1>4, <1>5, FS_Injection
<1>. HIDE DEF s
<1>7. s \in Seq(U) /\ Len(s) = n
  BY <1>1, <1>3, SeqDef
<1>. QED  BY <1>3, <1>6, <1>7 DEF s, IsInjective, Surjection

LEMMA PresentedFinite ==
    ASSUME package \in Package
    PROVE  IsFiniteSet(Presented)
<1>. DEFINE arc == [l \in package.links |->
                       [role |-> l.role, from |-> ConceptAt(l.from), to |-> ConceptAt(l.to)]]
            arcs == {arc[l] : l \in DOMAIN arc}
<1>1. IsFiniteSet(DOMAIN arc)
  BY PackageAssumption
<1>. HIDE DEF arc
<1>2. IsFiniteSet(arcs)
  BY <1>1, FiniteImage
<1>3. Presented \subseteq arcs
  BY DEF Presented, arc
<1>. QED  BY <1>2, <1>3, FS_Subset

LEMMA PlacedFinite ==
    ASSUME package \in Package, NEW c, NEW x
    PROVE  IsFiniteSet(Placed(c, x))
<1>1. IsFiniteSet(RolesOf(c))
  <2>. DEFINE place == [a \in {b \in Presented : c \in Ends(b) /\ S!StatementOf(b.role) # None} |->
                           [statement |-> S!StatementOf(a.role), role |-> a.role]]
  <2>1. IsFiniteSet(DOMAIN place)
    BY PresentedFinite, FS_Subset
  <2>2. RolesOf(c) = {place[a] : a \in DOMAIN place}
    BY DEF RolesOf
  <2>. HIDE DEF place
  <2>. QED  BY <2>1, <2>2, FiniteImage
<1>2. IsFiniteSet({[statement |-> s, role |-> None] : s \in Unpresented(c, x)})
  <2>. DEFINE place == [s \in Unpresented(c, x) |-> [statement |-> s, role |-> None]]
  <2>1. IsFiniteSet({"bs", "pl", "cf"})
    <3>1. IsFiniteSet({"bs"})
      BY FS_Singleton
    <3>2. IsFiniteSet({"bs"} \cup {"pl"})
      BY <3>1, FS_AddElement
    <3>3. IsFiniteSet(({"bs"} \cup {"pl"}) \cup {"cf"})
      BY <3>2, FS_AddElement
    <3>4. {"bs", "pl", "cf"} = ({"bs"} \cup {"pl"}) \cup {"cf"}
      OBVIOUS
    <3>. QED  BY <3>3, <3>4
  <2>2. Unpresented(c, x) \subseteq {"bs", "pl", "cf"}
    BY DEF Unpresented
  <2>3. IsFiniteSet(DOMAIN place)
    BY <2>1, <2>2, FS_Subset
  <2>4. {[statement |-> s, role |-> None] : s \in Unpresented(c, x)} = {place[s] : s \in DOMAIN place}
    OBVIOUS
  <2>. HIDE DEF place
  <2>. QED  BY <2>3, <2>4, FiniteImage
<1>. QED  BY <1>1, <1>2 DEF Placed

LEMMA RowsFinite ==
    ASSUME package \in Package, NEW f
    PROVE  IsFiniteSet(Rows(f))
<1>. DEFINE row == [r \in Placed(f.concept, f.context) |->
              [statement |-> r.statement, role |-> r.role, context |-> f.context,
               concept |-> f.concept, unit |-> f.unit, value |-> S!Value(f), decimals |-> f.decimals]]
            all == {row[r] : r \in DOMAIN row}
<1>1. IsFiniteSet(DOMAIN row)
  BY PlacedFinite
<1>2. Rows(f) \subseteq all
  BY DEF Rows
<1>. HIDE DEF row
<1>3. IsFiniteSet(all)
  BY <1>1, FiniteImage
<1>. QED  BY <1>2, <1>3, FS_Subset

\* The rows that the chosen documents may give.
Fit(r) ==
    /\ r.value \in Value /\ r.decimals \in Decimal
    /\ [statement |-> r.statement, role |-> r.role] \in Placed(r.concept, r.context)

AllRows == {r \in UNION {Rows(f) : f \in {g \in Reports : Known(g)}} : Fit(r)}

\* Where the facts of a bucket stand as raw rows.
Places(k) ==
    {[statement |-> p.statement, role |-> p.role, context |-> k.context, concept |-> k.concept] :
        p \in Placed(k.concept, k.context)}

Below(r, e) == r.value # Nil => e.value # Nil /\ r.decimals < e.decimals
NotAbove(r, e) == r.value # Nil => e.value # Nil /\ r.decimals <= e.decimals
Agrees(r, e) == r.value = e.value /\ r.decimals = e.decimals

\* The rows of a key, the one in table and then those left to merge, are none
\* above e, and the first of them that is not below it agrees with it.
Ranks(table, rows, q, e) ==
    /\ q \in DOMAIN table => NotAbove(table[q], e)
    /\ \A i \in 1 .. Len(rows) : RowKey(rows[i]) = q => NotAbove(rows[i], e)
    /\ e.value # Nil =>
        \/ q \in DOMAIN table /\ Agrees(table[q], e)
        \/ /\ q \in DOMAIN table => Below(table[q], e)
           /\ \E i \in 1 .. Len(rows) :
                  /\ RowKey(rows[i]) = q /\ Agrees(rows[i], e)
                  /\ \A j \in 1 .. Len(rows) : j < i /\ RowKey(rows[j]) = q => Below(rows[j], e)

\* The rows that have a bucket if they are of the group.
Backed ==
    {r \in AllRows :
        Group(ContextAt(r.context)) => Bucket("financial", r.context, r.concept) \in DOMAIN bucket}

Matching ==
    /\ pushed \in Seq(Backed)
    /\ pc \in {"open", "read"} => raw = Empty
    /\ pc \notin {"open", "read", "dedupe", "failed"} => pushed = <<>>
    /\ \A q \in DOMAIN raw : raw[q] \in Backed /\ RowKey(raw[q]) = q
    /\ \A k \in DOMAIN bucket : k.kind = "financial" =>
           \A q \in Places(k) : Ranks(raw, pushed, q, bucket[k])

LEMMA RowsFit ==
    ASSUME package \in Package, NEW f \in Reports, Known(f)
    PROVE  Rows(f) \subseteq AllRows
<1>. SUFFICES ASSUME NEW r \in Rows(f) PROVE Fit(r)
  BY DEF AllRows
<1>1. f \in Elements(package)
  BY ReportsStated
<1>2. S!Value(f) \in Value /\ f.decimals \in Decimal
  BY <1>1, PackageAssumption DEF Value
<1>3. PICK p \in Placed(f.concept, f.context) :
          r = [statement |-> p.statement, role |-> p.role, context |-> f.context,
               concept |-> f.concept, unit |-> f.unit, value |-> S!Value(f), decimals |-> f.decimals]
  BY DEF Rows
<1>4. p = [statement |-> p.statement, role |-> p.role]
  BY DEF Placed, RolesOf
<1>. QED  BY <1>2, <1>3, <1>4 DEF Fit

\* A fact of the group's statements has one raw row in each of its places.
LEMMA OneRow ==
    ASSUME NEW f, "financial" \in Stored(f), NEW q \in Places(Key("financial", f))
    PROVE  \E r \in Rows(f) : /\ RowKey(r) = q /\ Agrees(r, Statement(f))
                              /\ \A o \in Rows(f) : RowKey(o) = q => o = r
<1>1. Context(f).period # None /\ Kind(f) \in {"JPY", "JPYPerShare"}
  <2>1. Kind(f) \in {"JPYPerShare", "JPY", "Shares", "Other"}
    BY DEF Kind, S!UnitKind
  <2>. QED  BY <2>1 DEF Stored, Kinds
<1>. DEFINE row(p) == [statement |-> p.statement, role |-> p.role, context |-> f.context,
                       concept |-> f.concept, unit |-> f.unit, value |-> S!Value(f), decimals |-> f.decimals]
<1>2. Rows(f) = {row(p) : p \in Placed(f.concept, f.context)}
  BY <1>1 DEF Rows
<1>3. PICK p \in Placed(f.concept, f.context) :
          q = [statement |-> p.statement, role |-> p.role, context |-> f.context, concept |-> f.concept]
  BY DEF Places, Key
<1>4. row(p) \in Rows(f) /\ RowKey(row(p)) = q /\ Agrees(row(p), Statement(f))
  BY <1>2, <1>3 DEF RowKey, Agrees, Statement
<1>5. ASSUME NEW o \in Rows(f), RowKey(o) = q PROVE o = row(p)
  <2>1. PICK z \in Placed(f.concept, f.context) : o = row(z)
    BY <1>2
  <2>2. z.statement = p.statement /\ z.role = p.role
    BY <1>3, <1>5, <2>1 DEF RowKey
  <2>. QED  BY <2>1, <2>2
<1>. QED  BY <1>4, <1>5

LEMMA AppendOther ==
    ASSUME NEW rows \in Seq(AllRows), NEW more \in Seq(AllRows), NEW table, NEW q, q \notin DOMAIN table,
           \A i \in 1 .. Len(more) : RowKey(more[i]) # q, NEW e, Ranks(table, rows, q, e)
    PROVE  Ranks(table, rows \o more, q, e)
<1>. DEFINE all == rows \o more
<1>1. /\ Len(all) = Len(rows) + Len(more) /\ Len(rows) \in Nat /\ Len(more) \in Nat
      /\ \A i \in 1 .. Len(all) : all[i] = IF i <= Len(rows) THEN rows[i] ELSE more[i - Len(rows)]
  BY ConcatProperties
<1>. HIDE DEF all
<1>2. \A i \in 1 .. Len(rows) : i \in 1 .. Len(all) /\ all[i] = rows[i]
  BY <1>1
<1>3. ASSUME NEW i \in 1 .. Len(all), RowKey(all[i]) = q
      PROVE  i \in 1 .. Len(rows) /\ all[i] = rows[i]
  <2>1. CASE i <= Len(rows)
    BY <1>1, <2>1
  <2>2. CASE ~(i <= Len(rows))
    <3>1. i - Len(rows) \in 1 .. Len(more)
      BY <1>1, <2>2
    <3>. QED  BY <1>1, <1>3, <2>2, <3>1
  <2>. QED  BY <2>1, <2>2
<1>4. \A i \in 1 .. Len(all) : RowKey(all[i]) = q => NotAbove(all[i], e)
  BY <1>3 DEF Ranks
<1>5. ASSUME e.value # Nil
      PROVE  \E i \in 1 .. Len(all) :
                 /\ RowKey(all[i]) = q /\ Agrees(all[i], e)
                 /\ \A j \in 1 .. Len(all) : j < i /\ RowKey(all[j]) = q => Below(all[j], e)
  <2>1. PICK i \in 1 .. Len(rows) :
            /\ RowKey(rows[i]) = q /\ Agrees(rows[i], e)
            /\ \A j \in 1 .. Len(rows) : j < i /\ RowKey(rows[j]) = q => Below(rows[j], e)
    BY <1>5 DEF Ranks
  <2>2. \A j \in 1 .. Len(all) : j < i /\ RowKey(all[j]) = q => Below(all[j], e)
    BY <1>3, <2>1
  <2>. QED  BY <1>2, <2>1, <2>2
<1>. QED  BY <1>4, <1>5 DEF Ranks, all

LEMMA AppendFirst ==
    ASSUME NEW rows \in Seq(AllRows), NEW more \in Seq(AllRows), NEW table, NEW q, q \notin DOMAIN table,
           \A i \in 1 .. Len(rows) : RowKey(rows[i]) # q,
           NEW n \in 1 .. Len(more), RowKey(more[n]) = q,
           \A i \in 1 .. Len(more) : RowKey(more[i]) = q => i = n,
           NEW new \in Stated, Agrees(more[n], new)
    PROVE  Ranks(table, rows \o more, q, new)
<1>. DEFINE all == rows \o more
<1>1. /\ Len(all) = Len(rows) + Len(more) /\ Len(rows) \in Nat /\ Len(more) \in Nat
      /\ \A i \in 1 .. Len(all) : all[i] = IF i <= Len(rows) THEN rows[i] ELSE more[i - Len(rows)]
  BY ConcatProperties
<1>. HIDE DEF all
<1>. DEFINE m == Len(rows) + n
<1>2. m \in 1 .. Len(all) /\ all[m] = more[n]
  BY <1>1
<1>3. ASSUME NEW i \in 1 .. Len(all), RowKey(all[i]) = q
      PROVE  i = m
  <2>1. ~(i <= Len(rows))
    BY <1>1, <1>3
  <2>2. i - Len(rows) \in 1 .. Len(more) /\ all[i] = more[i - Len(rows)]
    BY <1>1, <2>1
  <2>3. i - Len(rows) = n
    BY <1>3, <2>2
  <2>. QED  BY <1>1, <2>3
<1>4. NotAbove(all[m], new)
  <2>1. new.decimals \in Int
    BY ToleranceAssumption DEF Stated
  <2>. QED  BY <1>2, <2>1 DEF NotAbove, Agrees
<1>5. m \in Int
  BY <1>1
<1>. HIDE DEF m
<1>6. \A i \in 1 .. Len(all) : RowKey(all[i]) = q => NotAbove(all[i], new)
  BY <1>3, <1>4
<1>7. \A j \in 1 .. Len(all) : j < m /\ RowKey(all[j]) = q => Below(all[j], new)
  BY <1>3, <1>5
<1>. QED  BY <1>2, <1>6, <1>7 DEF Ranks, all

LEMMA AppendRow ==
    ASSUME NEW rows \in Seq(AllRows), NEW more \in Seq(AllRows), NEW table, NEW q, q \notin DOMAIN table,
           NEW n \in 1 .. Len(more), RowKey(more[n]) = q,
           \A i \in 1 .. Len(more) : RowKey(more[i]) = q => i = n,
           NEW new \in Stated, Agrees(more[n], new),
           NEW old \in Stated, Ranks(table, rows, q, old)
    PROVE  Ranks(table, rows \o more, q, Merge(new, old))
<1>. DEFINE all == rows \o more
            e == Merge(new, old)
<1>1. /\ Len(all) = Len(rows) + Len(more) /\ Len(rows) \in Nat /\ Len(more) \in Nat
      /\ \A i \in 1 .. Len(all) : all[i] = IF i <= Len(rows) THEN rows[i] ELSE more[i - Len(rows)]
  BY ConcatProperties
<1>. HIDE DEF all
<1>. DEFINE m == Len(rows) + n
<1>2. m \in 1 .. Len(all) /\ all[m] = more[n] /\ m \in Int /\ n \in Int
  BY <1>1
<1>3. ASSUME NEW i \in 1 .. Len(all), RowKey(all[i]) = q
      PROVE  i = m \/ (i \in 1 .. Len(rows) /\ all[i] = rows[i])
  <2>1. CASE i <= Len(rows)
    BY <1>1, <2>1
  <2>2. CASE ~(i <= Len(rows))
    <3>1. i - Len(rows) \in 1 .. Len(more) /\ all[i] = more[i - Len(rows)]
      BY <1>1, <2>2
    <3>2. i - Len(rows) = n
      BY <1>3, <3>1
    <3>. QED  BY <1>1, <3>2
  <2>. QED  BY <2>1, <2>2
<1>4. \A i \in 1 .. Len(rows) : i \in 1 .. Len(all) /\ all[i] = rows[i] /\ i < m
  BY <1>1, <1>2
<1>5. \A i \in 1 .. Len(rows) : rows[i].decimals \in Int
  <2>1. \A i \in 1 .. Len(rows) : rows[i] \in AllRows
    BY ElementOfSeq
  <2>2. \A r \in AllRows : r.decimals \in Decimal
    BY DEF AllRows, Fit
  <2>. QED  BY <2>1, <2>2, ToleranceAssumption
<1>6. new.decimals \in Int /\ old.decimals \in Int
  BY ToleranceAssumption DEF Stated
<1>7. \A i \in 1 .. Len(rows) : RowKey(rows[i]) = q => NotAbove(rows[i], old)
  BY DEF Ranks
<1>. HIDE DEF m
<1>8. CASE Improves(new, old)
  <2>1. e = new /\ new.value # Nil /\ (old.value = Nil \/ new.decimals > old.decimals)
    BY <1>8 DEF Merge, Improves, MorePrecise
  <2>2. ASSUME NEW i \in 1 .. Len(rows), RowKey(rows[i]) = q PROVE Below(rows[i], new)
    <3>1. NotAbove(rows[i], old) /\ rows[i].decimals \in Int
      BY <1>5, <1>7, <2>2
    <3>. QED  BY <1>6, <2>1, <3>1 DEF NotAbove, Below
  <2>3. \A i \in 1 .. Len(rows) : Below(rows[i], new) => NotAbove(rows[i], new)
    BY <1>5, <1>6 DEF Below, NotAbove
  <2>4. NotAbove(all[m], new) /\ Agrees(all[m], new)
    BY <1>2, <1>6, <2>1 DEF NotAbove, Agrees
  <2>5. \A i \in 1 .. Len(all) : RowKey(all[i]) = q => NotAbove(all[i], new)
    BY <1>3, <2>2, <2>3, <2>4
  <2>6. \A j \in 1 .. Len(all) : j < m /\ RowKey(all[j]) = q => Below(all[j], new)
    <3>1. ~(m < m)
      BY <1>2
    <3>. QED  BY <1>3, <2>2, <3>1
  <2>. QED  BY <1>2, <2>1, <2>4, <2>5, <2>6 DEF Ranks, all
<1>9. CASE ~Improves(new, old)
  <2>1. e.value = old.value /\ (old.value # Nil => e = old)
    BY <1>9 DEF Merge, Stated
  <2>2. new.value # Nil => old.value # Nil /\ new.decimals <= old.decimals
    BY <1>6, <1>9 DEF Improves, MorePrecise
  <2>. HIDE DEF e
  <2>3. NotAbove(all[m], e)
    BY <1>2, <2>1, <2>2 DEF NotAbove, Agrees
  <2>4. \A i \in 1 .. Len(rows) : RowKey(rows[i]) = q => NotAbove(rows[i], e)
    BY <1>7, <2>1 DEF NotAbove
  <2>5. \A i \in 1 .. Len(all) : RowKey(all[i]) = q => NotAbove(all[i], e)
    BY <1>3, <2>3, <2>4
  <2>6. ASSUME e.value # Nil
        PROVE  \E i \in 1 .. Len(all) :
                   /\ RowKey(all[i]) = q /\ Agrees(all[i], e)
                   /\ \A j \in 1 .. Len(all) : j < i /\ RowKey(all[j]) = q => Below(all[j], e)
    <3>1. e = old
      BY <2>1, <2>6
    <3>2. PICK i \in 1 .. Len(rows) :
              /\ RowKey(rows[i]) = q /\ Agrees(rows[i], e)
              /\ \A j \in 1 .. Len(rows) : j < i /\ RowKey(rows[j]) = q => Below(rows[j], e)
      BY <2>6, <3>1 DEF Ranks
    <3>3. i < m /\ i \in Int /\ ~(m < i)
      BY <1>2, <1>4
    <3>4. \A j \in 1 .. Len(all) : j < i /\ RowKey(all[j]) = q => Below(all[j], e)
      BY <1>3, <3>2, <3>3
    <3>. QED  BY <1>4, <3>2, <3>4
  <2>. QED  BY <2>5, <2>6 DEF Ranks, all, e
<1>. QED  BY <1>8, <1>9

\* Merging the first row leaves the same one to win.
LEMMA DedupeRanks ==
    ASSUME NEW rows \in Seq(AllRows), rows # <<>>, NEW table, NEW q, NEW e \in Stated,
           q \in DOMAIN table => table[q] \in AllRows,
           Ranks(table, rows, q, e), NEW after,
           after = IF RowKey(Head(rows)) \in DOMAIN table
                         /\ ~Improves(Head(rows), table[RowKey(Head(rows))])
                   THEN table ELSE Put(table, RowKey(Head(rows)), Head(rows))
    PROVE  Ranks(after, Tail(rows), q, e)
<1>. DEFINE r == Head(rows)
            rest == Tail(rows)
<1>1. /\ r \in AllRows /\ rest \in Seq(AllRows) /\ Len(rest) = Len(rows) - 1
      /\ \A i \in 1 .. Len(rest) : rest[i] = rows[i + 1]
  BY HeadTailProperties
<1>2. r = rows[1] /\ Len(rows) \in Nat /\ Len(rows) >= 1
  BY EmptySeq
<1>. HIDE DEF r, rest
<1>3. \A i \in 1 .. Len(rest) : i + 1 \in 1 .. Len(rows) /\ rest[i] = rows[i + 1]
  BY <1>1, <1>2
<1>4. \A i \in 1 .. Len(rows) : i = 1 \/ (i - 1 \in 1 .. Len(rest) /\ rest[i - 1] = rows[i])
  <2>. SUFFICES ASSUME NEW i \in 1 .. Len(rows), i # 1
                PROVE  i - 1 \in 1 .. Len(rest) /\ rest[i - 1] = rows[i]
    OBVIOUS
  <2>1. i - 1 \in 1 .. Len(rest) /\ (i - 1) + 1 = i
    BY <1>1, <1>2
  <2>. QED  BY <1>3, <2>1
<1>5. \A i \in 1 .. Len(rest) : RowKey(rest[i]) = q => NotAbove(rest[i], e)
  BY <1>3 DEF Ranks
<1>6. RowKey(r) = q => NotAbove(r, e)
  BY <1>2 DEF Ranks
<1>7. \A o \in AllRows : o.decimals \in Int
  BY ToleranceAssumption DEF AllRows, Fit
<1>8. e.decimals \in Int
  BY ToleranceAssumption DEF Stated
\* The row of a later index is still in place when the first is gone.
<1>9. ASSUME NEW i \in 1 .. Len(rows), i # 1, RowKey(rows[i]) = q, Agrees(rows[i], e),
             \A j \in 1 .. Len(rows) : j < i /\ RowKey(rows[j]) = q => Below(rows[j], e)
      PROVE  \E n \in 1 .. Len(rest) :
                 /\ RowKey(rest[n]) = q /\ Agrees(rest[n], e)
                 /\ \A j \in 1 .. Len(rest) : j < n /\ RowKey(rest[j]) = q => Below(rest[j], e)
  <2>1. i - 1 \in 1 .. Len(rest) /\ rest[i - 1] = rows[i]
    BY <1>4, <1>9
  <2>2. ASSUME NEW j \in 1 .. Len(rest), j < i - 1, RowKey(rest[j]) = q PROVE Below(rest[j], e)
    <3>1. j + 1 \in 1 .. Len(rows) /\ j + 1 < i /\ rest[j] = rows[j + 1]
      BY <1>3, <2>2
    <3>. QED  BY <1>9, <2>2, <3>1
  <2>. QED  BY <1>9, <2>1, <2>2
<1>10. CASE RowKey(r) # q
  <2>1. (q \in DOMAIN after <=> q \in DOMAIN table) /\ (q \in DOMAIN table => after[q] = table[q])
    BY <1>10 DEF Put, r
  <2>2. ASSUME e.value # Nil, ~(q \in DOMAIN table /\ Agrees(table[q], e))
        PROVE  /\ q \in DOMAIN table => Below(table[q], e)
               /\ \E n \in 1 .. Len(rest) :
                      /\ RowKey(rest[n]) = q /\ Agrees(rest[n], e)
                      /\ \A j \in 1 .. Len(rest) : j < n /\ RowKey(rest[j]) = q => Below(rest[j], e)
    <3>1. PICK i \in 1 .. Len(rows) :
              /\ RowKey(rows[i]) = q /\ Agrees(rows[i], e)
              /\ \A j \in 1 .. Len(rows) : j < i /\ RowKey(rows[j]) = q => Below(rows[j], e)
      BY <2>2 DEF Ranks
    <3>2. i # 1
      BY <1>2, <1>10, <3>1
    <3>3. q \in DOMAIN table => Below(table[q], e)
      BY <2>2 DEF Ranks
    <3>. QED  BY <1>9, <3>1, <3>2, <3>3
  <2>3. q \in DOMAIN table => NotAbove(table[q], e)
    BY DEF Ranks
  <2>. QED  BY <1>5, <2>1, <2>2, <2>3 DEF Ranks, rest
<1>11. CASE RowKey(r) = q
  <2>1. q \in DOMAIN after
    BY <1>11 DEF Put, r
  <2>2. \/ q \in DOMAIN table /\ after[q] = table[q] /\ ~Improves(r, table[q])
        \/ after[q] = r /\ (q \notin DOMAIN table \/ Improves(r, table[q]))
    BY <1>11 DEF Put, r
  <2>3. q \in DOMAIN table => NotAbove(table[q], e) /\ table[q].decimals \in Int
    BY <1>7 DEF Ranks
  <2>4. NotAbove(r, e) /\ r.decimals \in Int
    BY <1>1, <1>6, <1>7, <1>11
  <2>5. NotAbove(after[q], e)
    BY <2>2, <2>3, <2>4
  <2>6. CASE e.value = Nil
    BY <1>5, <2>5, <2>6 DEF Ranks, rest
  <2>7. CASE e.value # Nil /\ q \in DOMAIN table /\ Agrees(table[q], e)
    <3>1. ~Improves(r, table[q])
      BY <1>8, <2>4, <2>7 DEF Improves, MorePrecise, Agrees, NotAbove
    <3>2. Agrees(after[q], e)
      BY <2>2, <2>7, <3>1
    <3>. QED  BY <1>5, <2>1, <2>5, <3>2 DEF Ranks, rest
  <2>8. CASE e.value # Nil /\ ~(q \in DOMAIN table /\ Agrees(table[q], e))
    <3>1. q \in DOMAIN table => Below(table[q], e)
      BY <2>8 DEF Ranks
    <3>2. PICK i \in 1 .. Len(rows) :
              /\ RowKey(rows[i]) = q /\ Agrees(rows[i], e)
              /\ \A j \in 1 .. Len(rows) : j < i /\ RowKey(rows[j]) = q => Below(rows[j], e)
      BY <2>8 DEF Ranks
    <3>3. CASE i = 1
      <4>1. Agrees(r, e)
        BY <1>2, <3>2, <3>3
      <4>2. q \in DOMAIN table => Improves(r, table[q])
        BY <1>8, <2>3, <2>8, <3>1, <4>1 DEF Improves, MorePrecise, Agrees, Below
      <4>3. after[q] = r
        BY <2>2, <4>2
      <4>. QED  BY <1>5, <2>1, <2>5, <4>1, <4>3 DEF Ranks, rest
    <3>4. CASE i # 1
      <4>1. Below(r, e)
        <5>1. 1 \in 1 .. Len(rows) /\ 1 < i
          BY <1>2, <3>4
        <5>. QED  BY <1>2, <1>11, <3>2, <5>1
      <4>2. Below(after[q], e)
        BY <2>2, <3>1, <4>1
      <4>3. \E n \in 1 .. Len(rest) :
                /\ RowKey(rest[n]) = q /\ Agrees(rest[n], e)
                /\ \A j \in 1 .. Len(rest) : j < n /\ RowKey(rest[j]) = q => Below(rest[j], e)
        BY <1>9, <3>2, <3>4
      <4>. QED  BY <1>5, <2>1, <2>5, <4>2, <4>3 DEF Ranks, rest
    <3>. QED  BY <3>3, <3>4
  <2>. QED  BY <2>6, <2>7, <2>8
<1>. QED  BY <1>10, <1>11

LEMMA RowsBelong ==
    ASSUME NEW f, NEW r \in Rows(f)
    PROVE  /\ r.context = f.context /\ r.concept = f.concept
           /\ Group(Context(f)) => "financial" \in Stored(f)
<1>1. Context(f).period # None /\ Kind(f) \in {"JPY", "JPYPerShare"}
  BY DEF Rows
<1>2. Group(Context(f)) => "financial" \in Stored(f)
  BY <1>1 DEF Stored, Kinds
<1>. QED  BY <1>1, <1>2 DEF Rows

LEMMA RowsFixed ==
    ASSUME package' = package
    PROVE  /\ AllRows' = AllRows
           /\ \A k : Places(k)' = Places(k)
           /\ \A x : (Group(ContextAt(x)) <=> Group(ContextAt(x))')
<1>1. Reports' = Reports /\ \A f : (Known(f) <=> Known(f)')
  BY PackageFixed
<1>2. \A x : ContextAt(x)' = ContextAt(x)
  BY DEF ContextAt
<1>3. \A c, x : Placed(c, x)' = Placed(c, x)
  <2>1. Presented' = Presented
    BY DEF Presented, ConceptAt
  <2>2. \A c : RolesOf(c)' = RolesOf(c)
    BY <2>1 DEF RolesOf
  <2>3. \A c, x : Unpresented(c, x)' = Unpresented(c, x)
    BY <1>2 DEF Unpresented
  <2>. QED  BY <2>2, <2>3 DEF Placed
<1>4. \A f : Rows(f)' = Rows(f)
  BY <1>2, <1>3 DEF Rows, Context
<1>5. \A r : (Fit(r) <=> Fit(r)')
  BY <1>3 DEF Fit
<1>6. AllRows' = AllRows
  <2>1. (UNION {Rows(f) : f \in {g \in Reports : Known(g)}})'
            = UNION {Rows(f) : f \in {g \in Reports : Known(g)}}
    BY <1>1, <1>4
  <2>. QED  BY <1>5, <2>1 DEF AllRows
<1>7. \A k : Places(k)' = Places(k)
  BY <1>3 DEF Places
<1>. QED  BY <1>2, <1>6, <1>7 DEF Group

LEMMA MatchingRead ==
    ASSUME Sourced, Drifts, Matching, Read
    PROVE  Matching'
<1>. DEFINE f == Head(facts)
            keys == {Key(k, f) : k \in Stored(f)}
            more == SetToSeq(Rows(f))
<1>1. /\ f \in Reports /\ Known(f) /\ package \in Package
      /\ pc = "read" /\ pc' = "read" /\ package' = package /\ raw' = raw
      /\ pushed' = pushed \o more
  BY HeadTailProperties DEF Read, Sourced
<1>2. bucket' = [k \in DOMAIN bucket \cup keys |->
          IF k \notin keys THEN bucket[k]
          ELSE IF k \in DOMAIN bucket THEN Merge(Statement(f), bucket[k]) ELSE Statement(f)]
  BY DEF Read
<1>3. \A k \in keys : k.kind \in Stored(f) /\ k = Key(k.kind, f)
  BY DEF Key
<1>4. "financial" \in Stored(f) => Key("financial", f) \in keys
  OBVIOUS
<1>. HIDE DEF f, keys
<1>5. /\ AllRows' = AllRows
      /\ \A k : Places(k)' = Places(k)
      /\ \A x : (Group(ContextAt(x)) <=> Group(ContextAt(x))')
  BY <1>1, RowsFixed
<1>6. Rows(f) \subseteq AllRows
  BY <1>1, RowsFit
<1>7. /\ more \in Seq(Rows(f))
      /\ \A i, j \in 1 .. Len(more) : more[i] = more[j] => i = j
      /\ \A x \in Rows(f) : \E i \in 1 .. Len(more) : more[i] = x
  BY <1>1, RowsFinite, Listed
<1>. HIDE DEF more
<1>8. more \in Seq(AllRows) /\ pushed \in Seq(AllRows)
  <2>1. Backed \subseteq AllRows
    BY DEF Backed
  <2>. QED  BY <1>6, <1>7, <2>1, SeqMonotonic DEF Matching
<1>9. \A i \in 1 .. Len(more) : more[i] \in Rows(f)
  BY <1>7, ElementOfSeq
<1>10. Statement(f) \in Stated
  BY <1>1, ReportsStated, PackageAssumption DEF Statement, Stated, Value
<1>11. raw = Empty /\ \A q : q \notin DOMAIN raw
  BY <1>1 DEF Matching, Empty
<1>12. pushed' \in Seq(Backed')
  <2>1. Backed \subseteq Backed'
    BY <1>2, <1>5 DEF Backed, Bucket
  <2>2. ASSUME NEW r \in Rows(f) PROVE r \in Backed'
    <3>1. /\ r.context = f.context /\ r.concept = f.concept
          /\ Group(Context(f)) => "financial" \in Stored(f)
      BY RowsBelong
    <3>2. Group(ContextAt(f.context)) => Bucket("financial", f.context, f.concept) \in DOMAIN bucket'
      BY <1>2, <1>4, <3>1 DEF Context, Key, Bucket
    <3>. QED  BY <1>5, <1>6, <3>1, <3>2 DEF Backed, Bucket
  <2>3. more \in Seq(Backed') /\ pushed \in Seq(Backed')
    <3>1. pushed \in Seq(Backed)
      BY DEF Matching
    <3>2. Rows(f) \subseteq Backed'
      BY <2>2
    <3>. QED  BY <1>7, <2>1, <3>1, <3>2, SeqMonotonic
  <2>. QED  BY <1>1, <2>3, ConcatProperties
<1>13. ASSUME NEW k \in DOMAIN bucket', k.kind = "financial", NEW q \in Places(k)
       PROVE  Ranks(raw', pushed', q, bucket'[k])
  <2>1. q.context = k.context /\ q.concept = k.concept
    BY DEF Places
  <2>2. \A r : RowKey(r) = q => r.context = k.context /\ r.concept = k.concept
    BY <2>1 DEF RowKey
  <2>3. q \notin DOMAIN raw'
    BY <1>1, <1>11
  <2>4. CASE k \notin keys
    <3>1. k \in DOMAIN bucket /\ bucket'[k] = bucket[k]
      BY <1>2, <2>4
    <3>2. PICK g \in Reports : "financial" \in Stored(g) /\ k = Key("financial", g)
      BY <1>13, <3>1 DEF Sourced
    <3>3. Group(ContextAt(k.context)) /\ k = Key("financial", k)
      BY <3>2 DEF Stored, Kinds, Context, Key
    <3>4. ASSUME NEW i \in 1 .. Len(more), RowKey(more[i]) = q PROVE FALSE
      <4>1. more[i].context = f.context /\ more[i].concept = f.concept
            /\ (Group(Context(f)) => "financial" \in Stored(f))
        BY <1>9, RowsBelong
      <4>2. f.context = k.context /\ f.concept = k.concept
        BY <2>2, <3>4, <4>1
      <4>3. Key("financial", f) = k
        BY <3>3, <4>2 DEF Key
      <4>. QED  BY <1>4, <2>4, <3>3, <4>1, <4>2, <4>3 DEF Context
    <3>5. Ranks(raw', pushed, q, bucket[k])
      BY <1>1, <1>13, <3>1 DEF Matching
    <3>. QED  BY <1>1, <1>8, <2>3, <3>1, <3>4, <3>5, AppendOther
  <2>5. CASE k \in keys
    <3>1. "financial" \in Stored(f) /\ k = Key("financial", f)
      BY <1>3, <1>13, <2>5
    <3>2. q \in Places(Key("financial", f))
      BY <3>1
    <3>3. PICK r \in Rows(f) : /\ RowKey(r) = q /\ Agrees(r, Statement(f))
                               /\ \A o \in Rows(f) : RowKey(o) = q => o = r
      BY <3>1, <3>2, OneRow
    <3>4. PICK n \in 1 .. Len(more) : more[n] = r
      BY <1>7
    <3>5. \A i \in 1 .. Len(more) : RowKey(more[i]) = q => i = n
      BY <1>7, <1>9, <3>3, <3>4
    <3>6. CASE k \in DOMAIN bucket
      <4>1. bucket[k] \in Stated
        BY <3>6 DEF Drifts, Drift
      <4>2. Ranks(raw', pushed, q, bucket[k])
        BY <1>1, <1>13, <3>6 DEF Matching
      <4>3. bucket'[k] = Merge(Statement(f), bucket[k])
        BY <1>2, <2>5, <3>6
      <4>. QED  BY <1>1, <1>8, <1>10, <2>3, <3>3, <3>4, <3>5, <4>1, <4>2, <4>3, AppendRow
    <3>7. CASE k \notin DOMAIN bucket
      <4>1. bucket'[k] = Statement(f)
        BY <1>2, <2>5, <3>7
      <4>2. Group(ContextAt(k.context))
        BY <3>1 DEF Stored, Kinds, Context, Key
      <4>3. ASSUME NEW i \in 1 .. Len(pushed), RowKey(pushed[i]) = q PROVE FALSE
        <5>1. pushed[i] \in Backed
          BY ElementOfSeq DEF Matching
        <5>2. Bucket("financial", k.context, k.concept) \in DOMAIN bucket
          BY <2>2, <4>2, <4>3, <5>1 DEF Backed
        <5>. QED  BY <3>1, <3>7, <5>2 DEF Bucket, Key
      <4>. QED  BY <1>1, <1>8, <1>10, <2>3, <3>3, <3>4, <3>5, <4>1, <4>3, AppendFirst
    <3>. QED  BY <3>6, <3>7
  <2>. QED  BY <2>4, <2>5
<1>14. \A k \in DOMAIN bucket' : k.kind = "financial" =>
           \A q \in Places(k)' : Ranks(raw', pushed', q, bucket'[k])
  BY <1>5, <1>13
<1>. QED  BY <1>1, <1>11, <1>12, <1>14 DEF Matching

LEMMA MatchingDedupe ==
    ASSUME Sourced, Drifts, Matching, Dedupe
    PROVE  Matching'
<1>. DEFINE r == Head(pushed)
<1>1. /\ pc = "dedupe" /\ pc' = "dedupe" /\ pushed # <<>> /\ pushed' = Tail(pushed)
      /\ package' = package /\ bucket' = bucket
      /\ raw' = IF RowKey(r) \in DOMAIN raw /\ ~Improves(r, raw[RowKey(r)])
                THEN raw ELSE Put(raw, RowKey(r), r)
  BY DEF Dedupe
<1>2. /\ AllRows' = AllRows
      /\ \A k : Places(k)' = Places(k)
      /\ \A x : (Group(ContextAt(x)) <=> Group(ContextAt(x))')
  BY <1>1, RowsFixed
<1>3. Backed' = Backed
  BY <1>1, <1>2 DEF Backed, Bucket
<1>4. pushed \in Seq(Backed) /\ r \in Backed /\ pushed' \in Seq(Backed)
  BY <1>1, HeadTailProperties DEF Matching
<1>5. pushed \in Seq(AllRows)
  BY <1>4, SeqMonotonic DEF Backed
<1>. HIDE DEF r
<1>6. ASSUME NEW q \in DOMAIN raw' PROVE raw'[q] \in Backed /\ RowKey(raw'[q]) = q
  <2>1. \/ q \in DOMAIN raw /\ raw'[q] = raw[q]
        \/ q = RowKey(r) /\ raw'[q] = r
    BY <1>1 DEF Put
  <2>. QED  BY <1>4, <2>1 DEF Matching
<1>7. ASSUME NEW k \in DOMAIN bucket', k.kind = "financial", NEW q \in Places(k)
      PROVE  Ranks(raw', pushed', q, bucket'[k])
  <2>1. bucket'[k] = bucket[k] /\ bucket[k] \in Stated
    BY <1>1 DEF Drifts, Drift
  <2>2. Ranks(raw, pushed, q, bucket[k]) /\ (q \in DOMAIN raw => raw[q] \in AllRows)
    BY <1>1, <1>7 DEF Matching, Backed
  <2>. QED  BY <1>1, <1>5, <2>1, <2>2, DedupeRanks DEF r
<1>. QED  BY <1>1, <1>2, <1>3, <1>4, <1>6, <1>7 DEF Matching

LEMMA MatchingNext == Sourced /\ Drifts /\ Matching /\ [Next]_vars => Matching'
<1>. SUFFICES ASSUME Sourced, Drifts, Matching, [Next]_vars PROVE Matching'
  OBVIOUS
<1>. USE DEF reading, building
<1>1. CASE /\ UNCHANGED <<package, bucket, pushed, raw>>
           /\ \/ pc' = pc
              \/ pc' = "read" /\ pc = "open"
              \/ pc' \in {"dedupe", "failed"}
              \/ pushed = <<>> /\ pc' \notin {"open", "read"}
  <2>1. /\ AllRows' = AllRows
        /\ \A k : Places(k)' = Places(k)
        /\ \A x : (Group(ContextAt(x)) <=> Group(ContextAt(x))')
    BY <1>1, RowsFixed
  <2>2. Backed' = Backed
    BY <1>1, <2>1 DEF Backed, Bucket
  <2>. QED  BY <1>1, <2>1, <2>2 DEF Matching
<1>2. CASE OpenEmpty \/ OpenFails \/ Open \/ (\E f \in unread : NextDocument(f)) \/ Skip \/ Disagree \/ ReadEnds
  BY <1>1, <1>2 DEF OpenEmpty, OpenFails, Open, NextDocument, Skip, Disagree, ReadEnds, Stop
<1>3. CASE Read
  BY <1>3, MatchingRead
<1>4. CASE Dedupe
  BY <1>4, MatchingDedupe
<1>5. CASE DedupeFails \/ DedupeEnds \/ TotalFails
           \/ (\E c \in left : InsertFails(c)) \/ (\E c \in left : SharesFail(c))
  BY <1>1, <1>5 DEF DedupeFails, DedupeEnds, TotalFails, InsertFails, SharesFail, Stop
<1>6. CASE Total \/ NextContext \/ InsertTotal \/ Flag \/ Finish
  <2>1. pushed = <<>>
    BY <1>6 DEF Matching, Total, NextContext, InsertTotal, Flag, Finish
  <2>2. pc' \in {"next", "insert", "shares", "done"} /\ UNCHANGED <<package, bucket, pushed, raw>>
    BY <1>6 DEF Total, NextContext, InsertTotal, Flag, Finish
  <2>. QED  BY <1>1, <2>1, <2>2
<1>7. CASE \E c \in left : InsertConcept(c) \/ InsertShares(c)
  BY <1>1, <1>7 DEF InsertConcept, InsertShares
<1>8. CASE Ended \/ UNCHANGED vars
  BY <1>1, <1>8 DEF Ended, vars
<1>. QED  BY <1>2, <1>3, <1>4, <1>5, <1>6, <1>7, <1>8 DEF Next

LEMMA AlwaysMatching == Spec => []Matching
<1>1. Init => Matching
  BY EmptySeq DEF Init, Matching, Empty
<1>. QED  BY <1>1, MatchingNext, AlwaysDrifts, AlwaysSourced, PTL DEF Spec

\* The raw rows and the buckets, merged apart, hold the same values.
THEOREM RowsMatchBuckets == Spec => []RawMatchesBuckets
<1>1. Sourced /\ Drifts /\ Matching => RawMatchesBuckets
  <2>. SUFFICES ASSUME Sourced, Drifts, Matching, pc \notin {"open", "read", "dedupe", "failed"},
                       NEW q \in DOMAIN raw, Group(ContextAt(q.context))
                PROVE  raw[q].value = bucket[Bucket("financial", q.context, q.concept)].value
    BY DEF RawMatchesBuckets, Bucket
  <2>. DEFINE k == Bucket("financial", q.context, q.concept)
  <2>1. pushed = <<>> /\ Len(pushed) = 0
    BY EmptySeq DEF Matching
  <2>2. raw[q] \in Backed /\ RowKey(raw[q]) = q
    BY DEF Matching
  <2>3. raw[q].context = q.context /\ raw[q].concept = q.concept
        /\ raw[q].statement = q.statement /\ raw[q].role = q.role
        /\ q = [statement |-> q.statement, role |-> q.role, context |-> q.context, concept |-> q.concept]
    BY <2>2 DEF RowKey
  <2>4. k \in DOMAIN bucket
    BY <2>2, <2>3 DEF Backed
  <2>5. q \in Places(k)
    <3>1. [statement |-> q.statement, role |-> q.role] \in Placed(q.concept, q.context)
      BY <2>2, <2>3 DEF Backed, AllRows, Fit
    <3>2. k.context = q.context /\ k.concept = q.concept
      BY DEF Bucket
    <3>. QED  BY <2>3, <3>1, <3>2 DEF Places
  <2>6. k.kind = "financial"
    BY DEF Bucket
  <2>. HIDE DEF k
  <2>7. Ranks(raw, pushed, q, bucket[k])
    BY <2>4, <2>5, <2>6 DEF Matching
  <2>8. NotAbove(raw[q], bucket[k])
    BY <2>7 DEF Ranks
  <2>9. bucket[k].value # Nil => raw[q].value = bucket[k].value
    BY <2>1, <2>7 DEF Ranks, Agrees
  <2>. QED  BY <2>8, <2>9 DEF NotAbove, k
<1>. QED  BY <1>1, AlwaysMatching, AlwaysDrifts, AlwaysSourced, PTL
-----------------------------------------------------------------------------
(***************************************************************************)
(* The concept an item is filled from.                                     *)
(***************************************************************************)
\* Only a finite number of facts is ever read.
Finite == IsFiniteSet(DOMAIN bucket) /\ IsFiniteSet(DOMAIN raw)

LEMMA FiniteNext == Finite /\ [Next]_vars => Finite'
<1>. SUFFICES ASSUME Finite, [Next]_vars PROVE Finite'
  OBVIOUS
<1>. USE DEF reading, building
<1>1. CASE Read
  <2>. DEFINE f == Head(facts)
              key == [k \in Stored(f) |-> Key(k, f)]
              keys == {key[k] : k \in DOMAIN key}
              kinds == {"financial", "shares", "inventory", "parent_financial", "parent_dividend",
                        "parent_inventory"}
  <2>1. DOMAIN bucket' = DOMAIN bucket \cup keys /\ raw' = raw
    BY <1>1 DEF Read
  <2>2. IsFiniteSet(kinds)
    <3>1. IsFiniteSet({"financial"})
      BY FS_Singleton
    <3>2. IsFiniteSet({"financial"} \cup {"shares"})
      BY <3>1, FS_AddElement
    <3>3. IsFiniteSet(({"financial"} \cup {"shares"}) \cup {"inventory"})
      BY <3>2, FS_AddElement
    <3>4. IsFiniteSet({"parent_financial"})
      BY FS_Singleton
    <3>5. IsFiniteSet({"parent_financial"} \cup {"parent_dividend"})
      BY <3>4, FS_AddElement
    <3>6. IsFiniteSet(({"parent_financial"} \cup {"parent_dividend"}) \cup {"parent_inventory"})
      BY <3>5, FS_AddElement
    <3>. DEFINE group == ({"financial"} \cup {"shares"}) \cup {"inventory"}
                parent == ({"parent_financial"} \cup {"parent_dividend"}) \cup {"parent_inventory"}
    <3>7. kinds = group \cup parent
      OBVIOUS
    <3>. HIDE DEF kinds, group, parent
    <3>8. IsFiniteSet(group) /\ IsFiniteSet(parent)
      BY <3>3, <3>6 DEF group, parent
    <3>. QED  BY <3>7, <3>8, FS_Union
  <2>3. Stored(f) \subseteq kinds
    BY DEF Stored, Kinds
  <2>4. IsFiniteSet(DOMAIN key)
    BY <2>2, <2>3, FS_Subset
  <2>. HIDE DEF key
  <2>5. IsFiniteSet(keys)
    BY <2>4, FiniteImage
  <2>. HIDE DEF keys
  <2>. QED  BY <2>1, <2>5, FS_Union DEF Finite
<1>2. CASE Dedupe
  <2>1. bucket' = bucket
    BY <1>2 DEF Dedupe
  <2>2. DOMAIN raw' = DOMAIN raw \/ DOMAIN raw' = DOMAIN raw \cup {RowKey(Head(pushed))}
    BY <1>2 DEF Dedupe, Put
  <2>. QED  BY <2>1, <2>2, FS_AddElement DEF Finite
<1>3. CASE UNCHANGED <<bucket, raw>>
  BY <1>3 DEF Finite
<1>4. CASE OpenEmpty \/ OpenFails \/ Open \/ (\E f \in unread : NextDocument(f)) \/ Skip \/ Disagree \/ ReadEnds
  BY <1>3, <1>4 DEF OpenEmpty, OpenFails, Open, NextDocument, Skip, Disagree, ReadEnds, Stop
<1>5. CASE DedupeFails \/ DedupeEnds \/ Total \/ TotalFails \/ NextContext \/ InsertTotal \/ Flag \/ Finish
  BY <1>3, <1>5 DEF DedupeFails, DedupeEnds, Total, TotalFails, NextContext, InsertTotal, Flag, Finish, Stop
<1>6. CASE \E c \in left : InsertConcept(c) \/ InsertFails(c) \/ InsertShares(c) \/ SharesFail(c)
  BY <1>3, <1>6 DEF InsertConcept, InsertFails, InsertShares, SharesFail, Stop
<1>7. CASE Ended \/ UNCHANGED vars
  BY <1>3, <1>7 DEF Ended, vars
<1>. QED  BY <1>1, <1>2, <1>4, <1>5, <1>6, <1>7 DEF Next

LEMMA AlwaysFinite == Spec => []Finite
<1>1. Init => Finite
  BY FS_EmptySet DEF Init, Finite, Empty
<1>. QED  BY <1>1, FiniteNext, PTL DEF Spec

\* A context with a fact in a bucket is one of the package's, and what the
\* taxonomy says of its concepts has a priority.
LEMMA BucketFacts ==
    ASSUME Sourced, NEW kind, NEW x, NEW c \in Concepts(kind, x)
    PROVE  /\ x \in DOMAIN package.contexts
           /\ Semantic(c) => Priority(c) \in Int
<1>1. Bucket(kind, x, c) \in DOMAIN bucket
  BY ConceptsStand
<1>2. PICK f \in Reports : Known(f) /\ Bucket(kind, x, c) = Key(Bucket(kind, x, c).kind, f)
  BY <1>1 DEF Sourced
<1>3. f.context = x /\ f.concept = c
  BY <1>2 DEF Bucket, Key
<1>4. f \in Elements(package) /\ package \in Package
  BY <1>2, ReportsStated DEF Sourced
<1>5. Semantic(c) => T!Canonical(c) # None
  BY DEF Semantic, T!Status
<1>6. Semantic(c) => Priority(c) \in Nat
  BY <1>3, <1>4, <1>5, PackageAssumption DEF Priority
<1>. QED  BY <1>2, <1>3, <1>6 DEF Known

LEMMA FinancialContexts ==
    ASSUME Sourced, Finite
    PROVE  /\ Contexts("financial") \subseteq Int /\ None \notin Contexts("financial")
           /\ IsFiniteSet(Contexts("financial"))
<1>1. DOMAIN package.contexts \subseteq Int /\ None \notin DOMAIN package.contexts
  BY PackageAssumption DEF Sourced
<1>2. \A x \in Contexts("financial") : \E c : c \in Concepts("financial", x)
  BY DEF Contexts, Concepts
<1>3. Contexts("financial") \subseteq DOMAIN package.contexts
  BY <1>2, BucketFacts
<1>. DEFINE of == [k \in {j \in DOMAIN bucket : j.kind = "financial"} |-> k.context]
<1>4. IsFiniteSet(DOMAIN of)
  BY FS_Subset DEF Finite
<1>5. Contexts("financial") = {of[k] : k \in DOMAIN of}
  BY DEF Contexts
<1>. HIDE DEF of
<1>. QED  BY <1>1, <1>3, <1>4, <1>5, FiniteImage

LEMMA DecimalsKnown ==
    ASSUME Matching, Finite, NEW x, NEW c
    PROVE  DecimalsOf(x, c) \in Int
<1>. DEFINE of == [q \in {j \in DOMAIN raw : j.concept = c /\ j.context = x} |-> raw[q].decimals]
            rows == {of[q] : q \in DOMAIN of}
<1>1. DecimalsOf(x, c) = IF rows = {} THEN Blank ELSE CHOOSE d \in rows : \A e \in rows : e <= d
  <2>. DEFINE given == {raw[r].decimals : r \in {q \in DOMAIN raw : q.concept = c /\ q.context = x}}
  <2>1. rows = given
    OBVIOUS
  <2>2. DecimalsOf(x, c) = IF given = {} THEN Blank ELSE CHOOSE d \in given : \A e \in given : e <= d
    BY DEF DecimalsOf
  <2>. HIDE DEF rows, given
  <2>. QED  BY <2>1, <2>2
<1>2. IsFiniteSet(DOMAIN of)
  BY FS_Subset DEF Finite
<1>3. \A q \in DOMAIN of : of[q] \in Int
  BY ToleranceAssumption DEF Matching, Backed, AllRows, Fit
<1>4. Blank \in Int
  BY ToleranceAssumption
<1>. HIDE DEF of
<1>5. IsFiniteSet(rows) /\ rows \in SUBSET Int
  BY <1>2, <1>3, FiniteImage
<1>. HIDE DEF rows
<1>6. rows # {} => \E d \in rows : \A e \in rows : e <= d
  BY <1>5, GreatestExists
<1>. QED  BY <1>1, <1>4, <1>5, <1>6
-----------------------------------------------------------------------------
(***************************************************************************)
(* Inserting never lowers what an item has.                                *)
(***************************************************************************)
Met(table, o) ==
    /\ o.at \in DOMAIN table
    /\ o.priority <= table[o.at].priority
    /\ o.priority = table[o.at].priority /\ o.value # Nil =>
           table[o.at].value # Nil /\ o.decimals <= table[o.at].decimals

Graded(e) == e.priority \in Int /\ e.decimals \in Int

LEMMA InsertKeeps ==
    ASSUME \A k \in DOMAIN items : Graded(items[k]), NEW k, NEW e, Graded(e),
           NEW o, Graded(o), Met(items, o)
    PROVE  Met(Insert(k, e), o)
<1>1. CASE Insert(k, e)[o.at] = items[o.at] /\ o.at \in DOMAIN Insert(k, e)
  BY <1>1 DEF Met
<1>2. CASE o.at = k /\ Insert(k, e) = Put(items, k, e)
           /\ (e.priority > items[k].priority \/ (e.priority = items[k].priority /\ Improves(e, items[k])))
  <2>1. o.at \in DOMAIN Insert(k, e) /\ Insert(k, e)[o.at] = e
    BY <1>2 DEF Put
  <2>2. Graded(items[k])
    BY <1>2 DEF Met
  <2>3. o.priority <= e.priority
    BY <1>2, <2>2 DEF Met, Graded
  <2>4. o.priority = e.priority /\ o.value # Nil => e.value # Nil /\ o.decimals <= e.decimals
    BY <1>2, <2>2 DEF Met, Graded, Improves, MorePrecise
  <2>. QED  BY <2>1, <2>3, <2>4 DEF Met
<1>3. o.at \in DOMAIN items
  BY DEF Met
<1>4. CASE Insert(k, e) = items
  BY <1>1, <1>3, <1>4
<1>5. CASE Insert(k, e) = Put(items, k, e) /\ o.at # k
  <2>1. Insert(k, e)[o.at] = items[o.at] /\ o.at \in DOMAIN Insert(k, e)
    BY <1>3, <1>5 DEF Put
  <2>. QED  BY <1>1, <2>1
<1>6. \/ Insert(k, e) = items
      \/ /\ Insert(k, e) = Put(items, k, e)
         /\ \/ k \notin DOMAIN items \/ e.priority > items[k].priority
            \/ e.priority = items[k].priority /\ Improves(e, items[k])
  BY DEF Insert
<1>7. CASE Insert(k, e) = Put(items, k, e) /\ o.at = k /\ Insert(k, e) # items
  <2>1. k \in DOMAIN items
    BY <1>3, <1>7
  <2>2. e.priority > items[k].priority \/ (e.priority = items[k].priority /\ Improves(e, items[k]))
    BY <1>6, <1>7, <2>1
  <2>. QED  BY <1>2, <1>7, <2>2
<1>. QED  BY <1>4, <1>5, <1>6, <1>7

LEMMA InsertMeets ==
    ASSUME \A k \in DOMAIN items : Graded(items[k]), NEW k, NEW e, Graded(e),
           NEW o, o.at = k, o.priority = e.priority, o.decimals = e.decimals, o.value = e.value
    PROVE  Met(Insert(k, e), o)
<1>1. CASE Insert(k, e) = Put(items, k, e)
  <2>1. k \in DOMAIN Insert(k, e) /\ Insert(k, e)[k] = e
    BY <1>1 DEF Put
  <2>. QED  BY <2>1 DEF Met, Graded
<1>2. CASE /\ Insert(k, e) = items /\ k \in DOMAIN items /\ ~(e.priority > items[k].priority)
           /\ ~(e.priority = items[k].priority /\ Improves(e, items[k]))
  BY <1>2 DEF Met, Graded, Improves, MorePrecise
<1>. QED  BY <1>1, <1>2 DEF Insert

LEMMA InsertGraded ==
    ASSUME \A k \in DOMAIN items : Graded(items[k]), NEW k, NEW e, Graded(e)
    PROVE  \A j \in DOMAIN Insert(k, e) : Graded(Insert(k, e)[j])
BY InsertGives
-----------------------------------------------------------------------------
FinancialOffer(x, c) ==
    [at |-> [context |-> x, statement |-> StatementFor(c), item |-> Item(c)],
     priority |-> Priority(c), decimals |-> DecimalsOf(x, c),
     value |-> bucket[Bucket("financial", x, c)].value]

ShareOffer(x, c) ==
    [at |-> [context |-> x, statement |-> "bs", item |-> Item(c)],
     priority |-> Priority(c), decimals |-> Blank,
     value |-> bucket[Bucket("shares", x, c)].value]

\* All that the concepts of a context offer is met, those in later apart.
FinancialMet(x, later) == \A c \in Concepts("financial", x) \ later :
    Routed(c) => Met(items, FinancialOffer(x, c))
SharesMet(x, later) == \A c \in Concepts("shares", x) \ later :
    Semantic(c) => Met(items, ShareOffer(x, c))

\* How far the concepts of a context are served, l being those left.
Stage(x, l) ==
    /\ at # None /\ x > at => FinancialMet(x, {}) /\ SharesMet(x, {})
    /\ at # None /\ x = at /\ pc \in {"next", "done"} => FinancialMet(x, {}) /\ SharesMet(x, {})
    /\ x = at /\ pc = "insert" =>
           l \subseteq {c \in Concepts("financial", x) : Routed(c)} /\ FinancialMet(x, l)
    /\ x = at /\ pc = "shares" =>
           /\ l \subseteq {c \in Concepts("shares", x) : Semantic(c)}
           /\ FinancialMet(x, {}) /\ SharesMet(x, l)

\* The contexts are served from the latest; at is the one being served.
Served ==
    /\ pc \in {"open", "read", "dedupe", "total"} => at = None
    /\ pc \in {"insert", "shares"} => at # None
    /\ at # None => at \in Contexts("financial")
    /\ \A x \in Contexts("financial") : pc = "done" => at # None /\ at <= x
    /\ \A k \in DOMAIN items : Graded(items[k])
    /\ \A x \in Contexts("financial") : \A l : l = left => Stage(x, l)

LEMMA OffersGraded ==
    ASSUME Sourced, Matching, Finite, NEW x
    PROVE  /\ \A c \in Concepts("financial", x) : Routed(c) => Graded(FinancialOffer(x, c))
           /\ \A c \in Concepts("shares", x) : Semantic(c) => Graded(ShareOffer(x, c))
<1>1. \A c \in Concepts("financial", x) : Routed(c) => Priority(c) \in Int
  BY BucketFacts DEF Routed
<1>2. \A c \in Concepts("shares", x) : Semantic(c) => Priority(c) \in Int
  BY BucketFacts
<1>3. \A c : DecimalsOf(x, c) \in Int
  BY DecimalsKnown
<1>4. Blank \in Int
  BY ToleranceAssumption
<1>. QED  BY <1>1, <1>2, <1>3, <1>4 DEF Graded, FinancialOffer, ShareOffer

\* What the concepts offer stays once reading is over.
LEMMA OffersFixed ==
    ASSUME UNCHANGED <<package, bucket, raw>>
    PROVE  /\ Contexts("financial")' = Contexts("financial")
           /\ \A kind, x : Concepts(kind, x)' = Concepts(kind, x)
           /\ \A c : (Routed(c) <=> Routed(c)') /\ StatementFor(c)' = StatementFor(c)
           /\ \A x, c : FinancialOffer(x, c)' = FinancialOffer(x, c) /\ ShareOffer(x, c)' = ShareOffer(x, c)
<1>1. Contexts("financial")' = Contexts("financial")
  BY DEF Contexts
<1>2. \A kind, x : Concepts(kind, x)' = Concepts(kind, x)
  BY DEF Concepts
<1>3. \A c : StatementFor(c)' = StatementFor(c)
  BY DEF StatementFor, RawStatements
<1>4. \A c : (Routed(c) <=> Routed(c)')
  BY <1>3 DEF Routed, Semantic
<1>5. \A x, c : DecimalsOf(x, c)' = DecimalsOf(x, c)
  BY DEF DecimalsOf
<1>6. \A x, c : FinancialOffer(x, c)' = FinancialOffer(x, c)
  BY <1>3, <1>5 DEF FinancialOffer, Item, Priority, Bucket
<1>7. \A x, c : ShareOffer(x, c)' = ShareOffer(x, c)
  BY DEF ShareOffer, Item, Priority, Bucket
<1>. QED  BY <1>1, <1>2, <1>3, <1>4, <1>6, <1>7

\* What is met stays met.
LEMMA StaysMet ==
    ASSUME Sourced, Matching, Finite, Served, UNCHANGED <<package, bucket, raw>>,
           \/ items' = items
           \/ \E k, e : Graded(e) /\ items' = Insert(k, e),
           NEW x, NEW later
    PROVE  /\ FinancialMet(x, later) => FinancialMet(x, later)'
           /\ SharesMet(x, later) => SharesMet(x, later)'
<1>1. \A o : Graded(o) /\ Met(items, o) => Met(items', o)
  BY InsertKeeps DEF Served
<1>2. /\ \A c \in Concepts("financial", x) : Routed(c) => Graded(FinancialOffer(x, c))
      /\ \A c \in Concepts("shares", x) : Semantic(c) => Graded(ShareOffer(x, c))
  BY OffersGraded
<1>3. /\ \A kind : Concepts(kind, x)' = Concepts(kind, x)
      /\ \A c : (Routed(c) <=> Routed(c)')
      /\ \A c : FinancialOffer(x, c)' = FinancialOffer(x, c) /\ ShareOffer(x, c)' = ShareOffer(x, c)
  BY OffersFixed
<1>4. \A c : (Semantic(c) <=> Semantic(c)')
  BY DEF Semantic
<1>5. FinancialMet(x, later) => FinancialMet(x, later)'
  BY <1>1, <1>2, <1>3 DEF FinancialMet
<1>6. SharesMet(x, later) => SharesMet(x, later)'
  BY <1>1, <1>2, <1>3, <1>4 DEF SharesMet
<1>. QED  BY <1>5, <1>6

\* A step that serves the context y leaves those before it as they are.
LEMMA ServedStep ==
    ASSUME Sourced, Matching, Finite, Served, UNCHANGED <<package, bucket, raw, at>>,
           \/ items' = items
           \/ \E k, e : Graded(e) /\ items' = Insert(k, e),
           pc \in {"insert", "shares"}, pc' \in {"insert", "shares", "next", "failed"},
           NEW y, y = at, \A l : l = left' => Stage(y, l)'
    PROVE  Served'
<1>1. /\ at # None /\ at \in Contexts("financial")
      /\ Contexts("financial")' = Contexts("financial") /\ Contexts("financial") \subseteq Int
  BY OffersFixed, FinancialContexts DEF Served
<1>2. \A k \in DOMAIN items' : Graded(items'[k])
  BY InsertGraded DEF Served
<1>3. ASSUME NEW x \in Contexts("financial"), NEW l, l = left' PROVE Stage(x, l)'
  <2>1. CASE x = y
    BY <1>3, <2>1
  <2>2. CASE x # y /\ x > at
    <3>1. Stage(x, left)
      BY DEF Served
    <3>2. FinancialMet(x, {}) /\ SharesMet(x, {})
      BY <1>1, <2>2, <3>1 DEF Stage
    <3>3. FinancialMet(x, {})' /\ SharesMet(x, {})'
      BY <3>2, StaysMet
    <3>. QED  BY <2>2, <3>3 DEF Stage
  <2>3. CASE x # y /\ ~(x > at)
    BY <2>3 DEF Stage
  <2>. QED  BY <2>1, <2>2, <2>3
<1>. QED  BY <1>1, <1>2, <1>3 DEF Served

LEMMA ServedNext == Sourced /\ Matching /\ Finite /\ Served /\ [Next]_vars => Served'
<1>. SUFFICES ASSUME Sourced, Matching, Finite, Served, [Next]_vars PROVE Served'
  OBVIOUS
<1>. USE DEF reading, building
\* Before the first context nothing is claimed.
<1>1. CASE at = None /\ at' = None /\ items' = items
           /\ pc' \in {"open", "read", "dedupe", "total", "next", "failed"}
  BY <1>1 DEF Served, Stage
<1>2. CASE /\ UNCHANGED <<package, bucket, raw, at, left, items>>
           /\ \/ pc' = pc \/ pc' = "failed"
              \/ pc = "next" /\ pc' = "done" /\ Remaining = {}
  <2>1. Contexts("financial")' = Contexts("financial") /\ Contexts("financial") \subseteq Int
    BY <1>2, OffersFixed, FinancialContexts
  <2>2. \A x, l : /\ FinancialMet(x, l) => FinancialMet(x, l)'
                  /\ SharesMet(x, l) => SharesMet(x, l)'
    BY <1>2, StaysMet
  <2>3. \A kind, x : Concepts(kind, x)' = Concepts(kind, x)
    BY <1>2, OffersFixed
  <2>4. \A c : (Routed(c) <=> Routed(c)') /\ (Semantic(c) <=> Semantic(c)')
    BY <1>2, OffersFixed DEF Semantic
  <2>5. ASSUME NEW x \in Contexts("financial"), NEW l, l = left' PROVE Stage(x, l)'
    <3>1. Stage(x, l)
      BY <1>2, <2>5 DEF Served
    <3>. QED  BY <1>2, <2>2, <2>3, <2>4, <3>1 DEF Stage
  <2>6. ASSUME NEW x \in Contexts("financial"), pc' = "done" PROVE at' # None /\ at' <= x
    <3>1. CASE pc' = pc
      BY <1>2, <2>6, <3>1 DEF Served
    <3>2. CASE pc = "next" /\ Remaining = {}
      <4>1. at # None /\ ~(x < at) /\ at \in Contexts("financial")
        BY <3>2 DEF Remaining, Served
      <4>. QED  BY <1>2, <2>1, <4>1
    <3>. QED  BY <1>2, <2>6, <3>1, <3>2
  <2>. QED  BY <1>2, <2>1, <2>5, <2>6 DEF Served
<1>3. CASE NextContext
  <2>1. /\ pc = "next" /\ Remaining # {} /\ pc' = "insert"
        /\ UNCHANGED <<package, bucket, raw, items>>
        /\ at' = CHOOSE x \in Remaining : \A y \in Remaining : y <= x
        /\ left' = {c \in Concepts("financial", at') : Routed(c)}
    BY <1>3 DEF NextContext
  <2>2. /\ Contexts("financial")' = Contexts("financial") /\ Contexts("financial") \subseteq Int
        /\ None \notin Contexts("financial") /\ IsFiniteSet(Contexts("financial"))
    BY <2>1, OffersFixed, FinancialContexts
  <2>3. \E x \in Remaining : \A y \in Remaining : y <= x
    <3>1. Remaining \in SUBSET Int /\ IsFiniteSet(Remaining)
      BY <2>2, FS_Subset DEF Remaining
    <3>. QED  BY <2>1, <3>1, GreatestExists
  <2>4. at' \in Remaining /\ \A y \in Remaining : y <= at'
    BY <2>1, <2>3
  <2>5. at' \in Contexts("financial") /\ at' # None
    BY <2>2, <2>4 DEF Remaining
  <2>6. ASSUME NEW x \in Contexts("financial"), x > at' PROVE FinancialMet(x, {})' /\ SharesMet(x, {})'
    <3>1. x \notin Remaining
      BY <2>2, <2>4, <2>5, <2>6
    <3>2. at # None /\ ~(x < at) /\ at \in Contexts("financial")
      BY <3>1 DEF Remaining, Served
    <3>3. Stage(x, left) /\ (x > at \/ x = at)
      BY <2>2, <3>2 DEF Served
    <3>4. FinancialMet(x, {}) /\ SharesMet(x, {})
      BY <2>1, <3>2, <3>3 DEF Stage
    <3>. QED  BY <2>1, <3>4, StaysMet
  <2>7. ASSUME NEW x, x = at', NEW l, l = left'
        PROVE  l \subseteq {c \in Concepts("financial", x)' : Routed(c)'} /\ FinancialMet(x, l)'
    <3>1. l = {c \in Concepts("financial", x) : Routed(c)}
      BY <2>1, <2>7
    <3>2. Concepts("financial", x)' = Concepts("financial", x) /\ \A c : (Routed(c) <=> Routed(c)')
      BY <2>1, OffersFixed
    <3>. QED  BY <3>1, <3>2 DEF FinancialMet
  <2>8. ASSUME NEW x \in Contexts("financial"), NEW l, l = left' PROVE Stage(x, l)'
    BY <2>1, <2>6, <2>7, <2>8 DEF Stage
  <2>9. \A k \in DOMAIN items' : Graded(items'[k])
    BY <2>1 DEF Served
  <2>. QED  BY <2>1, <2>2, <2>5, <2>8, <2>9 DEF Served
<1>4. CASE \E c \in left : InsertConcept(c)
  <2>. PICK c \in left : InsertConcept(c)
    BY <1>4
  <2>1. /\ pc = "insert" /\ pc' = "insert" /\ UNCHANGED <<package, bucket, raw, at>>
        /\ items' = Insert(ItemKey(StatementFor(c), Item(c)), ConceptEntry(c))
        /\ left' = left \ {c}
    BY DEF InsertConcept
  <2>2. PICK y : y = at
    OBVIOUS
  <2>3. PICK m : m = left
    OBVIOUS
  <2>4. /\ m \subseteq {d \in Concepts("financial", y) : Routed(d)} /\ FinancialMet(y, m)
        /\ y \in Contexts("financial")
    BY <2>1, <2>2, <2>3 DEF Served, Stage
  <2>5. c \in m /\ c \in Concepts("financial", y) /\ Routed(c)
    BY <2>3, <2>4
  <2>6. Graded(FinancialOffer(y, c))
    BY <2>5, OffersGraded
  <2>7. /\ ConceptEntry(c).priority = FinancialOffer(y, c).priority
        /\ ConceptEntry(c).decimals = FinancialOffer(y, c).decimals
        /\ ConceptEntry(c).value = FinancialOffer(y, c).value
        /\ ItemKey(StatementFor(c), Item(c)) = FinancialOffer(y, c).at
    BY <2>2 DEF ConceptEntry, Entry, FinancialOffer, ItemKey, Bucket
  <2>8. Graded(ConceptEntry(c))
    BY <2>6, <2>7 DEF Graded
  <2>9. Met(items', FinancialOffer(y, c))
    BY <2>1, <2>7, <2>8, InsertMeets DEF Served
  <2>10. FinancialMet(y, m)'
    BY <2>1, <2>4, <2>8, StaysMet
  <2>11. /\ Concepts("financial", y)' = Concepts("financial", y)
         /\ \A d : (Routed(d) <=> Routed(d)')
         /\ FinancialOffer(y, c)' = FinancialOffer(y, c)
    BY <2>1, OffersFixed
  <2>12. ASSUME NEW l, l = left' PROVE Stage(y, l)'
    <3>1. l = m \ {c}
      BY <2>1, <2>3, <2>12
    <3>2. FinancialMet(y, l)'
      BY <2>9, <2>10, <2>11, <3>1 DEF FinancialMet
    <3>3. l \subseteq {d \in Concepts("financial", y)' : Routed(d)'}
      BY <2>4, <2>11, <3>1
    <3>4. ~(y > at')
      <4>1. y \in Int
        BY <2>4, FinancialContexts
      <4>. QED  BY <2>1, <2>2, <4>1
    <3>. QED  BY <2>1, <3>2, <3>3, <3>4 DEF Stage
  <2>. QED  BY <2>1, <2>2, <2>8, <2>12, ServedStep
<1>5. CASE InsertTotal
  <2>. DEFINE entry == Entry(inventory[at], Synthetic, Blank, None)
  <2>1. /\ pc = "insert" /\ pc' = "shares" /\ left = {} /\ UNCHANGED <<package, bucket, raw, at>>
        /\ items' = items \/ items' = Insert(ItemKey("bs", "inventories"), entry)
        /\ left' = {c \in Concepts("shares", at) : Semantic(c)}
    BY <1>5 DEF InsertTotal
  <2>2. PICK y : y = at
    OBVIOUS
  <2>3. Graded(entry)
    BY ToleranceAssumption DEF Graded, Entry, Synthetic
  <2>4. FinancialMet(y, {}) /\ y \in Contexts("financial")
    BY <2>1, <2>2 DEF Served, Stage
  <2>. HIDE DEF entry
  <2>5. FinancialMet(y, {})'
    BY <2>1, <2>3, <2>4, StaysMet
  <2>6. ASSUME NEW l, l = left' PROVE Stage(y, l)'
    <3>1. l = {c \in Concepts("shares", y) : Semantic(c)}
      BY <2>1, <2>2, <2>6
    <3>2. Concepts("shares", y)' = Concepts("shares", y) /\ \A c : (Semantic(c) <=> Semantic(c)')
      BY <2>1, OffersFixed DEF Semantic
    <3>3. SharesMet(y, l)'
      BY <3>1, <3>2 DEF SharesMet
    <3>4. ~(y > at')
      <4>1. y \in Int
        BY <2>4, FinancialContexts
      <4>. QED  BY <2>1, <2>2, <4>1
    <3>. QED  BY <2>1, <2>5, <3>1, <3>2, <3>3, <3>4 DEF Stage
  <2>. QED  BY <2>1, <2>2, <2>3, <2>6, ServedStep
<1>6. CASE \E c \in left : InsertShares(c)
  <2>. PICK c \in left : InsertShares(c)
    BY <1>6
  <2>1. /\ pc = "shares" /\ pc' = "shares" /\ UNCHANGED <<package, bucket, raw, at>>
        /\ items' = Insert(ItemKey("bs", Item(c)), ShareEntry(c))
        /\ left' = left \ {c}
    BY DEF InsertShares
  <2>2. PICK y : y = at
    OBVIOUS
  <2>3. PICK m : m = left
    OBVIOUS
  <2>4. /\ m \subseteq {d \in Concepts("shares", y) : Semantic(d)}
        /\ FinancialMet(y, {}) /\ SharesMet(y, m)
        /\ y \in Contexts("financial")
    BY <2>1, <2>2, <2>3 DEF Served, Stage
  <2>5. c \in m /\ c \in Concepts("shares", y) /\ Semantic(c)
    BY <2>3, <2>4
  <2>6. Graded(ShareOffer(y, c))
    BY <2>5, OffersGraded
  <2>7. /\ ShareEntry(c).priority = ShareOffer(y, c).priority
        /\ ShareEntry(c).decimals = ShareOffer(y, c).decimals
        /\ ShareEntry(c).value = ShareOffer(y, c).value
        /\ ItemKey("bs", Item(c)) = ShareOffer(y, c).at
    BY <2>2 DEF ShareEntry, Entry, ShareOffer, ItemKey, Bucket
  <2>8. Graded(ShareEntry(c))
    BY <2>6, <2>7 DEF Graded
  <2>9. Met(items', ShareOffer(y, c))
    BY <2>1, <2>7, <2>8, InsertMeets DEF Served
  <2>10. FinancialMet(y, {})' /\ SharesMet(y, m)'
    BY <2>1, <2>4, <2>8, StaysMet
  <2>11. /\ Concepts("shares", y)' = Concepts("shares", y)
         /\ \A d : (Semantic(d) <=> Semantic(d)')
         /\ ShareOffer(y, c)' = ShareOffer(y, c)
    BY <2>1, OffersFixed DEF Semantic
  <2>12. ASSUME NEW l, l = left' PROVE Stage(y, l)'
    <3>1. l = m \ {c}
      BY <2>1, <2>3, <2>12
    <3>2. SharesMet(y, l)'
      BY <2>9, <2>10, <2>11, <3>1 DEF SharesMet
    <3>3. l \subseteq {d \in Concepts("shares", y)' : Semantic(d)'}
      BY <2>4, <2>11, <3>1
    <3>4. ~(y > at')
      <4>1. y \in Int
        BY <2>4, FinancialContexts
      <4>. QED  BY <2>1, <2>2, <4>1
    <3>. QED  BY <2>1, <2>10, <3>2, <3>3, <3>4 DEF Stage
  <2>. QED  BY <2>1, <2>2, <2>8, <2>12, ServedStep
<1>7. CASE Flag
  <2>. DEFINE entry == Entry(IF PreferredIn(ContextAt(at).period) THEN 1 ELSE 0, Synthetic, Blank, None)
  <2>1. /\ pc = "shares" /\ pc' = "next" /\ left = {} /\ UNCHANGED <<package, bucket, raw, at>>
        /\ items' = items \/ items' = Insert(ItemKey("bs", "has_preferred_shares"), entry)
    BY <1>7 DEF Flag
  <2>2. PICK y : y = at
    OBVIOUS
  <2>3. Graded(entry)
    BY ToleranceAssumption DEF Graded, Entry, Synthetic
  <2>4. FinancialMet(y, {}) /\ SharesMet(y, {}) /\ y \in Contexts("financial")
    BY <2>1, <2>2 DEF Served, Stage
  <2>. HIDE DEF entry
  <2>5. FinancialMet(y, {})' /\ SharesMet(y, {})'
    BY <2>1, <2>3, <2>4, StaysMet
  <2>6. \A l : Stage(y, l)'
    BY <2>1, <2>5 DEF Stage
  <2>. QED  BY <2>1, <2>2, <2>3, <2>6, ServedStep
<1>8. CASE OpenEmpty \/ OpenFails \/ Open \/ (\E f \in unread : NextDocument(f)) \/ Skip \/ Disagree
           \/ Read \/ ReadEnds
  BY <1>1, <1>8 DEF OpenEmpty, OpenFails, Open, NextDocument, Skip, Disagree, Read, ReadEnds, Stop, Served
<1>9. CASE Dedupe \/ DedupeFails \/ DedupeEnds \/ Total \/ TotalFails
  BY <1>1, <1>9 DEF Dedupe, DedupeFails, DedupeEnds, Total, TotalFails, Stop, Served
<1>10. CASE (\E c \in left : InsertFails(c)) \/ (\E c \in left : SharesFail(c)) \/ Finish
  BY <1>2, <1>10 DEF InsertFails, SharesFail, Finish, Stop
<1>11. CASE Ended \/ UNCHANGED vars
  <2>1. UNCHANGED vars
    BY <1>11 DEF Ended
  <2>. QED  BY <1>2, <2>1 DEF vars
<1>. QED  BY <1>3, <1>4, <1>5, <1>6, <1>7, <1>8, <1>9, <1>10, <1>11 DEF Next

\* Whatever the order of the concepts, an item ends with its highest priority,
\* with a value if a concept of that priority has one, and none more precise
\* (insert_canonical_item).
THEOREM BestEvidenceWins == Spec => []BestEvidence
<1>1. Init => Served
  BY DEF Init, Served, Stage, Empty, Contexts
<1>2. Sourced /\ Served => BestEvidence
  <2>. SUFFICES ASSUME Sourced, Served, pc = "done", NEW x \in Contexts("financial"),
                       NEW o \in Offers(x)
                PROVE  Met(items, o)
    BY DEF BestEvidence, Met
  <2>1. FinancialMet(x, {}) /\ SharesMet(x, {})
    <3>1. at # None /\ at <= x /\ at \in Contexts("financial") /\ Stage(x, left)
      BY DEF Served
    <3>2. \A y \in Contexts("financial") : y \in Int
      <4>1. \A y \in Contexts("financial") : \E c : c \in Concepts("financial", y)
        BY DEF Contexts, Concepts
      <4>2. DOMAIN package.contexts \subseteq Int
        BY PackageAssumption DEF Sourced
      <4>. QED  BY <4>1, <4>2, BucketFacts
    <3>3. x = at \/ x > at
      BY <3>1, <3>2
    <3>. QED  BY <3>1, <3>3 DEF Stage
  <2>2. CASE \E c \in {d \in Concepts("financial", x) : Routed(d)} :
                 o = [at |-> [context |-> x, statement |-> StatementFor(c), item |-> Item(c)],
                      priority |-> Priority(c), decimals |-> DecimalsOf(x, c),
                      value |-> FactsOf("financial", x)[c].value]
    <3>1. PICK c \in {d \in Concepts("financial", x) : Routed(d)} : o = FinancialOffer(x, c)
      BY <2>2 DEF FinancialOffer, FactsOf, Bucket
    <3>. QED  BY <2>1, <3>1 DEF FinancialMet
  <2>3. CASE \E c \in {d \in Concepts("shares", x) : Semantic(d)} :
                 o = [at |-> [context |-> x, statement |-> "bs", item |-> Item(c)],
                      priority |-> Priority(c), decimals |-> Blank,
                      value |-> FactsOf("shares", x)[c].value]
    <3>1. PICK c \in {d \in Concepts("shares", x) : Semantic(d)} : o = ShareOffer(x, c)
      BY <2>3 DEF ShareOffer, FactsOf, Bucket
    <3>. QED  BY <2>1, <3>1 DEF SharesMet
  <2>. QED  BY <2>2, <2>3 DEF Offers
<1>. QED  BY <1>1, <1>2, ServedNext, AlwaysSourced, AlwaysMatching, AlwaysFinite, PTL DEF Spec
-----------------------------------------------------------------------------
(***************************************************************************)
(* Inventory totals.  A total added up along the calculation arcs comes to *)
(* the lowest facts below it, each as often as arcs lead to it.            *)
(***************************************************************************)
Summable(arcs) ==
    /\ I!NoCycle(arcs) /\ IsFiniteSet(arcs)
    /\ \A a \in arcs : a.weight \in Int

Closed(arcs, U) == \A n \in U : I!Kids(arcs, n) \subseteq U

\* n and what is below it.
Reach(arcs, n) ==
    {m \in I!Nodes(arcs) :
        \A U \in SUBSET I!Nodes(arcs) : n \in U /\ Closed(arcs, U) => m \in U}

Under(arcs, n) == UNION {Reach(arcs, m) : m \in I!Kids(arcs, n)}

LEMMA ReachFacts ==
    ASSUME NEW arcs, NEW n \in I!Nodes(arcs)
    PROVE  /\ I!Kids(arcs, n) \subseteq I!Nodes(arcs)
           /\ Under(arcs, n) \subseteq Reach(arcs, n)
           /\ \A m \in Reach(arcs, n) : /\ m \in I!Nodes(arcs)
                                        /\ Reach(arcs, m) \subseteq Reach(arcs, n)
           /\ Reach(arcs, n) = {n} \cup Under(arcs, n)
           /\ \A m \in Reach(arcs, n) \ {n} : \E k \in Reach(arcs, n) : m \in I!Kids(arcs, k)
<1> DEFINE N == I!Nodes(arcs)
<1>1. \A m : I!Kids(arcs, m) \subseteq N
  BY DEF I!Kids, I!Nodes
<1>. HIDE DEF N
<1>2. \A m \in N : m \in Reach(arcs, m)
  BY DEF Reach, N
<1>3. ASSUME NEW l \in N, NEW m \in Reach(arcs, l)
      PROVE  m \in N /\ Reach(arcs, m) \subseteq Reach(arcs, l)
  BY <1>3 DEF Reach, N
<1>4. ASSUME NEW l \in N, NEW m \in Reach(arcs, l), NEW k \in I!Kids(arcs, m)
      PROVE  k \in Reach(arcs, l)
  BY <1>1, <1>4 DEF Reach, Closed, N
<1>5. Under(arcs, n) \subseteq Reach(arcs, n)
  <2>1. ASSUME NEW k \in I!Kids(arcs, n) PROVE Reach(arcs, k) \subseteq Reach(arcs, n)
    <3>1. k \in Reach(arcs, n)
      BY <1>2, <1>4, <2>1 DEF N
    <3>. QED  BY <1>3, <3>1 DEF N
  <2>. QED  BY <2>1 DEF Under
<1>6. Reach(arcs, n) \subseteq {n} \cup Under(arcs, n)
  <2> DEFINE U == {n} \cup Under(arcs, n)
  <2>1. U \in SUBSET N
    BY <1>3, <1>5 DEF N
  <2>2. ASSUME NEW m \in U, NEW k \in I!Kids(arcs, m) PROVE k \in U
    <3>1. CASE m = n
      BY <1>1, <1>2, <2>2, <3>1 DEF Under
    <3>2. CASE m # n
      <4>1. PICK l \in I!Kids(arcs, n) : m \in Reach(arcs, l)
        BY <2>2, <3>2 DEF Under
      <4>2. k \in Reach(arcs, l)
        BY <1>1, <1>4, <2>2, <4>1
      <4>. QED  BY <4>1, <4>2 DEF Under
    <3>. QED  BY <3>1, <3>2
  <2>3. Closed(arcs, U)
    BY <2>2 DEF Closed
  <2>4. n \in U
    OBVIOUS
  <2>. HIDE DEF U
  <2>. QED  BY <2>1, <2>3, <2>4 DEF Reach, N, U
<1>7. ASSUME NEW m \in Reach(arcs, n), m # n
      PROVE  \E k \in Reach(arcs, n) : m \in I!Kids(arcs, k)
  <2> DEFINE U == Reach(arcs, n) \ {m}
  <2>1. SUFFICES ASSUME \A k \in Reach(arcs, n) : m \notin I!Kids(arcs, k) PROVE FALSE
    OBVIOUS
  <2>2. U \in SUBSET N /\ n \in U
    BY <1>2, <1>3, <1>7 DEF N
  <2>3. Closed(arcs, U)
    BY <1>4, <2>1 DEF Closed, N
  <2>. HIDE DEF U
  <2>4. m \in U
    BY <1>7, <2>2, <2>3 DEF Reach, N
  <2>. QED  BY <2>4 DEF U
<1>. QED  BY <1>1, <1>2, <1>3, <1>5, <1>6, <1>7 DEF N

LEMMA NotBelowItself ==
    ASSUME NEW arcs, I!NoCycle(arcs), NEW n \in I!Nodes(arcs)
    PROVE  n \notin Under(arcs, n)
<1>1. SUFFICES ASSUME n \in Under(arcs, n) PROVE FALSE
  OBVIOUS
<1> DEFINE U == {m \in Reach(arcs, n) : n \in Under(arcs, m)}
<1>2. n \in U /\ U \in SUBSET I!Nodes(arcs)
  BY <1>1, ReachFacts
<1>3. PICK m \in U : I!Kids(arcs, m) \cap U = {}
  BY <1>2 DEF I!NoCycle
<1>4. PICK k \in I!Kids(arcs, m) : n \in Reach(arcs, k)
  BY <1>3 DEF Under
<1>5. m \in I!Nodes(arcs) /\ k \in I!Nodes(arcs)
  BY <1>3, <1>4, ReachFacts
<1>6. k \in Reach(arcs, m)
  BY <1>4, <1>5, ReachFacts DEF Under
<1>7. k \in Reach(arcs, n)
  BY <1>3, <1>6, ReachFacts
<1>8. n \in Under(arcs, k)
  <2>1. CASE k = n
    BY <1>1, <2>1
  <2>2. CASE k # n
    BY <1>4, <1>5, <2>2, ReachFacts
  <2>. QED  BY <2>1, <2>2
<1>. QED  BY <1>3, <1>4, <1>7, <1>8

Spells(f, arcs) ==
    f = [n \in I!Nodes(arcs) |-> UNION {{a.to} \cup f[a.to] : a \in {b \in arcs : b.from = n}}]

LEMMA BelowIs ==
    ASSUME NEW arcs, I!NoCycle(arcs), NEW n \in I!Nodes(arcs)
    PROVE  I!Below(arcs, n) = Under(arcs, n)
<1> DEFINE N == I!Nodes(arcs)
           f == [m \in N |-> Under(arcs, m)]
           g == CHOOSE h : Spells(h, arcs)
<1>1. \A m \in N : I!Kids(arcs, m) \subseteq N
  BY ReachFacts
<1>2. ASSUME NEW m \in N
      PROVE  Under(arcs, m) = UNION {{k} \cup Under(arcs, k) : k \in I!Kids(arcs, m)}
  <2>1. \A k \in I!Kids(arcs, m) : Reach(arcs, k) = {k} \cup Under(arcs, k)
    BY <1>1, ReachFacts
  <2>. QED  BY <2>1 DEF Under
<1>3. Spells(f, arcs)
  <2>1. ASSUME NEW m \in N
        PROVE  f[m] = UNION {{a.to} \cup f[a.to] : a \in {b \in arcs : b.from = m}}
    <3>1. \A a \in arcs : a.from = m => f[a.to] = Under(arcs, a.to)
      BY DEF I!Nodes
    <3>2. UNION {{a.to} \cup f[a.to] : a \in {b \in arcs : b.from = m}}
              = UNION {{k} \cup Under(arcs, k) : k \in I!Kids(arcs, m)}
      BY <3>1 DEF I!Kids
    <3>. QED  BY <1>2, <3>2
  <2>. QED  BY <2>1 DEF Spells
<1>4. Spells(g, arcs)
  BY <1>3
<1>5. N \cup {n} = N
  OBVIOUS
<1>6. I!Below(arcs, n) = g[n]
  BY <1>5 DEF I!Below, Spells
<1>. HIDE DEF g
<1>7. ASSUME NEW m \in N PROVE g[m] = UNION {{k} \cup g[k] : k \in I!Kids(arcs, m)}
  <2>1. g[m] = UNION {{a.to} \cup g[a.to] : a \in {b \in arcs : b.from = m}}
    BY <1>4, Zenon DEF Spells
  <2>2. UNION {{a.to} \cup g[a.to] : a \in {b \in arcs : b.from = m}}
            = UNION {{k} \cup g[k] : k \in I!Kids(arcs, m)}
    BY DEF I!Kids
  <2>. QED  BY <2>1, <2>2
<1> DEFINE D == {m \in N : g[m] # Under(arcs, m)}
<1>8. D = {}
  <2>1. SUFFICES ASSUME D # {} PROVE FALSE
    OBVIOUS
  <2>2. PICK m \in D : I!Kids(arcs, m) \cap D = {}
    BY <2>1 DEF I!NoCycle
  <2>3. \A k \in I!Kids(arcs, m) : g[k] = Under(arcs, k)
    BY <1>1, <2>2
  <2>4. UNION {{k} \cup g[k] : k \in I!Kids(arcs, m)}
            = UNION {{k} \cup Under(arcs, k) : k \in I!Kids(arcs, m)}
    BY <2>3
  <2>. QED  BY <1>2, <1>7, <2>2, <2>4
<1>. QED  BY <1>6, <1>8

\* The concepts of F at and below n that have none of F below them.
Lowest(arcs, F, n) == {c \in Reach(arcs, n) \cap F : Under(arcs, c) \cap F = {}}

LEMMA LowestFacts ==
    ASSUME NEW arcs, I!NoCycle(arcs), NEW F, NEW n \in I!Nodes(arcs)
    PROVE  /\ Reach(arcs, n) \cap F # {} => Lowest(arcs, F, n) # {}
           /\ Under(arcs, n) \cap F = {} => Lowest(arcs, F, n) = {n} \cap F
           /\ Under(arcs, n) \cap F # {} =>
                  Lowest(arcs, F, n) = UNION {Lowest(arcs, F, k) : k \in I!Kids(arcs, n)}
<1>1. ASSUME Reach(arcs, n) \cap F # {} PROVE Lowest(arcs, F, n) # {}
  <2> DEFINE U == {m \in Reach(arcs, n) : Reach(arcs, m) \cap F # {}}
  <2>1. n \in U /\ U \in SUBSET I!Nodes(arcs)
    BY <1>1, ReachFacts
  <2>2. PICK m \in U : I!Kids(arcs, m) \cap U = {}
    BY <2>1 DEF I!NoCycle
  <2>3. m \in I!Nodes(arcs)
    BY <2>1, <2>2
  <2>4. \A k \in I!Kids(arcs, m) : k \in Reach(arcs, n)
    <3>1. ASSUME NEW k \in I!Kids(arcs, m) PROVE k \in Reach(arcs, m)
      BY <2>3, <3>1, ReachFacts DEF Under
    <3>. QED  BY <2>2, <3>1, ReachFacts
  <2>5. Under(arcs, m) \cap F = {}
    BY <2>2, <2>4 DEF Under
  <2>6. m \in F
    BY <2>2, <2>3, <2>5, ReachFacts
  <2>. QED  BY <2>2, <2>5, <2>6 DEF Lowest
<1>2. ASSUME Under(arcs, n) \cap F = {} PROVE Lowest(arcs, F, n) = {n} \cap F
  BY <1>2, ReachFacts DEF Lowest
<1>3. ASSUME Under(arcs, n) \cap F # {}
      PROVE  Lowest(arcs, F, n) = UNION {Lowest(arcs, F, k) : k \in I!Kids(arcs, n)}
  BY <1>3, ReachFacts DEF Lowest, Under
<1>. QED  BY <1>1, <1>2, <1>3

LEMMA NodesFinite ==
    ASSUME NEW arcs, IsFiniteSet(arcs)
    PROVE  IsFiniteSet(I!Nodes(arcs))
<1> DEFINE from == [a \in arcs |-> a.from]
           to == [a \in arcs |-> a.to]
<1>1. /\ I!Nodes(arcs) = {from[a] : a \in DOMAIN from} \cup {to[a] : a \in DOMAIN to}
      /\ IsFiniteSet(DOMAIN from) /\ IsFiniteSet(DOMAIN to)
  BY DEF I!Nodes
<1>. HIDE DEF from, to
<1> DEFINE A == {from[a] : a \in DOMAIN from}
           B == {to[a] : a \in DOMAIN to}
<1>2. IsFiniteSet(A)
  BY <1>1, FiniteImage
<1>3. IsFiniteSet(B)
  BY <1>1, FiniteImage
<1>4. I!Nodes(arcs) = A \cup B
  BY <1>1
<1>. HIDE DEF A, B
<1>5. IsFiniteSet(A \cup B)
  BY <1>2, <1>3, FS_Union
<1>. QED  BY <1>4, <1>5

LEMMA DeepestIs ==
    ASSUME NEW arcs, I!NoCycle(arcs), NEW fact, NEW n \in I!Nodes(arcs)
    PROVE  I!Deepest(arcs, fact, n) = Lowest(arcs, I!Factful(fact), n)
<1> DEFINE F == I!Factful(fact)
<1>1. \A m \in I!Nodes(arcs) : I!Below(arcs, m) = Under(arcs, m)
  BY BelowIs
<1>2. {n} \cup I!Below(arcs, n) = Reach(arcs, n)
  BY <1>1, ReachFacts
<1>3. \A c \in Reach(arcs, n) :
          I!Below(arcs, c) = Under(arcs, c) /\ Under(arcs, c) \subseteq Reach(arcs, n)
  BY <1>1, ReachFacts
<1>4. I!Deepest(arcs, fact, n) = {c \in Reach(arcs, n) \cap F : I!Below(arcs, c) \cap (Reach(arcs, n) \cap F) = {}}
  BY <1>2, Zenon DEF I!Deepest
<1>. HIDE DEF F
<1>. QED  BY <1>3, <1>4 DEF Lowest, F

LEMMA SameSum == \A f, U : I!SumOver(f, U) = SumOver(f, U)
BY DEF I!SumOver, SumOver

Amounts(fact) == [c \in I!Factful(fact) |-> fact[c].value]

Out(arcs, n) == {a \in arcs : a.from = n}

\* What n adds up to for the children's counts f.
Share(arcs, c, f, n) ==
    IF n = c THEN 1 ELSE SumOver([a \in Out(arcs, n) |-> a.weight * f[a.to]], Out(arcs, n))

LEMMA ShareSame ==
    ASSUME NEW arcs, NEW c, NEW f, NEW g, NEW n, \A m \in I!Kids(arcs, n) : f[m] = g[m]
    PROVE  Share(arcs, c, f, n) = Share(arcs, c, g, n)
<1>1. \A a \in Out(arcs, n) : f[a.to] = g[a.to]
  BY DEF Out, I!Kids
<1>2. [a \in Out(arcs, n) |-> a.weight * f[a.to]] = [a \in Out(arcs, n) |-> a.weight * g[a.to]]
  BY <1>1
<1>. QED  BY <1>2, Zenon DEF Share

\* The counts of a concept can be added up from below.
LEMMA TimesExist ==
    ASSUME NEW arcs, Summable(arcs), NEW c
    PROVE  \E f : f = [n \in I!Nodes(arcs) |-> Share(arcs, c, f, n)]
<1> DEFINE N == I!Nodes(arcs)
           Counted(f, U) == \A n \in U : f[n] = Share(arcs, c, f, n)
           H == {U \in SUBSET N : Closed(arcs, U) /\ \E f : Counted(f, U)}
<1>1. IsFiniteSet(N) /\ \A n \in N : I!Kids(arcs, n) \subseteq N
  BY NodesFinite, ReachFacts DEF Summable
<1>2. {} \in H
  BY DEF Closed
<1>3. ASSUME NEW U \in H, U # N PROVE \E n \in N \ U : U \cup {n} \in H
  <2>1. PICK n \in N \ U : I!Kids(arcs, n) \cap (N \ U) = {}
    <3>1. N \ U # {} /\ N \ U \in SUBSET N
      BY <1>3
    <3>. QED  BY <3>1 DEF Summable, I!NoCycle
  <2>2. I!Kids(arcs, n) \subseteq U /\ Closed(arcs, U)
    BY <1>1, <2>1
  <2>3. PICK f : Counted(f, U)
    OBVIOUS
  <2> DEFINE g == [m \in N |-> IF m \in U THEN f[m] ELSE Share(arcs, c, f, m)]
  <2>4. \A m \in U : g[m] = f[m]
    OBVIOUS
  <2>5. g[n] = Share(arcs, c, f, n)
    BY <2>1
  <2>. HIDE DEF g
  <2>6. ASSUME NEW m \in U \cup {n} PROVE g[m] = Share(arcs, c, g, m)
    <3>1. \A l \in I!Kids(arcs, m) : g[l] = f[l]
      BY <2>2, <2>4, <2>6 DEF Closed
    <3>2. Share(arcs, c, g, m) = Share(arcs, c, f, m)
      BY <3>1, ShareSame
    <3>. QED  BY <2>3, <2>4, <2>5, <2>6, <3>2
  <2>7. Closed(arcs, U \cup {n})
    BY <2>2 DEF Closed
  <2>8. Counted(g, U \cup {n})
    BY <2>6
  <2>. HIDE DEF Counted
  <2>. QED  BY <2>1, <2>7, <2>8
<1>. HIDE DEF Counted
<1>4. H \subseteq SUBSET N
  OBVIOUS
<1>. HIDE DEF H, N
<1>5. N \in H
  BY <1>1, <1>2, <1>3, <1>4, GrowsToAll
<1>6. PICK f : Counted(f, N)
  BY <1>5 DEF H
<1> DEFINE g == [n \in N |-> f[n]]
<1>7. \A n \in N : g[n] = Share(arcs, c, f, n)
  BY <1>6 DEF Counted
<1>8. \A n \in N : Share(arcs, c, g, n) = Share(arcs, c, f, n)
  <2>1. \A n \in N : \A m \in I!Kids(arcs, n) : g[m] = f[m]
    BY <1>1
  <2>. HIDE DEF g
  <2>. QED  BY <2>1, ShareSame
<1>9. g = [n \in N |-> g[n]]
  OBVIOUS
<1>. HIDE DEF g
<1>10. \A n \in N : g[n] = Share(arcs, c, g, n)
  BY <1>7, <1>8
<1>11. g = [n \in N |-> Share(arcs, c, g, n)]
  BY <1>9, <1>10, Zenon
<1>. QED  BY <1>11 DEF N

LEMMA TimesIs ==
    ASSUME NEW arcs, Summable(arcs), NEW c, NEW n \in I!Nodes(arcs)
    PROVE  Times(arcs, c)[n] = Share(arcs, c, Times(arcs, c), n)
<1> DEFINE t == CHOOSE f : f = [m \in I!Nodes(arcs) |-> Share(arcs, c, f, m)]
<1>1. Times(arcs, c) = t
  BY Zenon DEF Times, Share, Out
<1>2. t = [m \in I!Nodes(arcs) |-> Share(arcs, c, t, m)]
  BY TimesExist, Zenon
<1>. HIDE DEF t
<1>3. t[n] = Share(arcs, c, t, n)
  BY <1>2, Zenon
<1>. QED  BY <1>1, <1>3

\* A concept counts once in itself, and not at all in what it is not below.
LEMMA TimesFacts ==
    ASSUME NEW arcs, Summable(arcs), NEW c, NEW n \in I!Nodes(arcs)
    PROVE  /\ Times(arcs, c)[n] \in Int
           /\ n = c => Times(arcs, c)[n] = 1
           /\ c \notin Reach(arcs, n) => Times(arcs, c)[n] = 0
<1> DEFINE N == I!Nodes(arcs)
           t == Times(arcs, c)
           g(m) == [a \in Out(arcs, m) |-> a.weight * t[a.to]]
           C == {m \in N : t[m] \notin Int}
           D == {m \in N : c \notin Reach(arcs, m) /\ t[m] # 0}
<1>1. \A m \in N : t[m] = IF m = c THEN 1 ELSE SumOver(g(m), Out(arcs, m))
  BY TimesIs DEF Share
<1>2. \A m \in N : I!Kids(arcs, m) \subseteq N
  BY ReachFacts
<1>. HIDE DEF t
<1>3. ASSUME NEW m \in N, \A l \in I!Kids(arcs, m) : t[l] \in Int
      PROVE  Numbers(g(m), Out(arcs, m))
  <2>1. IsFiniteSet(Out(arcs, m))
    BY FS_Subset DEF Out, Summable
  <2>2. \A a \in Out(arcs, m) : a.weight \in Int /\ t[a.to] \in Int
    BY <1>3 DEF Out, I!Kids, Summable
  <2>3. \A a \in Out(arcs, m) : g(m)[a] \in Int
    BY <2>2
  <2>. QED  BY <2>1, <2>3 DEF Numbers
<1>4. C = {}
  <2>1. SUFFICES ASSUME C # {} PROVE FALSE
    OBVIOUS
  <2>2. PICK m \in C : I!Kids(arcs, m) \cap C = {}
    BY <2>1 DEF Summable, I!NoCycle
  <2>3. Numbers(g(m), Out(arcs, m))
    BY <1>2, <1>3, <2>2
  <2>. HIDE DEF g
  <2>4. SumOver(g(m), Out(arcs, m)) \in Int
    BY <2>3, SumType
  <2>. QED  BY <1>1, <2>2, <2>4
<1>5. D = {}
  <2>1. SUFFICES ASSUME D # {} PROVE FALSE
    OBVIOUS
  <2>2. PICK m \in D : I!Kids(arcs, m) \cap D = {}
    BY <2>1 DEF Summable, I!NoCycle
  <2>3. m # c
    BY <2>2, ReachFacts
  <2>4. ASSUME NEW l \in I!Kids(arcs, m) PROVE t[l] = 0
    <3>1. l \in N /\ l \in Reach(arcs, m)
      BY <1>2, <2>2, <2>4, ReachFacts DEF Under
    <3>2. c \notin Reach(arcs, l)
      BY <2>2, <3>1, ReachFacts
    <3>. QED  BY <2>2, <2>4, <3>1, <3>2
  <2>5. Numbers(g(m), Out(arcs, m))
    BY <1>3, <2>2, <2>4
  <2>6. ASSUME NEW a \in Out(arcs, m) PROVE g(m)[a] = 0
    <3>1. a.weight \in Int /\ t[a.to] = 0
      BY <2>4 DEF Out, I!Kids, Summable
    <3>. QED  BY <3>1
  <2>. HIDE DEF g
  <2>7. SumOver(g(m), Out(arcs, m)) = SumOver(g(m), {}) /\ SumOver(g(m), {}) = 0
    BY <2>5, <2>6, SumPart, SumType
  <2>. QED  BY <1>1, <2>2, <2>3, <2>7
<1>. QED  BY <1>1, <1>4, <1>5 DEF t

\* What each concept of low counts in n.
Counts(arcs, v, low, n) == [c \in low |-> Times(arcs, c)[n] * v[c]]

LEMMA CountsNumbers ==
    ASSUME NEW arcs, Summable(arcs), NEW low, NEW v, Numbers(v, low), NEW n \in I!Nodes(arcs)
    PROVE  /\ Numbers(Counts(arcs, v, low, n), low)
           /\ SumOver(Counts(arcs, v, low, n), low) \in Int
<1>1. \A c \in low : Times(arcs, c)[n] \in Int /\ v[c] \in Int
  BY TimesFacts DEF Numbers
<1>2. Numbers(Counts(arcs, v, low, n), low)
  BY <1>1 DEF Numbers, Counts
<1>. QED  BY <1>2, SumType

LEMMA WorthIs ==
    ASSUME NEW arcs, Summable(arcs),
           NEW fact, \A c \in DOMAIN fact : fact[c].value \in Value,
           NEW n \in I!Nodes(arcs)
    PROVE  LET low == Lowest(arcs, I!Factful(fact), n)
               worth == Weighted(arcs, fact, n)
               sum == SumOver(Counts(arcs, Amounts(fact), low, n), low)
           IN  /\ Numbers(Amounts(fact), low)
               /\ low = {} => worth = Nil
               /\ low # {} => worth = sum /\ worth # Nil
<1> DEFINE low == Lowest(arcs, I!Factful(fact), n)
           counts == Counts(arcs, Amounts(fact), low, n)
<1>1. Nil \notin Int
  BY ToleranceAssumption
<1>2. IsFiniteSet(low)
  <2>1. low \subseteq I!Nodes(arcs)
    BY ReachFacts DEF Lowest
  <2>. QED  BY <2>1, NodesFinite, FS_Subset DEF Summable
<1>3. \A c \in low : Amounts(fact)[c] = fact[c].value /\ Amounts(fact)[c] \in Int
  BY DEF Lowest, Amounts, I!Factful, Value
<1>4. Numbers(Amounts(fact), low)
  BY <1>2, <1>3 DEF Numbers
<1>5. I!Deepest(arcs, fact, n) = low
  BY DeepestIs DEF Summable
<1>. HIDE DEF low
<1>6. [c \in low |-> Times(arcs, c)[n] * fact[c].value] = counts
  BY <1>3 DEF Counts
<1>. HIDE DEF counts
<1>7. Weighted(arcs, fact, n) = IF low = {} THEN Nil ELSE SumOver(counts, low)
  BY <1>5, <1>6, Zenon DEF Weighted
<1>8. SumOver(counts, low) \in Int
  BY <1>4, CountsNumbers DEF counts
<1>. QED  BY <1>1, <1>4, <1>7, <1>8 DEF low, counts

Evaluates(f, arcs, fact) ==
    f = [n \in I!Nodes(arcs) |->
            LET terms == {a \in arcs : a.from = n /\ f[a.to] # Nil}
            IN  IF terms # {} THEN I!SumOver([a \in terms |-> a.weight * f[a.to]], terms)
                ELSE I!ValueOf(fact, n)]

\* f is what the lowest facts at and below each concept come to.
Lowers(f, arcs, F, v) ==
    \A n \in I!Nodes(arcs) :
        LET low == Lowest(arcs, F, n)
        IN  /\ Numbers(v, low)
            /\ low = {} => f[n] = Nil
            /\ low # {} => f[n] = SumOver(Counts(arcs, v, low, n), low) /\ f[n] # Nil

Terms(arcs, f, n) == {a \in arcs : a.from = n /\ f[a.to] # Nil}

LEMMA ArcFacts ==
    ASSUME NEW arcs, NEW a \in arcs
    PROVE  /\ a.from \in I!Nodes(arcs) /\ a.to \in I!Nodes(arcs)
           /\ a.to \in I!Kids(arcs, a.from)
           /\ Reach(arcs, a.to) \subseteq Under(arcs, a.from)
<1>1. a.from \in I!Nodes(arcs) /\ a.to \in I!Nodes(arcs) /\ a.to \in I!Kids(arcs, a.from)
  BY DEF I!Nodes, I!Kids
<1>. QED  BY <1>1 DEF Under

LEMMA NoTerms ==
    ASSUME NEW arcs, Summable(arcs), NEW F, NEW v, NEW f, Lowers(f, arcs, F, v),
           NEW n \in I!Nodes(arcs), Terms(arcs, f, n) = {}
    PROVE  IF n \in F THEN f[n] = v[n] ELSE f[n] = Nil
<1>1. ASSUME NEW a \in arcs, a.from = n PROVE Reach(arcs, a.to) \cap F = {}
  <2>1. f[a.to] = Nil /\ a.to \in I!Nodes(arcs)
    BY <1>1, ArcFacts DEF Terms
  <2>2. Lowest(arcs, F, a.to) = {}
    BY <2>1 DEF Lowers
  <2>. QED  BY <2>1, <2>2, LowestFacts DEF Summable
<1>2. Under(arcs, n) \cap F = {}
  BY <1>1 DEF Under, I!Kids
<1>3. Lowest(arcs, F, n) = {n} \cap F
  BY <1>2, LowestFacts DEF Summable
<1>4. CASE n \notin F
  <2>1. Lowest(arcs, F, n) = {}
    BY <1>3, <1>4
  <2>. QED  BY <1>4, <2>1 DEF Lowers
<1>5. CASE n \in F
  <2> DEFINE h == Counts(arcs, v, {n}, n)
  <2>1. Lowest(arcs, F, n) = {n}
    BY <1>3, <1>5
  <2>2. Numbers(v, {n}) /\ f[n] = SumOver(h, {n})
    BY <2>1 DEF Lowers
  <2>3. Numbers(h, {n})
    BY <2>2, CountsNumbers
  <2>4. h[n] = Times(arcs, n)[n] * v[n] /\ Times(arcs, n)[n] = 1 /\ v[n] \in Int
    BY <2>2, TimesFacts DEF Counts, Numbers
  <2>. HIDE DEF h
  <2>5. SumOver(h, {n}) = h[n] + SumOver(h, {n} \ {n})
    BY <2>3, SumTakes
  <2>6. {n} \ {n} = {} /\ SumOver(h, {}) = 0
    BY <2>3, SumType
  <2>7. SumOver(h, {n} \ {n}) = 0
    BY <2>6, Zenon
  <2>. QED  BY <1>5, <2>2, <2>4, <2>5, <2>7
<1>. QED  BY <1>4, <1>5

\* A lowest fact below n is one below each child it is below, and below one.
LEMMA LowestBelow ==
    ASSUME NEW arcs, Summable(arcs), NEW F, NEW v, NEW f, Lowers(f, arcs, F, v),
           NEW n \in I!Nodes(arcs), Terms(arcs, f, n) # {}
    PROVE  /\ n \notin Lowest(arcs, F, n) /\ Lowest(arcs, F, n) # {}
           /\ \A a \in Out(arcs, n) :
                  /\ Lowest(arcs, F, a.to) \subseteq Lowest(arcs, F, n)
                  /\ \A c \in Lowest(arcs, F, n) \ Lowest(arcs, F, a.to) : c \notin Reach(arcs, a.to)
                  /\ a \in Terms(arcs, f, n) <=> Lowest(arcs, F, a.to) # {}
<1>1. \A a \in Out(arcs, n) : a \in arcs /\ a.from = n /\ a.to \in I!Nodes(arcs) /\ a.to \in I!Kids(arcs, n)
  BY ArcFacts DEF Out
<1>2. ASSUME NEW a \in Out(arcs, n)
      PROVE  a \in Terms(arcs, f, n) <=> Lowest(arcs, F, a.to) # {}
  BY <1>1, <1>2 DEF Terms, Lowers
<1>3. PICK a0 \in Terms(arcs, f, n) : TRUE
  OBVIOUS
<1>4. a0 \in Out(arcs, n) /\ Lowest(arcs, F, a0.to) # {}
  BY <1>2, <1>3 DEF Terms, Out
<1>5. Under(arcs, n) \cap F # {}
  BY <1>1, <1>4 DEF Lowest, Under
<1>6. Lowest(arcs, F, n) = UNION {Lowest(arcs, F, k) : k \in I!Kids(arcs, n)}
  BY <1>5, LowestFacts DEF Summable
<1>7. ASSUME NEW a \in Out(arcs, n)
      PROVE  /\ Lowest(arcs, F, a.to) \subseteq Lowest(arcs, F, n)
             /\ \A c \in Lowest(arcs, F, n) \ Lowest(arcs, F, a.to) : c \notin Reach(arcs, a.to)
  <2>1. Lowest(arcs, F, a.to) \subseteq Lowest(arcs, F, n)
    BY <1>1, <1>6
  <2>2. \A c \in Lowest(arcs, F, n) \ Lowest(arcs, F, a.to) : c \notin Reach(arcs, a.to)
    BY DEF Lowest
  <2>. QED  BY <2>1, <2>2
<1>8. n \notin Lowest(arcs, F, n)
  BY <1>6, NotBelowItself DEF Lowest, Under, Summable
<1>. QED  BY <1>2, <1>4, <1>7, <1>8

\* The arcs that count come to what the lowest facts come to, taken arc by arc
\* or fact by fact.
LEMMA TermsAdd ==
    ASSUME NEW arcs, Summable(arcs), NEW F, NEW v, NEW f, Lowers(f, arcs, F, v),
           NEW n \in I!Nodes(arcs), NEW U, U = Terms(arcs, f, n), U # {},
           NEW h, h = [a \in U |-> a.weight * f[a.to]]
    PROVE  f[n] = SumOver(h, U)
<1> DEFINE low == Lowest(arcs, F, n)
           row == [a \in U |-> [c \in low |-> a.weight * (Times(arcs, c)[a.to] * v[c])]]
           col == [c \in low |-> [a \in U |-> a.weight * (Times(arcs, c)[a.to] * v[c])]]
           part(c) == [a \in Out(arcs, n) |-> a.weight * Times(arcs, c)[a.to]]
<1>1. \A a \in Out(arcs, n) : a \in arcs /\ a.to \in I!Nodes(arcs) /\ a.weight \in Int
  BY ArcFacts DEF Out, Summable
<1>2. U \subseteq Out(arcs, n) /\ IsFiniteSet(Out(arcs, n)) /\ IsFiniteSet(U)
  BY FS_Subset DEF Terms, Out, Summable
<1>3. Numbers(v, low)
  BY DEF Lowers
<1>4. \A c \in low : v[c] \in Int /\ \A a \in Out(arcs, n) : Times(arcs, c)[a.to] \in Int
  BY <1>1, <1>3, TimesFacts DEF Numbers
<1>5. ASSUME NEW a \in U PROVE h[a] = SumOver(row[a], low)
  <2> DEFINE sub == Lowest(arcs, F, a.to)
             all == Counts(arcs, v, low, a.to)
             few == Counts(arcs, v, sub, a.to)
  <2>1. a.to \in I!Nodes(arcs) /\ a.weight \in Int /\ a \in Out(arcs, n)
    BY <1>1, <1>2
  <2>2. sub \subseteq low /\ sub # {} /\ \A c \in low \ sub : c \notin Reach(arcs, a.to)
    BY <2>1, LowestBelow
  <2>3. Numbers(v, sub) /\ f[a.to] = SumOver(few, sub)
    BY <2>1, <2>2 DEF Lowers
  <2>4. Numbers(all, low) /\ Numbers(few, sub)
    BY <1>3, <2>1, <2>3, CountsNumbers
  <2>5. \A c \in low \ sub : all[c] = 0
    <3>1. \A c \in low \ sub : Times(arcs, c)[a.to] = 0 /\ v[c] \in Int
      BY <1>4, <2>1, <2>2, TimesFacts
    <3>. QED  BY <3>1 DEF Counts
  <2>6. \A c \in sub : all[c] = few[c]
    BY <2>2 DEF Counts
  <2>7. \A c \in low : row[a][c] = a.weight * all[c]
    BY DEF Counts
  <2>8. h[a] = a.weight * f[a.to]
    OBVIOUS
  <2>. HIDE DEF sub, all, few, row, low
  <2>9. SumOver(all, low) = SumOver(all, sub)
    BY <2>2, <2>4, <2>5, SumPart
  <2>10. SumOver(all, sub) = SumOver(few, sub)
    BY <2>4, <2>6, SumSame
  <2>11. PICK r : r = row[a]
    OBVIOUS
  <2>12. \A c \in low : r[c] = a.weight * all[c]
    BY <2>7, <2>11
  <2>13. SumOver(r, low) = a.weight * SumOver(all, low)
    BY <2>1, <2>4, <2>12, SumScales
  <2>. QED  BY <2>3, <2>8, <2>9, <2>10, <2>11, <2>13
<1>6. ASSUME NEW c \in low PROVE Counts(arcs, v, low, n)[c] = SumOver(col[c], U)
  <2> DEFINE t == Times(arcs, c)
             p == part(c)
             q == [a \in Out(arcs, n) |-> v[c] * p[a]]
             k == col[c]
  <2>1. t[n] = SumOver(p, Out(arcs, n))
    <3>1. n # c
      BY LowestBelow
    <3>. QED  BY <3>1, TimesIs DEF Share
  <2>2. \A a \in Out(arcs, n) : t[a.to] \in Int /\ v[c] \in Int /\ p[a] = a.weight * t[a.to]
    BY <1>4
  <2>3. Numbers(p, Out(arcs, n)) /\ v[c] \in Int
    BY <1>1, <1>2, <1>4, <2>2 DEF Numbers
  <2>4. \A a \in Out(arcs, n) \ U : p[a] = 0
    <3>1. ASSUME NEW a \in Out(arcs, n) \ U PROVE t[a.to] = 0
      <4>1. c \notin Lowest(arcs, F, a.to)
        BY <3>1, LowestBelow
      <4>2. c \notin Reach(arcs, a.to)
        BY <3>1, <4>1, LowestBelow
      <4>. QED  BY <1>1, <3>1, <4>2, TimesFacts
    <3>. QED  BY <1>1, <2>2, <3>1
  <2>5. \A a \in U : k[a] = a.weight * (t[a.to] * v[c])
    OBVIOUS
  <2>6. Counts(arcs, v, low, n)[c] = t[n] * v[c]
    BY DEF Counts
  <2>7. t[n] \in Int
    BY TimesFacts
  <2>. HIDE DEF t, p, k, low, part
  <2>8. \A a \in U : k[a] = v[c] * p[a]
    <3>1. ASSUME NEW a \in U PROVE k[a] = v[c] * p[a]
      <4>1. PICK w, x, y : /\ w = a.weight /\ x = t[a.to] /\ y = v[c]
                           /\ w \in Int /\ x \in Int /\ y \in Int
        BY <1>1, <1>2, <2>2
      <4>2. w * (x * y) = y * (w * x)
        BY <4>1
      <4>. QED  BY <1>2, <2>2, <2>5, <4>1, <4>2
    <3>. QED  BY <3>1
  <2>9. SumOver(p, Out(arcs, n)) = SumOver(p, U)
    BY <1>2, <2>3, <2>4, SumPart
  <2>10. Numbers(p, U)
    BY <1>2, <2>3 DEF Numbers
  <2>11. SumOver(k, U) = v[c] * SumOver(p, U)
    BY <2>3, <2>8, <2>10, SumScales
  <2>12. SumOver(k, U) = v[c] * t[n]
    BY <2>1, <2>9, <2>11
  <2>. QED  BY <2>3, <2>6, <2>7, <2>12 DEF k
<1>7. \A a \in U, c \in low : row[a][c] \in Int /\ col[c][a] = row[a][c]
  BY <1>1, <1>2, <1>4
<1>8. low # {} /\ IsFiniteSet(low)
  BY <1>3, LowestBelow DEF Numbers
<1>. HIDE DEF row, col
<1>9. SumOver(h, U) = SumOver(Counts(arcs, v, low, n), low)
  <2>. HIDE DEF low, part
  <2>1. PICK g : g = Counts(arcs, v, low, n)
    OBVIOUS
  <2>2. RowSums(h, row, U, low)
    BY <1>5 DEF RowSums
  <2>3. RowSums(g, col, low, U)
    BY <1>6, <2>1 DEF RowSums
  <2>4. Transposed(row, col, U, low)
    BY <1>7 DEF Transposed
  <2>5. SumOver(h, U) = SumOver(g, low)
    BY <1>2, <1>8, <2>2, <2>3, <2>4, SumSwap
  <2>. QED  BY <2>1, <2>5
<1>. QED  BY <1>8, <1>9 DEF Lowers

Worths(arcs, fact) == [n \in I!Nodes(arcs) |-> Weighted(arcs, fact, n)]

\* The lowest facts' sums satisfy the recursion of the calculation.
LEMMA WorthEvaluates ==
    ASSUME NEW arcs, Summable(arcs),
           NEW fact, \A c \in DOMAIN fact : fact[c].value \in Value
    PROVE  Evaluates(Worths(arcs, fact), arcs, fact)
<1> DEFINE N == I!Nodes(arcs)
           F == I!Factful(fact)
           f == Worths(arcs, fact)
<1>2. \A n \in N : f[n] = Weighted(arcs, fact, n)
  BY DEF Worths
<1>3. f = [n \in N |-> f[n]]
  BY DEF Worths
<1>. HIDE DEF f
<1>4. Lowers(f, arcs, F, Amounts(fact))
  BY <1>2, WorthIs DEF Lowers
<1>5. ASSUME NEW n \in N
      PROVE  f[n] = LET terms == {a \in arcs : a.from = n /\ f[a.to] # Nil}
                    IN  IF terms # {} THEN I!SumOver([a \in terms |-> a.weight * f[a.to]], terms)
                        ELSE I!ValueOf(fact, n)
  <2>1. CASE Terms(arcs, f, n) = {}
    <3>1. IF n \in F THEN f[n] = Amounts(fact)[n] ELSE f[n] = Nil
      <4>. HIDE DEF F
      <4>. QED  BY <1>4, <2>1, NoTerms
    <3>2. f[n] = I!ValueOf(fact, n)
      BY <3>1 DEF Amounts, I!Factful, I!ValueOf
    <3>. QED  BY <2>1, <3>2, Zenon DEF Terms
  <2>2. CASE Terms(arcs, f, n) # {}
    <3> DEFINE U == Terms(arcs, f, n)
               h == [a \in U |-> a.weight * f[a.to]]
    <3>1. f[n] = SumOver(h, U)
      <4>. HIDE DEF F
      <4>. QED  BY <1>4, <2>2, TermsAdd
    <3>2. f[n] = I!SumOver(h, U)
      BY <3>1, SameSum, Zenon
    <3>. QED  BY <2>2, <3>2, Zenon DEF Terms
  <2>. QED  BY <2>1, <2>2
<1>6. f = [n \in N |->
              LET terms == {a \in arcs : a.from = n /\ f[a.to] # Nil}
              IN  IF terms # {} THEN I!SumOver([a \in terms |-> a.weight * f[a.to]], terms)
                  ELSE I!ValueOf(fact, n)]
  BY <1>3, <1>5, Zenon
<1>7. Evaluates(f, arcs, fact)
  BY <1>6, Zenon DEF Evaluates
<1>. QED  BY <1>7 DEF f

\* The calculation has no other solution.
LEMMA EvaluateIs ==
    ASSUME NEW arcs, Summable(arcs),
           NEW fact, \A c \in DOMAIN fact : fact[c].value \in Value,
           NEW n \in I!Nodes(arcs)
    PROVE  I!Evaluate(arcs, fact, n) = Weighted(arcs, fact, n)
<1> DEFINE N == I!Nodes(arcs)
           f == Worths(arcs, fact)
           g == CHOOSE h : Evaluates(h, arcs, fact)
           D == {m \in N : g[m] # f[m]}
<1>1. Evaluates(f, arcs, fact)
  BY WorthEvaluates
<1>2. Evaluates(g, arcs, fact)
  BY <1>1, Zenon
<1>3. I!Evaluate(arcs, fact, n) = g[n]
  BY Zenon DEF I!Evaluate, Evaluates
<1>4. f[n] = Weighted(arcs, fact, n)
  BY DEF Worths
<1>. HIDE DEF f, g
<1>5. D = {}
  <2>1. SUFFICES ASSUME D # {} PROVE FALSE
    OBVIOUS
  <2>2. PICK m \in D : I!Kids(arcs, m) \cap D = {}
    BY <2>1 DEF Summable, I!NoCycle
  <2>3. \A a \in arcs : a.from = m => g[a.to] = f[a.to]
    BY <2>2, ArcFacts
  <2>4. Terms(arcs, g, m) = Terms(arcs, f, m)
    BY <2>3 DEF Terms
  <2>5. [a \in Terms(arcs, g, m) |-> a.weight * g[a.to]]
            = [a \in Terms(arcs, f, m) |-> a.weight * f[a.to]]
    BY <2>3, <2>4 DEF Terms
  <2>6. g[m] = IF Terms(arcs, g, m) # {}
               THEN I!SumOver([a \in Terms(arcs, g, m) |-> a.weight * g[a.to]], Terms(arcs, g, m))
               ELSE I!ValueOf(fact, m)
    BY <1>2, <2>2, Zenon DEF Evaluates, Terms
  <2>7. f[m] = IF Terms(arcs, f, m) # {}
               THEN I!SumOver([a \in Terms(arcs, f, m) |-> a.weight * f[a.to]], Terms(arcs, f, m))
               ELSE I!ValueOf(fact, m)
    BY <1>1, <2>2, Zenon DEF Evaluates, Terms
  <2>8. g[m] = f[m]
    <3> DEFINE U == Terms(arcs, g, m)
               V == Terms(arcs, f, m)
               own == [a \in U |-> a.weight * g[a.to]]
               low == [a \in V |-> a.weight * f[a.to]]
    <3>1. U = V /\ own = low
      BY <2>4, <2>5
    <3>2. g[m] = IF U # {} THEN I!SumOver(own, U) ELSE I!ValueOf(fact, m)
      BY <2>6
    <3>3. f[m] = IF V # {} THEN I!SumOver(low, V) ELSE I!ValueOf(fact, m)
      BY <2>7
    <3>. HIDE DEF U, V, own, low
    <3>. QED  BY <3>1, <3>2, <3>3
  <2>. QED  BY <2>2, <2>8
<1>. QED  BY <1>3, <1>4, <1>5

Candidates(x) == I!Candidates(FactsOf("inventory", x), Calculation, Presentation)

\* A context's total is a candidate of the facts read.
Counted ==
    /\ pc \in {"open", "read"} => inventory = Empty
    /\ \A x \in DOMAIN inventory : inventory[x] # Nil => inventory[x] \in Candidates(x)

LEMMA CandidatesFixed ==
    ASSUME UNCHANGED <<package, bucket>>
    PROVE  \A x : Candidates(x)' = Candidates(x)
<1>1. \A x : FactsOf("inventory", x)' = FactsOf("inventory", x)
  BY Zenon DEF FactsOf, Concepts
<1>2. Calculation' = Calculation /\ Presentation' = Presentation
  BY Zenon DEF Calculation, Presentation
<1>. QED  BY <1>1, <1>2, Zenon DEF Candidates

LEMMA CountedNext == Counted /\ [Next]_vars => Counted'
<1>. SUFFICES ASSUME Counted, [Next]_vars PROVE Counted'
  OBVIOUS
<1>. USE DEF reading, building
<1>1. ASSUME UNCHANGED <<package, bucket, inventory>>,
             pc' \in {"open", "read"} => pc \in {"open", "read"}
      PROVE  Counted'
  BY <1>1, CandidatesFixed, Zenon DEF Counted
<1>2. CASE Total
  <2>1. UNCHANGED <<package, bucket>> /\ pc' = "next"
    BY <1>2 DEF Total
  <2>2. inventory' = [x \in Contexts("inventory") |->
            I!InventoryTotal(FactsOf("inventory", x), Calculation, Presentation)]
    BY <1>2 DEF Total
  <2>3. ASSUME NEW x \in DOMAIN inventory', inventory'[x] # Nil
        PROVE  inventory'[x] \in Candidates(x)
    <3>1. inventory'[x] = IF Candidates(x) = {} THEN Nil ELSE CHOOSE v \in Candidates(x) : TRUE
      BY <2>2, <2>3, Zenon DEF Candidates, I!InventoryTotal
    <3>. QED  BY <2>3, <3>1
  <2>4. \A x : Candidates(x)' = Candidates(x)
    BY <2>1, CandidatesFixed
  <2>. QED  BY <2>1, <2>3, <2>4 DEF Counted
<1>3. CASE Read
  <2>1. pc = "read" /\ inventory' = inventory /\ inventory = Empty
    BY <1>3 DEF Read, Counted
  <2>2. DOMAIN inventory' = {}
    BY <2>1 DEF Empty
  <2>. QED  BY <2>1, <2>2 DEF Counted
<1>4. CASE OpenEmpty \/ OpenFails \/ Open \/ (\E f \in unread : NextDocument(f)) \/ Skip \/ Disagree \/ ReadEnds
  BY <1>1, <1>4 DEF OpenEmpty, OpenFails, Open, NextDocument, Skip, Disagree, ReadEnds, Stop
<1>5. CASE Dedupe \/ DedupeFails \/ DedupeEnds \/ TotalFails \/ NextContext \/ InsertTotal \/ Flag \/ Finish
  BY <1>1, <1>5 DEF Dedupe, DedupeFails, DedupeEnds, TotalFails, NextContext, InsertTotal, Flag, Finish, Stop
<1>6. CASE \E c \in left : InsertConcept(c) \/ InsertFails(c) \/ InsertShares(c) \/ SharesFail(c)
  BY <1>1, <1>6 DEF InsertConcept, InsertFails, InsertShares, SharesFail, Stop
<1>7. CASE Ended \/ UNCHANGED vars
  BY <1>1, <1>7 DEF Ended, vars
<1>. QED  BY <1>2, <1>3, <1>4, <1>5, <1>6, <1>7 DEF Next

LEMMA FactsValued ==
    ASSUME Sourced, NEW x
    PROVE  \A c \in DOMAIN FactsOf("inventory", x) : FactsOf("inventory", x)[c].value \in Value
<1>. SUFFICES ASSUME NEW c \in Concepts("inventory", x)
     PROVE  bucket[Bucket("inventory", x, c)].value \in Value
  BY DEF FactsOf, Bucket
<1>1. Bucket("inventory", x, c) \in DOMAIN bucket
  BY ConceptsStand
<1>2. PICK f \in Reports : Known(f) /\ S!Value(f) = bucket[Bucket("inventory", x, c)].value
  BY <1>1 DEF Sourced
<1>3. f \in Elements(package) /\ package \in Package
  BY <1>2, ReportsStated DEF Sourced
<1>. QED  BY <1>2, <1>3, PackageAssumption DEF Value

LEMMA RolesSummable ==
    ASSUME Sourced, NEW r \in I!Roles(Calculation)
    PROVE  Summable(I!InRole(Calculation, r))
<1> DEFINE At(l) == I!Concept(package.schemas, l)
           Arc(l) == [l EXCEPT !.from = At(@), !.to = At(@)]
           link(n) == [role |-> package.calc[n].role, from |-> package.calc[n].from,
                       to |-> package.calc[n].to, weight |-> package.calc[n].weight, nth |-> n]
           arc == [n \in DOMAIN package.calc |-> Arc(link(n))]
           all == {arc[n] : n \in DOMAIN arc}
<1>1. package.directory /\ Calculation = I!Located(package.schemas, I!Occurrences(package.calc))
  BY DEF Calculation, I!Roles
<1>2. package \in Package
  BY DEF Sourced
<1>3. IsFiniteSet(DOMAIN package.calc)
  <2>1. package.calc \in Seq({package.calc[n] : n \in DOMAIN package.calc})
    BY <1>2, PackageAssumption
  <2>2. Len(package.calc) \in Nat /\ DOMAIN package.calc = 1 .. Len(package.calc)
    BY <2>1
  <2>. QED  BY <2>2, FS_Interval
<1>4. I!Occurrences(package.calc) = {link(n) : n \in DOMAIN package.calc}
  BY DEF I!Occurrences
<1>5. I!Located(package.schemas, I!Occurrences(package.calc))
          \subseteq {Arc(l) : l \in I!Occurrences(package.calc)}
  BY Zenon DEF I!Located
<1>6. \A n \in DOMAIN package.calc : Arc(link(n)).weight = package.calc[n].weight
  OBVIOUS
<1>. HIDE DEF Arc, link
<1>7. Calculation \subseteq all
  BY <1>1, <1>4, <1>5
<1>8. \A n \in DOMAIN package.calc : package.calc[n].weight \in Int
  BY <1>2, PackageAssumption
<1>9. \A a \in Calculation : a.weight \in Int
  BY <1>6, <1>7, <1>8
<1>. HIDE DEF arc
<1>10. IsFiniteSet(all)
  <2>1. DOMAIN arc = DOMAIN package.calc
    BY DEF arc
  <2>2. IsFiniteSet(DOMAIN arc)
    BY <1>3, <2>1
  <2>. QED  BY <2>2, FiniteImage
<1>. HIDE DEF all
<1>11. IsFiniteSet(I!InRole(Calculation, r))
  BY <1>7, <1>10, FS_Subset DEF I!InRole
<1>12. I!NoCycle(I!InRole(Calculation, r))
  BY <1>1, <1>2, LinkbaseAssumption
<1>. QED  BY <1>9, <1>11, <1>12 DEF Summable, I!InRole

\* The sums along the arcs are what the lowest facts come to.
LEMMA LinkedIs ==
    ASSUME Sourced, NEW fact, \A c \in DOMAIN fact : fact[c].value \in Value
    PROVE  I!CalculationCandidates(fact, Calculation) = Linked(fact, Calculation)
<1>1. ASSUME NEW r \in I!Roles(Calculation), NEW n \in I!Roots(I!InRole(Calculation, r))
      PROVE  I!Evaluate(I!InRole(Calculation, r), fact, n)
                 = Weighted(I!InRole(Calculation, r), fact, n)
  <2>1. Summable(I!InRole(Calculation, r))
    BY RolesSummable
  <2>2. n \in I!Nodes(I!InRole(Calculation, r))
    BY DEF I!Roots
  <2>. QED  BY <2>1, <2>2, EvaluateIs
<1>2. UNION {{I!Evaluate(I!InRole(Calculation, r), fact, n) : n \in I!Roots(I!InRole(Calculation, r))} :
                r \in I!Roles(Calculation)}
      = UNION {{Weighted(I!InRole(Calculation, r), fact, n) : n \in I!Roots(I!InRole(Calculation, r))} :
                r \in I!Roles(Calculation)}
  BY <1>1
<1> DEFINE A == UNION {{I!Evaluate(I!InRole(Calculation, r), fact, n) :
                            n \in I!Roots(I!InRole(Calculation, r))} : r \in I!Roles(Calculation)}
           B == UNION {{Weighted(I!InRole(Calculation, r), fact, n) :
                            n \in I!Roots(I!InRole(Calculation, r))} : r \in I!Roles(Calculation)}
<1>3. I!CalculationCandidates(fact, Calculation) = A \ {Nil}
  BY Zenon DEF I!CalculationCandidates
<1>4. Linked(fact, Calculation) = B \ {Nil}
  BY Zenon DEF Linked
<1>. QED  BY <1>2, <1>3, <1>4

\* An inventory total is stated, or else what the facts lowest below a total
\* come to, each as often as arcs lead to it: for any linkbase without a cycle,
\* whatever its shared children, weights and repeated arcs
\* (evaluate_calculation, presentation_sum).
THEOREM InventoriesCountedAsLinked == Spec => []CountedAsLinked
<1>1. Init => Counted
  BY DEF Init, Counted, Empty
<1>2. Sourced /\ Counted => CountedAsLinked
  <2>. SUFFICES ASSUME Sourced, Counted, NEW x \in DOMAIN inventory, inventory[x] # Nil
       PROVE  LET fact == FactsOf("inventory", x)
                  direct == I!DirectCandidates(fact)
                  linked == Linked(fact, Calculation)
              IN  inventory[x] \in IF direct # {} THEN direct
                                   ELSE IF linked # {} THEN linked
                                   ELSE I!PresentationCandidates(fact, Presentation)
    BY Zenon DEF CountedAsLinked
  <2> DEFINE fact == FactsOf("inventory", x)
  <2>1. inventory[x] \in I!Candidates(fact, Calculation, Presentation)
    BY DEF Counted, Candidates
  <2>2. \A c \in DOMAIN fact : fact[c].value \in Value
    BY FactsValued
  <2>. HIDE DEF fact
  <2>3. I!CalculationCandidates(fact, Calculation) = Linked(fact, Calculation)
    BY <2>2, LinkedIs
  <2>. QED  BY <2>1, <2>3, Zenon DEF I!Candidates, fact
<1>. QED  BY <1>1, <1>2, CountedNext, AlwaysSourced, PTL DEF Spec
=============================================================================
