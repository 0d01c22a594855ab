----------------------- MODULE ReportSelectionProofs -----------------------
(***************************************************************************)
(* The selection loop is right for any documents, however many, in every   *)
(* order in which EDINET may list them.                                    *)
(***************************************************************************)
EXTENDS ReportSelection, TLAPS

\* What Newer compares.
Numbered(d) == d.id \in Nat \ {NoDoc} /\ d.submitted \in Nat /\ d.correction \in BOOLEAN

\* EDINET gives each document an id of its own.
Listing ==
    /\ \A d \in listed : Numbered(d) /\ d.submitted \in Time
    /\ \A d, e \in listed : d.id = e.id => d = e
    /\ withdrawn \subseteq listed
    /\ rest \subseteq Active

\* SamePeriod is an equivalence, Newer a strict order that is total on
\* documents of different ids.
LEMMA SamePeriodEquivalence ==
    ASSUME NEW d, NEW e, NEW f, SamePeriod(d, e)
    PROVE  SamePeriod(e, d) /\ (SamePeriod(e, f) => SamePeriod(d, f))
BY DEF SamePeriod

LEMMA NewerOrder ==
    ASSUME NEW d, NEW e, NEW f, Numbered(d), Numbered(e), Numbered(f)
    PROVE  /\ Newer(d, e) => ~Newer(e, d)
           /\ Newer(d, e) /\ Newer(e, f) => Newer(d, f)
           /\ d.id # e.id => Newer(d, e) \/ Newer(e, d)
BY DEF Numbered, Newer

(***************************************************************************)
(* The inductive invariant: of the documents the loop has seen, selected   *)
(* has one per period, and for each one that is as new.                    *)
(***************************************************************************)
Seen == Remaining(Active) \ rest

AsNew(f, e) == SamePeriod(e, f) /\ (f = e \/ Newer(f, e))

Selecting ==
    /\ Listing
    /\ selected \subseteq Seen
    /\ \A f, g \in selected : SamePeriod(f, g) => f = g
    /\ \A e \in Seen : \E f \in selected : AsNew(f, e)

\* The loop keeps it over each document, passed over, placed or turned down.
LEMMA SelectingInvariant == Spec => []Selecting
<1>1. Init => Selecting
  <2> SUFFICES ASSUME Init PROVE Selecting
    OBVIOUS
  <2>1. PICK docs \in [Id -> [period : Period \cup {NoPeriod}, submitted : Time,
                              correction : BOOLEAN, parent : Id \cup {NoDoc}]] :
            listed = {[id |-> i, ticker |-> 1, period |-> docs[i].period,
                       submitted |-> docs[i].submitted, correction |-> docs[i].correction,
                       parent |-> docs[i].parent] : i \in Id}
    BY DEF Init
  <2>2. \A d \in listed : \E i \in Id :
            /\ d.id = i /\ d.submitted = docs[i].submitted /\ d.correction = docs[i].correction
            /\ d = [id |-> i, ticker |-> 1, period |-> docs[i].period,
                    submitted |-> docs[i].submitted, correction |-> docs[i].correction,
                    parent |-> docs[i].parent]
    BY <2>1
  <2>3. Listing
    <3>1. ASSUME NEW d \in listed
          PROVE  Numbered(d) /\ d.submitted \in Time
      <4>1. PICK i \in Id : /\ d.id = i /\ d.submitted = docs[i].submitted
                            /\ d.correction = docs[i].correction
        BY <2>2
      <4>2. docs[i].submitted \in Time /\ docs[i].correction \in BOOLEAN
        BY <2>1
      <4>. QED  BY <4>1, <4>2, NumberAssumption DEF Numbered
    <3>2. ASSUME NEW d \in listed, NEW e \in listed, d.id = e.id
          PROVE  d = e
      BY <2>2, <3>2
    <3>. QED  BY <3>1, <3>2 DEF Init, Listing, Active
  <2>4. Seen = {} /\ selected = {}
    BY DEF Init, Seen, Remaining, Active
  <2>. QED  BY <2>3, <2>4 DEF Selecting
<1>2. Selecting /\ [Next]_vars => Selecting'
  <2> SUFFICES ASSUME Selecting, [Next]_vars PROVE Selecting'
    OBVIOUS
  <2>1. ASSUME NEW d \in rest, PassOver(d)
        PROVE  Selecting'
    <3>1. Seen' = Seen
      BY <2>1 DEF PassOver, Seen, Remaining, Active
    <3>2. Listing'
      BY <2>1 DEF PassOver, Selecting, Listing, Active
    <3>. QED  BY <2>1, <3>1, <3>2 DEF PassOver, Selecting
  <2>2. ASSUME NEW d \in rest, Place(d)
        PROVE  Selecting'
    <3>1. Listing'
      BY <2>2 DEF Place, Selecting, Listing, Active
    <3>2. d \in Active /\ d \notin Seen /\ d \notin selected
      BY DEF Selecting, Listing, Seen
    <3>3. Seen' = Seen \cup {d}
      BY <2>2, <3>2 DEF Place, Seen, Remaining, Active
    <3>4. /\ \A e \in Seen : Numbered(e) /\ e.id # d.id
          /\ Numbered(d)
      BY <3>2 DEF Selecting, Listing, Seen, Remaining, Active
    <3>5. CASE \A e \in Rivals(d) : Newer(d, e)
      <4>1. selected' = (selected \ Rivals(d)) \cup {d}
        BY <2>2, <3>5 DEF Place
      <4>2. \A f, g \in selected' : SamePeriod(f, g) => f = g
        BY <4>1, SamePeriodEquivalence DEF Selecting, Rivals
      <4>3. AsNew(d, d)
        BY DEF AsNew, SamePeriod
      <4>4. ASSUME NEW e \in Seen
            PROVE  \E f \in selected' : AsNew(f, e)
        <5>1. PICK f \in selected : AsNew(f, e)
          BY DEF Selecting
        <5>2. CASE f \notin Rivals(d)
          BY <4>1, <5>1, <5>2
        <5>3. CASE f \in Rivals(d)
          <6>1. Newer(d, f) /\ SamePeriod(d, f) /\ f \in Seen
            BY <3>5, <5>3 DEF Rivals, Selecting
          <6>2. SamePeriod(e, d)
            BY <5>1, <6>1, SamePeriodEquivalence DEF AsNew
          <6>3. Newer(d, e)
            BY <3>4, <5>1, <6>1, NewerOrder DEF AsNew
          <6>. QED  BY <4>1, <6>2, <6>3 DEF AsNew
        <5>. QED  BY <5>2, <5>3
      <4>5. selected' \subseteq Seen'
        BY <3>3, <4>1 DEF Selecting
      <4>. QED  BY <3>1, <3>3, <4>1, <4>2, <4>3, <4>4, <4>5 DEF Selecting
    <3>6. CASE ~(\A e \in Rivals(d) : Newer(d, e))
      <4>1. selected' = selected
        BY <2>2, <3>6 DEF Place
      <4>2. PICK g \in selected : SamePeriod(d, g) /\ ~Newer(d, g)
        BY <3>6 DEF Rivals
      <4>3. AsNew(g, d)
        BY <3>4, <4>2, NewerOrder DEF AsNew, Selecting
      <4>4. selected \subseteq Seen'
        BY <3>3 DEF Selecting
      <4>. QED  BY <3>1, <3>3, <4>1, <4>3, <4>4 DEF Selecting
    <3>. QED  BY <3>5, <3>6
  <2>3. CASE UNCHANGED vars
    BY <2>3 DEF vars, Selecting, Listing, Seen, Remaining, Active
  <2>. QED  BY <2>1, <2>2, <2>3 DEF Next, Done
<1>. QED  BY <1>1, <1>2, PTL DEF Spec
-----------------------------------------------------------------------------
\* Whatever the order of the listing, the loop ends with the declarative
\* selection: one document per period, the newest that no correction replaces.
THEOREM SelectionCorrect == Spec => []OrderIndependent
<1>1. Selecting => OrderIndependent
  <2> SUFFICES ASSUME Selecting, rest = {} PROVE selected = Effective(Active)
    BY DEF OrderIndependent
  <2>1. Seen = Remaining(Active)
    BY DEF Seen
  <2>2. \A d \in Seen : Numbered(d)
    BY DEF Selecting, Listing, Seen, Remaining, Active
  <2>3. ASSUME NEW f \in selected, NEW e \in Remaining(Active), SamePeriod(f, e), e # f
        PROVE  Newer(f, e)
    <3>1. PICK g \in selected : AsNew(g, e)
      BY <2>1 DEF Selecting
    <3>2. SamePeriod(f, g)
      BY <2>3, <3>1, SamePeriodEquivalence DEF AsNew
    <3>3. f = g
      BY <3>2 DEF Selecting
    <3>. QED  BY <2>3, <3>1, <3>3 DEF AsNew
  <2>4. ASSUME NEW d \in Effective(Active)
        PROVE  d \in selected
    <3>1. d \in Seen /\ d \in Remaining(Active)
      BY <2>1 DEF Effective
    <3>2. PICK f \in selected : AsNew(f, d)
      BY <3>1 DEF Selecting
    <3>3. f \in Seen /\ f \in Remaining(Active)
      BY <2>1 DEF Selecting
    <3>4. f # d => Newer(d, f) /\ Newer(f, d)
      BY <3>2, <3>3 DEF AsNew, Effective
    <3>. QED  BY <2>2, <3>1, <3>2, <3>3, <3>4, NewerOrder
  <2>5. selected \subseteq Remaining(Active)
    BY <2>1 DEF Selecting
  <2>. QED  BY <2>3, <2>4, <2>5 DEF Effective
<1>. QED  BY <1>1, SelectingInvariant, PTL

\* If every correction is submitted after what it corrects and for the same
\* period, no period with an active document is left without a report.
THEOREM PeriodsCovered == Spec => []NoPeriodLost
<1>1. Selecting => NoPeriodLost
  <2> SUFFICES ASSUME Selecting, rest = {}, Orderly, NEW d \in Active
               PROVE  \E e \in selected : e.period = d.period
    BY DEF NoPeriodLost
  <2>. DEFINE Times == {x.submitted : x \in {y \in Active : y.period = d.period}}
  <2>1. Listing /\ Active \subseteq listed
    BY DEF Selecting, Active
  <2>2. Times \subseteq Time /\ d.submitted \in Times
    BY <2>1 DEF Listing
  <2>3. PICK t \in Times : \A u \in Times : u <= t
    BY <2>2, LatestAssumption
  <2>4. PICK x \in Active : x.period = d.period /\ x.submitted = t
    OBVIOUS
  <2>5. x \in Remaining(Active)
    <3>1. SUFFICES ASSUME NEW c \in Active, c.correction, c.parent = x.id PROVE FALSE
      BY DEF Remaining, Superseded
    <3>2. PICK e \in listed :
            e.id = c.parent /\ e.submitted < c.submitted /\ e.period = c.period
      BY <3>1 DEF Orderly
    <3>3. e = x
      BY <2>1, <3>1, <3>2 DEF Listing
    <3>4. c.submitted \in Times /\ c.submitted \in Nat /\ x.submitted \in Nat
      BY <2>1, <2>4, <3>2, <3>3 DEF Listing, Numbered
    <3>. QED  BY <2>3, <2>4, <3>2, <3>3, <3>4
  <2>6. PICK f \in selected : AsNew(f, x)
    BY <2>5 DEF Selecting, Seen
  <2>. QED  BY <2>4, <2>6 DEF AsNew, SamePeriod
<1>. QED  BY <1>1, SelectingInvariant, PTL
=============================================================================
