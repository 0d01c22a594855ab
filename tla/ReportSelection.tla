-------------------------- MODULE ReportSelection --------------------------
(***************************************************************************)
(* The discovery of rust/src/edinet/historical.rs as it runs: documents    *)
(* are listed in some order, withdrawn and superseded ones are dropped,    *)
(* and a loop keeps one document per ticker and period.                    *)
(***************************************************************************)
EXTENDS EffectiveReports, FiniteSets

CONSTANTS
    Id,        \* doc ids
    Period,    \* period ends
    Time       \* submission times

ASSUME NumberAssumption == Id \subseteq Nat \ {NoDoc} /\ Time \subseteq Nat

\* Of any documents one was submitted last: there are finitely many.
ASSUME LatestAssumption ==
    \A T \in SUBSET Time : T # {} => \E t \in T : \A u \in T : u <= t

VARIABLES
    listed,    \* every document of the date range
    withdrawn, \* those with withdrawalStatus 1
    rest,      \* documents the loop has not reached
    selected   \* selected_by_period

vars == <<listed, withdrawn, rest, selected>>

Active == listed \ withdrawn

Init ==
    /\ \E docs \in [Id -> [period : Period \cup {NoPeriod}, submitted : Time, correction : BOOLEAN,
                           parent : Id \cup {NoDoc}]] :
        /\ \A i \in Id : docs[i].correction \/ docs[i].parent = NoDoc
        /\ listed = {[id |-> i, ticker |-> 1, period |-> docs[i].period,
                      submitted |-> docs[i].submitted, correction |-> docs[i].correction,
                      parent |-> docs[i].parent] : i \in Id}
    /\ withdrawn \in SUBSET listed
    /\ rest = listed \ withdrawn
    /\ selected = {}

\* A superseded document is passed over.
PassOver(d) ==
    /\ d \in rest
    /\ d.id \in Superseded(Active)
    /\ rest' = rest \ {d}
    /\ UNCHANGED <<listed, withdrawn, selected>>

Rivals(d) == {e \in selected : SamePeriod(d, e)}

KeepFirst(d) ==
    /\ d \in rest
    /\ d.id \notin Superseded(Active)
    /\ selected' = IF Rivals(d) = {} THEN selected \cup {d} ELSE selected
    /\ rest' = rest \ {d}
    /\ UNCHANGED <<listed, withdrawn>>

Place(d) ==
    /\ d \in rest
    /\ d.id \notin Superseded(Active)
    /\ selected' = IF \A e \in Rivals(d) : Newer(d, e)
                   THEN (selected \ Rivals(d)) \cup {d}
                   ELSE selected
    /\ rest' = rest \ {d}
    /\ UNCHANGED <<listed, withdrawn>>

Done == rest = {} /\ UNCHANGED vars

Next == (\E d \in rest : PassOver(d) \/ Place(d)) \/ Done

Spec == Init /\ [][Next]_vars
-----------------------------------------------------------------------------
\* The reports selected do not depend on the order in which EDINET lists
\* documents: the loop ends with the declarative Effective.
OrderIndependent == rest = {} => selected = Effective(Active)

\* Corrections come after what they correct and for the same period.
Orderly ==
    \A c \in Active : c.correction => \E d \in listed :
        d.id = c.parent /\ d.submitted < c.submitted /\ d.period = c.period

\* If corrections are orderly, no period that has an active document is left
\* without a report, however corrections chain and whichever are withdrawn.
NoPeriodLost ==
    rest = {} /\ Orderly => \A d \in Active : \E e \in selected : e.period = d.period
=============================================================================
