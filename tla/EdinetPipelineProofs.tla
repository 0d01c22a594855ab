------------------------ MODULE EdinetPipelineProofs ------------------------
(***************************************************************************)
(* Proofs about the EDINET pipeline, for any filings and stocks: first for *)
(* any number of overlapping commands with every option, then for commands *)
(* that run one at a time, and last for these with default options.        *)
(***************************************************************************)
EXTENDS EdinetPipeline, TLAPS

\* select_effective_reports keeps at most one document per ticker and period.
THEOREM OnePerPeriod ==
    ASSUME NEW C, C \subseteq Filing,
           NEW d \in Effective(C), NEW e \in Effective(C), SamePeriod(d, e)
    PROVE  d = e
<1>1. d \in Filing /\ e \in Filing /\ SamePeriod(e, d)
  BY DEF Effective, Remaining, SamePeriod
<1>2. /\ d.submitted \in Int /\ e.submitted \in Int
      /\ d.id \in Int /\ e.id \in Int
      /\ d.correction \in BOOLEAN /\ e.correction \in BOOLEAN
  BY <1>1, FilingAssumption DEF Document, Day
<1>3. SUFFICES ASSUME d # e PROVE FALSE
  OBVIOUS
<1>4. Newer(d, e) /\ Newer(e, d)
  BY <1>1, <1>3 DEF Effective
<1>. QED  BY <1>2, <1>4 DEF Newer

\* A command that installs or records a package has a document in hand.
DocInHand == \A p \in Run : pc[p] \in {"install", "stamp", "record"} => doc[p] \in Id

\* Fiscal years are numbers.
LEMMA YearType == \A d \in Filing : YearOf(d) \in Nat
<1>. SUFFICES ASSUME NEW d \in Filing PROVE YearOf(d) \in Nat
  OBVIOUS
<1>1. d.period \in Nat
  BY FilingAssumption DEF Document, NoPeriod
<1>2. d.period \div 100 \in Nat
  BY <1>1
<1>. QED  BY <1>2 DEF YearOf, UnknownYear

\* The tables, directories and locals keep their types.
THEOREM TypeCorrect == Spec => [](TypeOK /\ DocInHand)
<1>. USE FilingAssumption DEF TypeOK, DocInHand, Ended, Active, Downloading, Day, Stamp
<1>1. Init => TypeOK /\ DocInHand
  BY DEF Init, Row, NoDoc, UnknownYear
<1>2. TypeOK /\ DocInHand /\ [Next]_vars => TypeOK' /\ DocInHand'
  <2> SUFFICES ASSUME TypeOK, DocInHand, [Next]_vars PROVE TypeOK' /\ DocInHand'
    OBVIOUS
  <2>. USE DEF edinet, store, scrape, fetch, parse
  <2>1. CASE World
    <3>1. CASE NextDay
      BY <3>1 DEF NextDay
    <3>2. ASSUME NEW d \in Filing, File(d)
          PROVE  TypeOK' /\ DocInHand'
      BY <3>2 DEF File, Id
    <3>3. ASSUME NEW i \in Id, Withdraw(i)
          PROVE  TypeOK' /\ DocInHand'
      BY <3>3 DEF Withdraw
    <3>. QED  BY <2>1, <3>1, <3>2, <3>3 DEF World
  <2>2. ASSUME NEW p \in Run, BeginScrape(p)
        PROVE  TypeOK' /\ DocInHand'
    <3>1. {r.doc : r \in rows} \subseteq Id
      BY DEF Row
    <3>. QED  BY <2>2, <3>1 DEF BeginScrape
  <2>3. ASSUME NEW p \in Run, ScanDay(p)
        PROVE  TypeOK' /\ DocInHand'
    BY <2>3 DEF ScanDay, OnList
  <2>4. ASSUME NEW p \in Run, Choose(p)
        PROVE  TypeOK' /\ DocInHand'
    <3>1. Effective(found[p]) \subseteq Filing
      BY DEF Effective, Remaining
    <3>. QED  BY <2>4, <3>1 DEF Choose
  <2>5. ASSUME NEW p \in Run, BeginSingle(p)
        PROVE  TypeOK' /\ DocInHand'
    BY <2>5 DEF BeginSingle, LatestYear
  <2>6. ASSUME NEW p \in Run, MoveAside(p)
        PROVE  TypeOK' /\ DocInHand'
    <3>1. PICK d \in todo[p] :
            /\ doc' = [doc EXCEPT ![p] = d.id]
            /\ had' = [had EXCEPT ![p] = d.id \in package]
            /\ package' = package \ {d.id}
            /\ year' = [year EXCEPT ![p] = IF @ = LatestYear THEN @ ELSE YearOf(d)]
            /\ todo' = [todo EXCEPT ![p] = @ \ {d}]
      BY <2>6 DEF MoveAside
    <3>2. d \in Filing /\ d.id \in Id /\ YearOf(d) \in Nat
      BY YearType DEF Id
    <3>. QED  BY <2>6, <3>1, <3>2 DEF MoveAside
  <2>7. ASSUME NEW p \in Run, Install(p) \/ InstallFails(p)
        PROVE  TypeOK' /\ DocInHand'
    <3>1. CASE Install(p)
      BY <3>1 DEF Install
    <3>2. CASE InstallFails(p)
      BY <3>2 DEF InstallFails
    <3>. QED  BY <2>7, <3>1, <3>2
  <2>8. ASSUME NEW p \in Run, ReadClock(p) \/ EndDownloads(p) \/ DownloadFails(p)
        PROVE  TypeOK' /\ DocInHand'
    <3>1. CASE ReadClock(p)
      BY <3>1 DEF ReadClock, UnknownYear
    <3>2. CASE EndDownloads(p)
      BY <3>2 DEF EndDownloads, UnknownYear
    <3>3. CASE DownloadFails(p)
      BY <3>3 DEF DownloadFails, UnknownYear
    <3>. QED  BY <2>8, <3>1, <3>2, <3>3
  <2>9. ASSUME NEW p \in Run, Record(p) \/ RecordFails(p)
        PROVE  TypeOK' /\ DocInHand'
    <3>1. CASE Record(p)
      BY <3>1 DEF Record, Row
    <3>2. CASE RecordFails(p)
      BY <3>2 DEF RecordFails, Row
    <3>. QED  BY <2>9, <3>1, <3>2
  <2>10. ASSUME NEW p \in Run, BeginParse(p) \/ SkipExisting(p)
         PROVE  TypeOK' /\ DocInHand'
    <3>1. CASE BeginParse(p)
      BY <3>1 DEF BeginParse
    <3>2. CASE SkipExisting(p)
      BY <3>2 DEF SkipExisting
    <3>. QED  BY <2>10, <3>1, <3>2
  <2>11. ASSUME NEW p \in Run, ParseBatch(p) \/ EndParse(p)
         PROVE  TypeOK' /\ DocInHand'
    <3>1. CASE ParseBatch(p)
      BY <3>1 DEF ParseBatch
    <3>2. CASE EndParse(p)
      BY <3>2 DEF EndParse
    <3>. QED  BY <2>11, <3>1, <3>2
  <2>12. ASSUME NEW p \in Run, WriteBatch(p)
         PROVE  TypeOK' /\ DocInHand'
    <3>1. now \in Stamp /\ now' \in Stamp
      BY <2>12 DEF WriteBatch
    <3>4. \A t \in Ticker : StampOf(p, t) \in Stamp
      BY <3>1 DEF StampOf
    <3>2. ASSUME NEW t \in Ticker
          PROVE  Merged(p, t) \subseteq Row /\ Standing(Merged(p, t)) \subseteq Row
      BY DEF Merged, RowsOf, Standing
    <3>3. facts' \in [Ticker -> [merged : SUBSET Row, standing : SUBSET Row, at : Stamp]]
      BY <2>12, <3>1, <3>2, <3>4 DEF WriteBatch
    <3>. QED  BY <2>12, <3>1, <3>3 DEF WriteBatch
  <2>13. ASSUME NEW p \in Run, ParseFails(p) \/ CommandFails(p) \/ Kill(p)
         PROVE  TypeOK' /\ DocInHand'
    <3>1. CASE ParseFails(p)
      BY <3>1 DEF ParseFails, Abort, UnknownYear
    <3>2. CASE CommandFails(p)
      BY <3>2 DEF CommandFails, Abort, UnknownYear
    <3>3. CASE Kill(p)
      BY <3>3 DEF Kill, Abort, UnknownYear
    <3>. QED  BY <2>13, <3>1, <3>2, <3>3
  <2>14. CASE UNCHANGED vars
    BY <2>14 DEF vars
  <2>. QED
    BY <2>1, <2>2, <2>3, <2>4, <2>5, <2>6, <2>7, <2>8, <2>9, <2>10, <2>11, <2>12, <2>13, <2>14
       DEF Next, Progress, Fault
<1>. QED  BY <1>1, <1>2, PTL DEF Spec
-----------------------------------------------------------------------------
\* A package that is recorded, or that a command is about to record.
Needed == {r.doc : r \in rows} \cup {doc[p] : p \in {q \in Run : pc[q] \in {"stamp", "record"}}}

\* Command p has moved the package of i aside and not yet put one back.
Swapping(p, i) == pc[p] = "install" /\ had[p] /\ doc[p] = i

Kept(i) == i \in package \cup torn \/ \E p \in Run : Swapping(p, i)

\* Between installing and recording, a command relies on its package as much as
\* a recorded row does: without this, Record could add a row whose package
\* another command had taken.
AllKept == \A i \in Needed : Kept(i)

\* A step of p that leaves the directories, p's place in a download and the
\* rows alone leaves AllKept alone.
LEMMA ElsewhereKept ==
    ASSUME TypeOK, AllKept, NEW p \in Run,
           UNCHANGED <<rows, package, torn>>,
           UNCHANGED doc,
           \A q \in Run : q # p => pc'[q] = pc[q] /\ had'[q] = had[q],
           pc[p] # "install", pc'[p] \notin {"stamp", "record"}
    PROVE  AllKept'
<1>. SUFFICES ASSUME NEW i \in Needed' PROVE Kept(i)'
  BY DEF AllKept
<1>1. i \in Needed
  BY DEF Needed
<1>2. Kept(i)
  BY <1>1 DEF AllKept
<1>. QED  BY <1>2 DEF Kept, Swapping

\* No recorded package goes missing unless a command replaces it, died over it
\* or could not move it back.
THEOREM PackagesKept == Spec => []PackageKept
<1>1. Init => AllKept
  BY DEF Init, AllKept, Needed
<1>2. TypeOK /\ AllKept /\ [Next]_vars => AllKept'
  <2> SUFFICES ASSUME TypeOK, AllKept, [Next]_vars PROVE AllKept'
    OBVIOUS
  <2>. USE DEF TypeOK
  <2>1. CASE World \/ UNCHANGED vars
    <3>1. UNCHANGED <<rows, package, torn, doc, pc, had>>
      BY <2>1 DEF World, NextDay, File, Withdraw, vars, store, fetch
    <3>2. Needed' = Needed
      BY <3>1 DEF Needed
    <3>3. \A i : Kept(i)' <=> Kept(i)
      BY <3>1 DEF Kept, Swapping
    <3>. QED  BY <3>2, <3>3 DEF AllKept
  <2>2. ASSUME NEW p \in Run,
               \/ BeginScrape(p) \/ ScanDay(p) \/ Choose(p) \/ BeginSingle(p)
               \/ DownloadFails(p) \/ EndDownloads(p) \/ RecordFails(p)
        PROVE  AllKept'
    <3>1. /\ UNCHANGED <<rows, package, torn, doc>>
          /\ \A q \in Run : q # p => pc'[q] = pc[q] /\ had'[q] = had[q]
          /\ pc[p] # "install" /\ pc'[p] \notin {"stamp", "record"}
      BY <2>2 DEF BeginScrape, ScanDay, Choose, BeginSingle, DownloadFails, EndDownloads,
                  RecordFails, store, fetch, Ended
    <3>. QED  BY <3>1, ElsewhereKept
  <2>3. ASSUME NEW p \in Run,
               \/ BeginParse(p) \/ SkipExisting(p) \/ ParseBatch(p) \/ ParseFails(p)
               \/ WriteBatch(p) \/ EndParse(p) \/ CommandFails(p)
        PROVE  AllKept'
    <3>1. /\ UNCHANGED <<rows, package, torn, doc>>
          /\ \A q \in Run : q # p => pc'[q] = pc[q] /\ had'[q] = had[q]
          /\ pc[p] # "install" /\ pc'[p] \notin {"stamp", "record"}
      BY <2>3 DEF BeginParse, SkipExisting, ParseBatch, ParseFails, WriteBatch, EndParse,
                  CommandFails, Abort, store, fetch, Ended
    <3>. QED  BY <3>1, ElsewhereKept
  <2>4. ASSUME NEW p \in Run, MoveAside(p)
        PROVE  AllKept'
    <3>1. PICK d \in todo[p] :
            /\ doc' = [doc EXCEPT ![p] = d.id]
            /\ had' = [had EXCEPT ![p] = d.id \in package]
            /\ package' = package \ {d.id}
      BY <2>4 DEF MoveAside
    <3>2. pc[p] = "fetch" /\ pc' = [pc EXCEPT ![p] = "install"] /\ UNCHANGED <<rows, torn>>
      BY <2>4 DEF MoveAside
    <3>3. Needed' \subseteq Needed
      BY <3>1, <3>2 DEF Needed
    <3>4. ASSUME NEW i, Kept(i)
          PROVE  Kept(i)'
      <4>1. CASE i \in torn \/ (i \in package /\ i # d.id)
        BY <3>1, <3>2, <4>1 DEF Kept
      <4>2. CASE i \in package /\ i = d.id
        <5>1. Swapping(p, i)'
          BY <3>1, <3>2, <4>2 DEF Swapping
        <5>. QED  BY <5>1 DEF Kept
      <4>3. ASSUME NEW q \in Run, Swapping(q, i)
            PROVE  Kept(i)'
        <5>1. q # p
          BY <3>2, <4>3 DEF Swapping
        <5>2. Swapping(q, i)'
          BY <3>1, <3>2, <4>3, <5>1 DEF Swapping
        <5>. QED  BY <5>2 DEF Kept
      <4>. QED  BY <3>4, <4>1, <4>2, <4>3 DEF Kept
    <3>. QED  BY <3>3, <3>4 DEF AllKept
  <2>5. ASSUME NEW p \in Run, Install(p)
        PROVE  AllKept'
    <3>1. /\ pc[p] = "install" /\ pc' = [pc EXCEPT ![p] = "stamp"]
          /\ package' = package \cup {doc[p]} /\ torn' = torn \ {doc[p]}
          /\ had' = [had EXCEPT ![p] = FALSE] /\ UNCHANGED <<rows, doc>>
      BY <2>5 DEF Install
    <3>2. Needed' \subseteq Needed \cup {doc[p]}
      BY <3>1 DEF Needed
    <3>3. ASSUME NEW i, Kept(i), i # doc[p]
          PROVE  Kept(i)'
      BY <3>1, <3>3 DEF Kept, Swapping
    <3>. SUFFICES ASSUME NEW i \in Needed'
                  PROVE  Kept(i)'
      BY DEF AllKept
    <3>4. CASE i = doc[p]
      BY <3>1, <3>4 DEF Kept
    <3>5. CASE i # doc[p]
      <4>1. Kept(i)
        BY <3>2, <3>5 DEF AllKept
      <4>. QED  BY <3>3, <3>5, <4>1
    <3>. QED  BY <3>4, <3>5
  <2>6. ASSUME NEW p \in Run, InstallFails(p) \/ Kill(p)
        PROVE  AllKept'
    <3>1. /\ UNCHANGED <<rows, doc>>
          /\ package \subseteq package' /\ torn \subseteq torn'
          /\ \A q \in Run : q # p => pc'[q] = pc[q] /\ had'[q] = had[q]
          /\ pc'[p] \notin {"stamp", "record", "install"}
      BY <2>6 DEF InstallFails, Kill, Abort, store
    <3>2. pc[p] = "install" /\ had[p] => doc[p] \in package' \cup torn'
      <4>1. CASE InstallFails(p)
        BY <4>1 DEF InstallFails
      <4>2. CASE Kill(p)
        BY <4>2 DEF Kill, Abort, store
      <4>. QED  BY <2>6, <4>1, <4>2
    <3>3. Needed' \subseteq Needed
      BY <3>1 DEF Needed
    <3>4. ASSUME NEW i, Kept(i)
          PROVE  Kept(i)'
      BY <3>1, <3>2, <3>4 DEF Kept, Swapping
    <3>. QED  BY <3>3, <3>4 DEF AllKept
  <2>7. ASSUME NEW p \in Run, ReadClock(p) \/ Record(p)
        PROVE  AllKept'
    <3>1. /\ pc[p] \in {"stamp", "record"} /\ pc'[p] # "install"
          /\ \A q \in Run : q # p => pc'[q] = pc[q]
          /\ UNCHANGED <<package, torn, doc, had>>
          /\ \A r \in rows' : r \in rows \/ r.doc = doc[p]
      BY <2>7 DEF ReadClock, Record, RowOf, store, fetch
    <3>2. Needed' \subseteq Needed
      BY <3>1 DEF Needed
    <3>3. \A i : Kept(i) => Kept(i)'
      BY <3>1 DEF Kept, Swapping
    <3>. QED  BY <3>2, <3>3 DEF AllKept
  <2>. QED
    BY <2>1, <2>2, <2>3, <2>4, <2>5, <2>6, <2>7 DEF Next, Progress, Fault
<1>3. AllKept => PackageKept
  BY DEF AllKept, Needed, Kept, Swapping, PackageKept
<1>4. Spec => []TypeOK
  BY TypeCorrect, PTL
<1>. QED  BY <1>1, <1>2, <1>3, <1>4, PTL DEF Spec
-----------------------------------------------------------------------------
(***************************************************************************)
(* One command at a time.  With overlapping commands a parse may hold      *)
(* reports that another one has replaced, and its stamp may be older than  *)
(* theirs: NoStaleSkip is then false.                                      *)
(***************************************************************************)
OneCommand == \A p, q \in Run : p = q

Parsing == {"load", "parse", "write"}

\* The clock is past all that is stamped, so that what is recorded after a
\* ticker was written has a later stamp than its facts; a parse has all or
\* none of the reports of a ticker; and reports no newer than the facts are in
\* them.
Clocked ==
    /\ \A r \in rows : r.at < now
    /\ \A p \in Run : pc[p] = "record" => stamp[p] = now
    /\ \A p \in Run : pc[p] \in Parsing =>
           \A t \in Ticker : RowsOf(t, inputs[p]) \in {{}, RowsOf(t, rows)}
    /\ \A t \in Ticker : facts[t].merged # {} =>
           /\ facts[t].at < now
           /\ \A r \in RowsOf(t, rows) :
                  r.at <= facts[t].at => r \in facts[t].merged \/ r.doc \in Silent

\* A step that writes no row, fact or time and begins no parse or stamp keeps
\* Clocked.
LEMMA ClockedElsewhere ==
    ASSUME TypeOK, Clocked, UNCHANGED <<rows, facts, now>>,
           \A p \in Run :
               /\ pc'[p] = "record" => pc[p] = "record" /\ stamp'[p] = stamp[p]
               /\ pc'[p] \in Parsing => pc[p] \in Parsing /\ inputs'[p] = inputs[p]
    PROVE  Clocked'
<1>1. \A t : RowsOf(t, rows') = RowsOf(t, rows)
  OBVIOUS
<1>2. \A p \in Run : \A t : inputs'[p] = inputs[p] => RowsOf(t, inputs'[p]) = RowsOf(t, inputs[p])
  OBVIOUS
<1>. QED  BY <1>1, <1>2 DEF Clocked, RowsOf

LEMMA ClockedStep == ASSUME OneCommand, TypeOK, Clocked, [Next]_vars PROVE Clocked'
<1>. USE DEF TypeOK, edinet, store, scrape, fetch, parse, Ended, Active, Downloading, Parsing
<1>1. CASE World \/ UNCHANGED vars
  BY <1>1, ClockedElsewhere DEF World, NextDay, File, Withdraw, vars
<1>2. ASSUME NEW p \in Run,
             \/ BeginScrape(p) \/ ScanDay(p) \/ Choose(p) \/ BeginSingle(p)
             \/ DownloadFails(p) \/ EndDownloads(p) \/ RecordFails(p)
      PROVE  Clocked'
  BY <1>2, ClockedElsewhere
     DEF BeginScrape, ScanDay, Choose, BeginSingle, DownloadFails, EndDownloads, RecordFails
<1>3. ASSUME NEW p \in Run, MoveAside(p) \/ Install(p) \/ InstallFails(p)
      PROVE  Clocked'
  BY <1>3, ClockedElsewhere DEF MoveAside, Install, InstallFails
<1>4. ASSUME NEW p \in Run, SkipExisting(p) \/ ParseBatch(p) \/ EndParse(p)
      PROVE  Clocked'
  BY <1>4, ClockedElsewhere DEF SkipExisting, ParseBatch, EndParse
<1>5. ASSUME NEW p \in Run, ParseFails(p) \/ CommandFails(p) \/ Kill(p)
      PROVE  Clocked'
  BY <1>5, ClockedElsewhere DEF ParseFails, CommandFails, Kill, Abort
<1>6. ASSUME NEW p \in Run, ReadClock(p)
      PROVE  Clocked'
  <2>1. \A q \in Run : q = p
    BY DEF OneCommand
  <2>2. /\ stamp'[p] = now /\ UNCHANGED <<rows, facts, now>>
        /\ \A q \in Run : pc'[q] \notin Parsing
    BY <1>6, <2>1 DEF ReadClock
  <2>. QED  BY <2>1, <2>2 DEF Clocked, RowsOf
<1>7. ASSUME NEW p \in Run, Record(p)
      PROVE  Clocked'
  <2>1. \A q \in Run : q = p
    BY DEF OneCommand
  <2>2. /\ pc[p] = "record" /\ now' = now + 1 /\ UNCHANGED facts
        /\ \A q \in Run : pc'[q] = "fetch"
        /\ \A r \in rows' : r \in rows \/ (r.doc = doc[p] /\ r.at = now)
    BY <1>7, <2>1 DEF Record, Clocked
  <2>3. now \in Nat /\ \A r \in rows : r.at \in Nat
    BY FilingAssumption DEF Row, Stamp
  <2>4. \A t \in Ticker : facts[t].at \in Nat
    BY FilingAssumption DEF Stamp
  <2>5. \A r \in rows' : r.at < now'
    BY <2>2, <2>3 DEF Clocked
  <2>6. ASSUME NEW t \in Ticker, facts[t].merged # {}
        PROVE  /\ facts[t].at < now'
               /\ \A r \in RowsOf(t, rows') :
                      r.at <= facts[t].at => r \in facts[t].merged \/ r.doc \in Silent
    <3>1. facts[t].at < now
      BY <2>6 DEF Clocked
    <3>2. \A r \in RowsOf(t, rows') : r.at <= facts[t].at => r \in RowsOf(t, rows)
      BY <2>2, <2>3, <2>4, <3>1 DEF RowsOf
    <3>. QED  BY <2>2, <2>3, <2>4, <2>6, <3>1, <3>2 DEF Clocked
  <2>. QED  BY <2>2, <2>5, <2>6 DEF Clocked
<1>8. ASSUME NEW p \in Run, BeginParse(p)
      PROVE  Clocked'
  <2>1. PICK from \in Ticker : inputs' = [inputs EXCEPT ![p] = {r \in rows : DocOf(r.doc).ticker >= from}]
    BY <1>8 DEF BeginParse
  <2>2. \A q \in Run : q = p
    BY DEF OneCommand
  <2>3. /\ UNCHANGED <<rows, facts, now>> /\ pc'[p] # "record"
    BY <1>8 DEF BeginParse
  <2>4. \A t \in Ticker : RowsOf(t, inputs'[p]) \in {{}, RowsOf(t, rows)}
    <3>. SUFFICES ASSUME NEW t \in Ticker PROVE RowsOf(t, inputs'[p]) \in {{}, RowsOf(t, rows)}
      OBVIOUS
    <3>1. CASE t >= from
      BY <2>1, <3>1 DEF RowsOf
    <3>2. CASE ~(t >= from)
      BY <2>1, <3>2 DEF RowsOf
    <3>. QED  BY <3>1, <3>2
  <2>. QED  BY <2>2, <2>3, <2>4 DEF Clocked, RowsOf
<1>9. ASSUME NEW p \in Run, WriteBatch(p)
      PROVE  Clocked'
  <2>1. \A q \in Run : q = p
    BY DEF OneCommand
  <2>2. /\ pc[p] = "write" /\ \A q \in Run : pc'[q] = "parse"
        /\ UNCHANGED <<rows, inputs>>
        /\ now' = IF facts' = facts THEN now ELSE now + 1
    BY <1>9, <2>1 DEF WriteBatch
  <2>3. now \in Nat /\ \A r \in rows : r.at \in Nat
    BY FilingAssumption DEF Row, Stamp
  <2>4. now <= now'
    BY <2>2, <2>3
  <2>5. now' \in Nat
    BY <2>2, <2>3
  <2>6. \A r \in rows' : r.at < now'
    BY <2>2, <2>3, <2>4, <2>5 DEF Clocked
  <2>7. ASSUME NEW t \in Ticker, facts'[t].merged # {}
        PROVE  /\ facts'[t].at < now'
               /\ \A r \in RowsOf(t, rows) :
                      r.at <= facts'[t].at => r \in facts'[t].merged \/ r.doc \in Silent
    <3>1. CASE t \in batch[p] /\ Merged(p, t) # {}
      <4>1. facts'[t] = [merged |-> Merged(p, t), standing |-> Standing(Merged(p, t)),
                         at |-> StampOf(p, t)]
        BY <1>9, <3>1 DEF WriteBatch
      <4>2. RowsOf(t, inputs[p]) = RowsOf(t, rows)
        BY <2>2, <3>1 DEF Clocked, Merged
      <4>3. facts[t].merged # {} => facts[t].at < now
        BY DEF Clocked
      <4>4. CASE StampOf(p, t) = now
        <5>1. facts'[t] # facts[t]
          BY <2>3, <3>1, <4>1, <4>3, <4>4
        <5>2. now' = now + 1
          BY <2>2, <5>1
        <5>. QED  BY <2>3, <4>1, <4>2, <4>4, <5>2 DEF Merged
      <4>5. CASE StampOf(p, t) # now
        <5>1. StampOf(p, t) = facts[t].at /\ facts[t].merged = Merged(p, t)
          BY <4>5 DEF StampOf
        <5>2. facts[t].at < now /\ facts[t].at \in Nat
          BY <3>1, <4>3, <5>1, FilingAssumption DEF Stamp
        <5>. QED  BY <2>3, <2>4, <2>5, <4>1, <4>2, <5>1, <5>2 DEF Merged
      <4>. QED  BY <4>4, <4>5
    <3>2. CASE ~(t \in batch[p] /\ Merged(p, t) # {})
      <4>1. facts'[t] = facts[t]
        BY <1>9, <3>2 DEF WriteBatch
      <4>2. facts[t].at \in Nat
        BY FilingAssumption DEF Stamp
      <4>. QED  BY <2>3, <2>4, <2>5, <2>7, <4>1, <4>2 DEF Clocked
    <3>. QED  BY <3>1, <3>2
  <2>8. \A q \in Run : \A t \in Ticker : RowsOf(t, inputs'[q]) \in {{}, RowsOf(t, rows')}
    BY <2>1, <2>2 DEF Clocked
  <2>9. \A t : RowsOf(t, rows') = RowsOf(t, rows)
    BY <2>2
  <2>. QED  BY <2>2, <2>6, <2>7, <2>8, <2>9 DEF Clocked
<1>. QED
  BY <1>1, <1>2, <1>3, <1>4, <1>5, <1>6, <1>7, <1>8, <1>9 DEF Next, Progress, Fault

LEMMA ClockedInvariant == ASSUME OneCommand PROVE Spec => []Clocked
<1>1. Init => Clocked
  BY DEF Init, Clocked, Parsing
<1>2. TypeOK /\ Clocked /\ [Next]_vars => Clocked'
  BY ClockedStep
<1>3. Spec => []TypeOK
  BY TypeCorrect, PTL
<1>. QED  BY <1>1, <1>2, <1>3, PTL DEF Spec

\* If commands do not overlap, a parse skips a ticker only if its facts were
\* made from each report recorded for it, whatever the options and wherever
\* commands fail or are killed (ticker_is_up_to_date).
THEOREM SkipsCurrent == ASSUME OneCommand PROVE Spec => NoStaleSkip
<1>1. ASSUME TypeOK, Clocked, Next, NEW p \in Run, pc[p] = "load", pc'[p] = "parse",
             NEW r \in inputs[p], DocOf(r.doc).ticker \notin queue'[p]
      PROVE  r \in facts[DocOf(r.doc).ticker].merged \/ r.doc \in Silent
  <2>. DEFINE t == DocOf(r.doc).ticker
  <2>1. SkipExisting(p)
    <3>1. \A q \in Run : q = p
      BY DEF OneCommand
    <3>2. pc'[p] # pc[p]
      BY <1>1
    <3>. QED
      BY <1>1, <3>1, <3>2
         DEF TypeOK, Next, World, NextDay, File, Withdraw, Progress, Fault, edinet, store, scrape,
             fetch, parse, BeginScrape, BeginSingle, BeginParse, ScanDay, Choose, MoveAside,
             Install, ReadClock, Record, EndDownloads, ParseBatch, ParseFails, WriteBatch,
             EndParse, DownloadFails, InstallFails, RecordFails, CommandFails, Kill, Abort, Ended
  <2>2. r \in Row
    BY <1>1 DEF TypeOK
  <2>3. t \in Ticker
    BY <2>2 DEF Row, Id, DocOf, Ticker
  <2>4. r \in RowsOf(t, inputs[p])
    BY DEF RowsOf
  <2>5. RowsOf(t, inputs[p]) = RowsOf(t, rows)
    BY <1>1, <2>3, <2>4 DEF Clocked, Parsing
  <2>6. UpToDate(t)
    BY <1>1, <2>1, <2>3, <2>4 DEF SkipExisting, TypeOK
  <2>7. facts[t].merged # {} /\ facts[t].at >= r.at /\ r \in RowsOf(t, rows)
    BY <2>4, <2>5, <2>6 DEF UpToDate, HasItems
  <2>8. facts[t].at \in Nat /\ r.at \in Nat
    BY <1>1, <2>2, <2>3, FilingAssumption DEF TypeOK, Stamp, Row
  <2>. QED  BY <1>1, <2>3, <2>7, <2>8 DEF Clocked
<1>2. TypeOK /\ Clocked /\ [Next]_vars =>
          [\A p \in Run : pc[p] = "load" /\ pc'[p] = "parse" =>
              \A r \in inputs[p] : DocOf(r.doc).ticker \notin queue'[p] =>
                  r \in facts[DocOf(r.doc).ticker].merged \/ r.doc \in Silent]_vars
  BY <1>1
<1>3. Spec => []TypeOK
  BY TypeCorrect, PTL
<1>. QED  BY <1>2, <1>3, ClockedInvariant, PTL DEF Spec, NoStaleSkip

(***************************************************************************)
(* One command at a time with default options.                             *)
(***************************************************************************)
DefaultOptions == Option \cap {"force", "single", "window"} = {}

Corrects(c, d) == c.correction /\ c.parent = d.id

\* A correction restates the period of the report it corrects.
CorrectionsRestate ==
    \A c, d \in Filing : Corrects(c, d) => c.period = d.period

InHand == {"install", "stamp", "record"}

\* The documents of a scrape that are still to be recorded.
Chosen(p) ==
    {d \in Filing : \/ pc[p] \in Downloading /\ d \in todo[p]
                    \/ pc[p] \in InHand /\ d.id = doc[p]}

RowDocs == {r.doc : r \in rows}

\* What a scrape has chosen is about a stock, is not recorded, nor corrected by what is, unless
\* the correction has been withdrawn; nor by what is chosen beside it.
ChosenSound ==
    \A p \in Run : \A d \in Chosen(p) :
        /\ d.id \notin RowDocs
        /\ d.id \in filed /\ Resolved(d)
        /\ \A e \in Chosen(p) : ~Corrects(e, d)
        /\ \A r \in rows : Corrects(DocOf(r.doc), d) => r.doc \in withdrawn

\* The document in hand is not to be fetched again, and its package is in
\* place when its row is written, under the fiscal year it is for.
HandSound ==
    \A p \in Run :
        /\ year[p] # LatestYear
        /\ pc[p] \in InHand =>
               /\ \A d \in todo[p] : d.id # doc[p]
               /\ year[p] = YearOf(DocOf(doc[p]))
        /\ pc[p] \in {"stamp", "record"} => doc[p] \in package

\* A scan knows the recorded ids and has found each recorded report of the
\* days it is past, unless withdrawn; it ends after the last of them.
ScanSound ==
    /\ \A i \in filed : DocOf(i).submitted <= today
    /\ \A r \in rows : r.doc \in filed /\ Resolved(DocOf(r.doc))
    /\ \A p \in Run : pc[p] = "scan" =>
           /\ existing[p] = RowDocs
           /\ \A d \in found[p] : d.id \in filed /\ Resolved(d)
           /\ \A r \in rows :
                  /\ DocOf(r.doc).submitted <= last[p]
                  /\ DocOf(r.doc).submitted < cursor[p] =>
                         DocOf(r.doc) \in found[p] \/ r.doc \in withdrawn

\* A correction is recorded after the report it corrects.
RowsSound ==
    /\ \A r \in rows : r.year = YearOf(DocOf(r.doc))
    /\ \A r, c \in rows : Corrects(DocOf(c.doc), DocOf(r.doc)) /\ c.doc \notin withdrawn =>
           r.at < c.at

\* Facts are made of recorded reports: no row is ever replaced.
FactsSound ==
    /\ \A p \in Run : pc[p] \in Parsing => inputs[p] \subseteq rows
    /\ \A t \in Ticker : facts[t].merged \subseteq rows
                         /\ facts[t].standing = Standing(facts[t].merged)

Sequential ==
    /\ PackageOnDisk
    /\ ChosenSound /\ HandSound /\ ScanSound /\ RowsSound /\ FactsSound

LEMMA DocOfId ==
    /\ \A d \in Filing : d.id \in Id /\ DocOf(d.id) = d
    /\ \A i \in Id : DocOf(i) \in Filing /\ DocOf(i).id = i
<1>1. \A i \in Id : DocOf(i) \in Filing /\ DocOf(i).id = i
  BY DEF Id, DocOf
<1>2. \A d \in Filing : d.id \in Id
  BY DEF Id
<1>. QED  BY <1>1, <1>2, FilingAssumption

\* What a scan chooses it has found, and found uncorrected.
LEMMA EffectiveSound ==
    ASSUME NEW C, C \subseteq Filing, NEW d \in Effective(C)
    PROVE  d \in C /\ \A e \in C : ~Corrects(e, d)
<1>1. d \in C /\ d.id \notin Superseded(C)
  BY DEF Effective, Remaining
<1>2. d.id # NoDoc
  BY <1>1, FilingAssumption DEF Document
<1>. QED  BY <1>1, <1>2 DEF Superseded, Corrects

\* A scrape goes on, or gives up what it has chosen; the tables stay.
LEMMA SequentialElsewhere ==
    ASSUME TypeOK, Sequential,
           UNCHANGED <<today, filed, withdrawn, rows, package, facts>>,
           \A p \in Run :
               /\ Chosen(p)' \subseteq Chosen(p)
               /\ year'[p] # LatestYear
               /\ pc'[p] \in InHand => /\ pc[p] \in InHand
                                       /\ doc'[p] = doc[p] /\ year'[p] = year[p]
                                       /\ todo'[p] = todo[p]
               /\ pc'[p] \in {"stamp", "record"} => pc[p] \in {"stamp", "record"}
               /\ pc'[p] = "scan" => /\ pc[p] = "scan"
                                     /\ cursor'[p] = cursor[p] /\ last'[p] = last[p]
                                     /\ found'[p] = found[p] /\ existing'[p] = existing[p]
               /\ pc'[p] \in Parsing => pc[p] \in Parsing /\ inputs'[p] = inputs[p]
    PROVE  Sequential'
<1>1. RowDocs' = RowDocs
  BY DEF RowDocs
<1>2. ChosenSound'
  BY <1>1 DEF Sequential, ChosenSound
<1>3. HandSound'
  BY DEF Sequential, HandSound, InHand
<1>4. ScanSound'
  BY <1>1 DEF Sequential, ScanSound
<1>5. RowsSound' /\ FactsSound' /\ PackageOnDisk'
  BY DEF Sequential, RowsSound, FactsSound, PackageOnDisk
<1>. QED  BY <1>2, <1>3, <1>4, <1>5 DEF Sequential

LEMMA WorldSequential == ASSUME TypeOK, Sequential, World PROVE Sequential'
<1>. USE DEF TypeOK
<1>1. UNCHANGED <<store, pc, scrape, todo, fetch, parse>>
  BY DEF World, NextDay, File, Withdraw
<1>2. /\ RowDocs' = RowDocs /\ \A p : Chosen(p)' = Chosen(p)
      /\ filed \subseteq filed' /\ withdrawn \subseteq withdrawn'
  BY <1>1 DEF World, NextDay, File, Withdraw, RowDocs, Chosen, store, fetch
<1>3. ChosenSound'
  BY <1>1, <1>2 DEF Sequential, ChosenSound, store
<1>4. HandSound' /\ FactsSound' /\ PackageOnDisk'
  BY <1>1 DEF Sequential, HandSound, FactsSound, PackageOnDisk, store, fetch, parse
<1>5. RowsSound'
  BY <1>1, <1>2 DEF Sequential, RowsSound, store
<1>6. \A i \in filed' : DocOf(i).submitted <= today'
  <2>1. \A i \in Id : DocOf(i).submitted \in Int
    BY DocOfId, FilingAssumption DEF Document, Day
  <2>2. CASE NextDay
    BY <2>1, <2>2 DEF NextDay, Sequential, ScanSound, Day
  <2>3. ASSUME NEW d \in Filing, File(d)
        PROVE  \A i \in filed' : DocOf(i).submitted <= today'
    BY <2>1, <2>3, DocOfId DEF File, Sequential, ScanSound, Day
  <2>4. ASSUME NEW i \in Id, Withdraw(i)
        PROVE  \A j \in filed' : DocOf(j).submitted <= today'
    BY <2>4 DEF Withdraw, Sequential, ScanSound
  <2>. QED  BY <2>2, <2>3, <2>4 DEF World
<1>7. ScanSound'
  BY <1>1, <1>2, <1>6 DEF Sequential, ScanSound, store, scrape
<1>. QED  BY <1>3, <1>4, <1>5, <1>7 DEF Sequential

\* The scan: it covers every day there has been, and chooses nothing that is
\* recorded.
LEMMA BeginScrapeSequential ==
    ASSUME OneCommand, DefaultOptions, TypeOK, Sequential, NEW p \in Run, BeginScrape(p)
    PROVE  Sequential'
<1>. USE DEF TypeOK
<1>1. /\ UNCHANGED <<edinet, store, todo, fetch, parse>> /\ pc'[p] = "scan"
      /\ found'[p] = {}
      /\ \A q \in Run : q = p
  BY DEF BeginScrape, OneCommand
<1>2. existing'[p] = RowDocs
  BY DEF BeginScrape, DefaultOptions, RowDocs
<1>3. cursor'[p] = 1 /\ last'[p] = today
  BY DEF BeginScrape, DefaultOptions
<1>4. RowDocs' = RowDocs /\ Chosen(p)' = {}
  BY <1>1 DEF RowDocs, Chosen, store, Downloading, InHand
<1>5. ChosenSound'
  BY <1>1, <1>4 DEF ChosenSound
<1>6. HandSound' /\ FactsSound' /\ PackageOnDisk' /\ RowsSound'
  BY <1>1 DEF Sequential, HandSound, FactsSound, PackageOnDisk, RowsSound, store, fetch, edinet,
              InHand, Parsing
<1>7. \A r \in rows : DocOf(r.doc).submitted \in 1 .. today
  <2>1. SUFFICES ASSUME NEW r \in rows PROVE DocOf(r.doc).submitted \in 1 .. today
    OBVIOUS
  <2>2. r.doc \in filed /\ r.doc \in Id
    BY DEF Sequential, ScanSound, Row
  <2>3. DocOf(r.doc).submitted \in Day
    BY <2>2, DocOfId, FilingAssumption DEF Document
  <2>. QED  BY <2>2, <2>3 DEF Day, Sequential, ScanSound
<1>8. ScanSound'
  BY <1>1, <1>2, <1>3, <1>4, <1>7 DEF Sequential, ScanSound, store, edinet
<1>. QED  BY <1>5, <1>6, <1>8 DEF Sequential

LEMMA ScanDaySequential ==
    ASSUME OneCommand, TypeOK, Sequential, NEW p \in Run, ScanDay(p)
    PROVE  Sequential'
<1>. USE DEF TypeOK
<1>1. /\ UNCHANGED <<edinet, store, pc, last, existing, todo, fetch, parse>> /\ pc[p] = "scan"
      /\ cursor'[p] = cursor[p] + 1
      /\ found'[p] = found[p] \cup {d \in OnList(cursor[p]) : Resolved(d)}
      /\ \A q \in Run : q = p
  BY DEF ScanDay, OneCommand, OnList
<1>2. RowDocs' = RowDocs /\ Chosen(p)' = Chosen(p)
  BY <1>1 DEF RowDocs, Chosen, store, fetch
<1>3. ChosenSound'
  BY <1>1, <1>2 DEF Sequential, ChosenSound, store, edinet
<1>4. HandSound' /\ FactsSound' /\ PackageOnDisk' /\ RowsSound'
  BY <1>1 DEF Sequential, HandSound, FactsSound, PackageOnDisk, RowsSound, store, fetch, edinet,
              parse
<1>5. ASSUME NEW r \in rows, DocOf(r.doc).submitted < cursor'[p]
      PROVE  DocOf(r.doc) \in found'[p] \/ r.doc \in withdrawn
  <2>1. r.doc \in filed /\ r.doc \in Id /\ Resolved(DocOf(r.doc))
    BY DEF Sequential, ScanSound, Row
  <2>2. DocOf(r.doc) \in Filing /\ DocOf(r.doc).id = r.doc /\ DocOf(r.doc).submitted \in Int
    BY <2>1, DocOfId, FilingAssumption DEF Document, Day
  <2>3. CASE DocOf(r.doc).submitted = cursor[p]
    BY <1>1, <2>1, <2>2, <2>3 DEF OnList
  <2>4. CASE DocOf(r.doc).submitted < cursor[p]
    BY <1>1, <2>4 DEF Sequential, ScanSound
  <2>5. cursor[p] \in Int
    BY FilingAssumption
  <2>6. DocOf(r.doc).submitted = cursor[p] \/ DocOf(r.doc).submitted < cursor[p]
    <3>1. cursor'[p] = cursor[p] + 1
      BY <1>1
    <3>2. DocOf(r.doc).submitted < cursor[p] + 1
      BY <1>5, <3>1
    <3>3. \A m, n \in Int : m < n + 1 => m = n \/ m < n
      OBVIOUS
    <3>. QED  BY <2>2, <2>5, <3>2, <3>3, Zenon
  <2>. QED  BY <2>3, <2>4, <2>6
<1>6. \A d \in found'[p] : d.id \in filed /\ Resolved(d)
  BY <1>1 DEF Sequential, ScanSound, OnList
<1>7. ScanSound'
  BY <1>1, <1>2, <1>5, <1>6 DEF Sequential, ScanSound, store, edinet
<1>. QED  BY <1>3, <1>4, <1>7 DEF Sequential

LEMMA ChooseSequential ==
    ASSUME OneCommand, TypeOK, Sequential, NEW p \in Run, Choose(p)
    PROVE  Sequential'
<1>. USE DEF TypeOK
<1>1. /\ UNCHANGED <<edinet, store, cursor, last, fetch, parse>> /\ pc'[p] = "fetch"
      /\ pc[p] = "scan" /\ cursor[p] > last[p]
      /\ todo'[p] = {d \in Effective(found[p]) : d.id \notin existing[p]}
      /\ \A q \in Run : q = p
  BY DEF Choose, OneCommand
<1>2. RowDocs' = RowDocs /\ Chosen(p)' \subseteq todo'[p]
  BY <1>1 DEF RowDocs, Chosen, store, InHand
<1>3. ASSUME NEW d \in todo'[p]
      PROVE  /\ d.id \notin RowDocs /\ d.id \in filed /\ Resolved(d)
             /\ \A e \in todo'[p] : ~Corrects(e, d)
             /\ \A r \in rows : Corrects(DocOf(r.doc), d) => r.doc \in withdrawn
  <2>1. /\ found[p] \subseteq Filing
        /\ \A e \in todo'[p] : e \in Effective(found[p]) /\ e \in found[p]
    BY <1>1, EffectiveSound
  <2>2. \A e \in found[p] : ~Corrects(e, d)
    BY <2>1, EffectiveSound
  <2>3. \A r \in rows : DocOf(r.doc) \in found[p] \/ r.doc \in withdrawn
    <3>1. \A r \in rows : DocOf(r.doc).submitted \in Int
      BY DocOfId, FilingAssumption DEF Row, Document, Day
    <3>. QED  BY <1>1, <3>1 DEF Sequential, ScanSound, Day
  <2>4. d.id \notin RowDocs /\ d.id \in filed /\ Resolved(d)
    BY <1>1, <2>1 DEF Sequential, ScanSound
  <2>. QED  BY <2>1, <2>2, <2>3, <2>4
<1>4. ChosenSound'
  BY <1>1, <1>2, <1>3 DEF ChosenSound, store, edinet
<1>5. HandSound' /\ FactsSound' /\ PackageOnDisk' /\ RowsSound' /\ ScanSound'
  BY <1>1, <1>2 DEF Sequential, HandSound, FactsSound, PackageOnDisk, RowsSound, ScanSound,
                    store, fetch, edinet, parse, InHand, Parsing
<1>. QED  BY <1>4, <1>5 DEF Sequential

\* Downloads: the document in hand leaves what is to be fetched, and its row
\* is written when its package is in place.
LEMMA MoveAsideSequential ==
    ASSUME OneCommand, TypeOK, Sequential, NEW p \in Run, MoveAside(p)
    PROVE  Sequential'
<1>. USE DEF TypeOK
<1>1. PICK d \in todo[p] :
          /\ doc' = [doc EXCEPT ![p] = d.id]
          /\ package' = package \ {d.id}
          /\ year' = [year EXCEPT ![p] = IF @ = LatestYear THEN @ ELSE YearOf(d)]
          /\ todo' = [todo EXCEPT ![p] = @ \ {d}]
  BY DEF MoveAside
<1>2. /\ pc[p] = "fetch" /\ pc'[p] = "install"
      /\ UNCHANGED <<edinet, rows, facts, now, scrape, stamp, parse>>
      /\ \A q \in Run : q = p
  BY DEF MoveAside, OneCommand
<1>3. d \in Filing /\ DocOf(d.id) = d
  BY DocOfId
<1>4. d \in Chosen(p)
  BY <1>2, <1>3 DEF Chosen, Downloading
<1>5. Chosen(p)' \subseteq Chosen(p)
  BY <1>1, <1>2, <1>3, FilingAssumption DEF Chosen, InHand, Downloading
<1>6. RowDocs' = RowDocs
  BY <1>2 DEF RowDocs
<1>7. ChosenSound'
  BY <1>2, <1>5, <1>6 DEF Sequential, ChosenSound, edinet
<1>8. YearOf(d) # LatestYear
  <2>1. d.period \in Nat /\ d.period < 100 * LatestYear
    BY <1>3, FilingAssumption, PeriodAssumption DEF Document, NoPeriod
  <2>2. d.period \div 100 # LatestYear
    BY <2>1 DEF LatestYear
  <2>. QED  BY <2>2 DEF YearOf, UnknownYear, LatestYear
<1>9. HandSound'
  <2>1. year'[p] = YearOf(d) /\ doc'[p] = d.id
    BY <1>1 DEF Sequential, HandSound
  <2>2. \A e \in todo'[p] : e.id # d.id
    BY <1>1, <1>3, FilingAssumption
  <2>. QED  BY <1>2, <1>3, <1>8, <2>1, <2>2 DEF HandSound
<1>10. PackageOnDisk'
  <2>1. d.id \notin RowDocs
    BY <1>4 DEF Sequential, ChosenSound
  <2>. QED  BY <1>1, <1>2, <2>1 DEF Sequential, PackageOnDisk, RowDocs
<1>11. FactsSound' /\ RowsSound' /\ ScanSound'
  BY <1>2 DEF Sequential, FactsSound, RowsSound, ScanSound, edinet, scrape, parse, Parsing
<1>. QED  BY <1>7, <1>9, <1>10, <1>11 DEF Sequential

LEMMA InstallSequential ==
    ASSUME OneCommand, TypeOK, Sequential, NEW p \in Run, Install(p) \/ InstallFails(p)
    PROVE  Sequential'
<1>. USE DEF TypeOK
<1>1. /\ pc[p] = "install" /\ pc'[p] \in {"stamp", "fetch"}
      /\ UNCHANGED <<edinet, rows, facts, now, scrape, todo, doc, year, stamp, parse>>
      /\ \A q \in Run : q = p
  BY DEF Install, InstallFails, OneCommand
<1>2. package \subseteq package' /\ (pc'[p] = "stamp" => doc[p] \in package')
  BY DEF Install, InstallFails
<1>3. Chosen(p)' \subseteq Chosen(p) /\ RowDocs' = RowDocs
  BY <1>1 DEF Chosen, RowDocs, InHand, Downloading
<1>4. ChosenSound'
  BY <1>1, <1>3 DEF Sequential, ChosenSound, edinet
<1>5. HandSound'
  BY <1>1, <1>2 DEF Sequential, HandSound, InHand
<1>6. FactsSound' /\ RowsSound' /\ ScanSound' /\ PackageOnDisk'
  BY <1>1, <1>2 DEF Sequential, FactsSound, RowsSound, ScanSound, PackageOnDisk, edinet, scrape,
                    parse, Parsing
<1>. QED  BY <1>4, <1>5, <1>6 DEF Sequential

LEMMA RecordSequential ==
    ASSUME OneCommand, TypeOK, DocInHand, Clocked, Sequential, NEW p \in Run, Record(p)
    PROVE  Sequential'
<1>. USE DEF TypeOK
<1>. DEFINE d == DocOf(doc[p])
            new == [doc |-> doc[p], year |-> year[p], at |-> stamp[p]]
<1>1. /\ pc[p] = "record" /\ pc'[p] = "fetch"
      /\ rows' = (rows \ RowOf(doc[p])) \cup {new}
      /\ UNCHANGED <<edinet, package, facts, scrape, todo, fetch, parse>>
      /\ \A q \in Run : q = p
  BY DEF Record, OneCommand
<1>2. d \in Filing /\ d.id = doc[p]
  BY <1>1, DocOfId DEF DocInHand
<1>3. d \in Chosen(p) /\ doc[p] \notin RowDocs /\ doc[p] \in filed /\ Resolved(d)
  <2>1. d \in Chosen(p)
    BY <1>1, <1>2 DEF Chosen, InHand
  <2>. QED  BY <1>2, <2>1 DEF Sequential, ChosenSound
<1>4. rows' = rows \cup {new} /\ RowDocs' = RowDocs \cup {doc[p]}
  <2>1. RowOf(doc[p]) = {}
    BY <1>3 DEF RowOf, RowDocs
  <2>2. rows' = rows \cup {new}
    BY <1>1, <2>1
  <2>3. new.doc = doc[p]
    OBVIOUS
  <2>. HIDE DEF new
  <2>4. \A i : i \in RowDocs' <=> i \in RowDocs \/ i = doc[p]
    BY <2>2, <2>3 DEF RowDocs
  <2>. QED  BY <2>2, <2>4
<1>5. ASSUME NEW e \in Chosen(p)'
      PROVE  /\ e.id \notin RowDocs' /\ e.id \in filed /\ Resolved(e)
             /\ \A f \in Chosen(p)' : ~Corrects(f, e)
             /\ \A r \in rows' : Corrects(DocOf(r.doc), e) => r.doc \in withdrawn
  <2>1. Chosen(p)' \subseteq Chosen(p) /\ e \in todo[p]
    BY <1>1 DEF Chosen, InHand, Downloading, fetch
  <2>2. e.id # doc[p]
    BY <1>1, <2>1 DEF Sequential, HandSound, InHand
  <2>3. ~Corrects(d, e)
    BY <1>3, <2>1 DEF Sequential, ChosenSound
  <2>. QED  BY <1>4, <2>1, <2>2, <2>3 DEF Sequential, ChosenSound
<1>6. ChosenSound'
  BY <1>1, <1>5 DEF ChosenSound, edinet
<1>7. HandSound' /\ PackageOnDisk'
  BY <1>1, <1>4 DEF Sequential, HandSound, PackageOnDisk, fetch, InHand
<1>8. ScanSound'
  BY <1>1, <1>3, <1>4 DEF Sequential, ScanSound, edinet, scrape
<1>9. RowsSound'
  <2>1. year[p] = YearOf(d) /\ stamp[p] = now /\ now \in Nat
    BY <1>1, FilingAssumption DEF Sequential, HandSound, Clocked, InHand, Stamp
  <2>2. \A r \in rows : Corrects(DocOf(r.doc), d) => r.doc \in withdrawn
    BY <1>3 DEF Sequential, ChosenSound
  <2>3. ~Corrects(d, d)
    BY <1>3 DEF Sequential, ChosenSound
  <2>4. \A r \in rows : r.at < now
    BY DEF Clocked
  <2>. QED  BY <1>1, <1>4, <2>1, <2>2, <2>3, <2>4 DEF Sequential, RowsSound, edinet
<1>10. FactsSound'
  BY <1>1, <1>4 DEF Sequential, FactsSound, parse, Parsing
<1>. QED  BY <1>6, <1>7, <1>8, <1>9, <1>10 DEF Sequential

\* A parse takes the recorded reports, and makes facts of those alone.
LEMMA ParseSequential ==
    ASSUME OneCommand, TypeOK, Sequential, NEW p \in Run, BeginParse(p) \/ WriteBatch(p)
    PROVE  Sequential'
<1>. USE DEF TypeOK
<1>1. /\ pc'[p] \notin Downloading /\ pc'[p] # "scan"
      /\ UNCHANGED <<edinet, rows, package, scrape, todo, fetch>>
      /\ \A q \in Run : q = p
  BY DEF BeginParse, WriteBatch, OneCommand, Downloading, store
<1>2. Chosen(p)' = {} /\ RowDocs' = RowDocs
  BY <1>1 DEF Chosen, RowDocs, InHand, Downloading
<1>3. ChosenSound' /\ HandSound' /\ ScanSound' /\ RowsSound' /\ PackageOnDisk'
  BY <1>1, <1>2 DEF Sequential, ChosenSound, HandSound, ScanSound, RowsSound, PackageOnDisk,
                    edinet, scrape, fetch, InHand, Downloading
<1>4. FactsSound'
  <2>1. CASE BeginParse(p)
    BY <1>1, <2>1 DEF BeginParse, Sequential, FactsSound, store
  <2>2. CASE WriteBatch(p)
    <3>1. inputs[p] \subseteq rows /\ UNCHANGED inputs
      BY <2>2 DEF WriteBatch, Sequential, FactsSound, Parsing
    <3>2. ASSUME NEW t \in Ticker
          PROVE  facts'[t].merged \subseteq rows /\ facts'[t].standing = Standing(facts'[t].merged)
      <4>1. Merged(p, t) \subseteq rows
        BY <3>1 DEF Merged, RowsOf
      <4>2. CASE t \in batch[p] /\ Merged(p, t) # {}
        BY <2>2, <4>1, <4>2 DEF WriteBatch
      <4>3. CASE ~(t \in batch[p] /\ Merged(p, t) # {})
        BY <2>2, <4>3 DEF WriteBatch, Sequential, FactsSound
      <4>. QED  BY <4>2, <4>3
    <3>. QED  BY <1>1, <3>1, <3>2 DEF FactsSound
  <2>. QED  BY <2>1, <2>2
<1>. QED  BY <1>3, <1>4 DEF Sequential

LEMMA SequentialStep ==
    ASSUME OneCommand, DefaultOptions, TypeOK, DocInHand, Clocked, Sequential, [Next]_vars
    PROVE  Sequential'
<1>. USE DEF TypeOK
<1>1. CASE UNCHANGED vars
  BY <1>1, SequentialElsewhere
     DEF vars, edinet, store, scrape, fetch, parse, Chosen, Sequential, HandSound
<1>2. CASE World
  BY <1>2, WorldSequential
<1>3. ASSUME NEW p \in Run, BeginScrape(p) \/ ScanDay(p) \/ Choose(p)
      PROVE  Sequential'
  BY <1>3, BeginScrapeSequential, ScanDaySequential, ChooseSequential
<1>4. ASSUME NEW p \in Run, BeginSingle(p)
      PROVE  Sequential'
  BY <1>4 DEF BeginSingle, DefaultOptions
<1>5. ASSUME NEW p \in Run, MoveAside(p) \/ Install(p) \/ InstallFails(p) \/ Record(p)
      PROVE  Sequential'
  BY <1>5, MoveAsideSequential, InstallSequential, RecordSequential
<1>6. ASSUME NEW p \in Run, BeginParse(p) \/ WriteBatch(p)
      PROVE  Sequential'
  BY <1>6, ParseSequential
<1>7. ASSUME NEW p \in Run, DownloadFails(p) \/ ReadClock(p) \/ RecordFails(p) \/ EndDownloads(p)
      PROVE  Sequential'
  <2>1. /\ UNCHANGED <<today, filed, withdrawn, rows, package, facts, scrape, doc, parse>>
        /\ pc'[p] \notin {"scan"} \cup Parsing
        /\ \A q \in Run : q = p
    BY <1>7 DEF DownloadFails, ReadClock, RecordFails, EndDownloads, OneCommand, edinet, store,
                fetch, Parsing
  <2>2. /\ Chosen(p)' \subseteq Chosen(p) /\ year'[p] # LatestYear
        /\ pc'[p] \in InHand => pc[p] \in InHand /\ year'[p] = year[p] /\ todo'[p] = todo[p]
        /\ pc'[p] \in {"stamp", "record"} => pc[p] \in {"stamp", "record"}
    <3>1. CASE DownloadFails(p)
      BY <3>1 DEF DownloadFails, Chosen, InHand, Downloading, Sequential, HandSound, fetch
    <3>2. CASE ReadClock(p)
      BY <3>2 DEF ReadClock, Chosen, InHand, Downloading, Sequential, HandSound
    <3>3. CASE RecordFails(p)
      BY <3>3 DEF RecordFails, Chosen, InHand, Downloading, Sequential, HandSound, fetch
    <3>4. CASE EndDownloads(p)
      BY <3>4 DEF EndDownloads, Chosen, InHand, Downloading, UnknownYear, LatestYear
    <3>. QED  BY <1>7, <3>1, <3>2, <3>3, <3>4
  <2>. QED  BY <2>1, <2>2, SequentialElsewhere DEF scrape, parse
<1>8. ASSUME NEW p \in Run,
             \/ SkipExisting(p) \/ ParseBatch(p) \/ EndParse(p)
             \/ ParseFails(p) \/ CommandFails(p) \/ Kill(p)
      PROVE  Sequential'
  <2>1. /\ UNCHANGED <<today, filed, withdrawn, rows, package, facts, doc, cursor, last>>
        /\ pc'[p] \notin {"scan"} \cup Downloading
        /\ pc'[p] \in Parsing => pc[p] \in Parsing /\ UNCHANGED inputs
        /\ year'[p] \in {year[p], UnknownYear}
        /\ \A q \in Run : q = p
    BY <1>8 DEF SkipExisting, ParseBatch, EndParse, ParseFails, CommandFails, Kill, Abort,
                OneCommand, edinet, store, scrape, fetch, Downloading, Parsing
  <2>2. Chosen(p)' = {}
    BY <2>1 DEF Chosen, InHand, Downloading
  <2>3. year'[p] # LatestYear
    BY <2>1 DEF Sequential, HandSound, UnknownYear, LatestYear
  <2>. QED  BY <2>1, <2>2, <2>3, SequentialElsewhere DEF InHand, Downloading
<1>. QED
  BY <1>1, <1>2, <1>3, <1>4, <1>5, <1>6, <1>7, <1>8 DEF Next, Progress, Fault

LEMMA SequentialInvariant ==
    ASSUME OneCommand, DefaultOptions PROVE Spec => [](TypeOK /\ Sequential)
<1>1. Init => Sequential
  BY FilingAssumption
     DEF Init, Sequential, PackageOnDisk, ChosenSound, HandSound, ScanSound, RowsSound, FactsSound,
         Chosen, RowDocs, InHand, Downloading, Parsing, Standing, LatestYear, UnknownYear
<1>2. TypeOK /\ DocInHand /\ Clocked /\ Sequential /\ [Next]_vars => Sequential'
  BY SequentialStep
<1>3. Spec => [](TypeOK /\ DocInHand)
  BY TypeCorrect
<1>. QED  BY <1>1, <1>2, <1>3, ClockedInvariant, PTL DEF Spec

\* With default options and one command at a time each recorded report can be
\* read from disk, wherever commands fail or are killed between two steps of
\* replacing a package (download_and_extract_xbrl_with_client).
THEOREM RecordedOnDisk ==
    ASSUME OneCommand, DefaultOptions PROVE Spec => []PackageOnDisk
<1>1. TypeOK /\ Sequential => PackageOnDisk
  BY DEF Sequential
<1>. QED  BY <1>1, SequentialInvariant, PTL

\* If a correction restates the period of its report, then with default options
\* and one command at a time the report's values do not stand beside it, unless
\* it has been withdrawn: in whatever order and on whatever days both were
\* filed, found, fetched again after failures, recorded and merged.
THEOREM CorrectionsWin ==
    ASSUME OneCommand, DefaultOptions, CorrectionsRestate PROVE Spec => []CorrectionWins
<1>1. ASSUME TypeOK, Sequential, NEW t \in Ticker,
             NEW r \in facts[t].standing, NEW c \in facts[t].merged,
             Corrects(DocOf(c.doc), DocOf(r.doc)), c.doc \notin withdrawn
      PROVE  FALSE
  <2>1. r \in Standing(facts[t].merged) /\ r \in rows /\ c \in rows
    BY <1>1 DEF Sequential, FactsSound, Standing
  <2>2. DocOf(c.doc) \in Filing /\ DocOf(r.doc) \in Filing
    BY <1>1, <2>1, DocOfId DEF TypeOK, Row
  <2>3. DocOf(c.doc).period = DocOf(r.doc).period
    BY <1>1, <2>2 DEF CorrectionsRestate
  <2>4. c.year = r.year /\ r.at < c.at
    BY <1>1, <2>1, <2>3 DEF Sequential, RowsSound, YearOf
  <2>5. c.at \in Int /\ r.at \in Int
    BY <1>1, <2>1 DEF TypeOK, Row, Stamp
  <2>. QED  BY <2>1, <2>3, <2>4, <2>5 DEF Standing, Later
<1>2. TypeOK /\ Sequential => CorrectionWins
  <2>. SUFFICES ASSUME TypeOK, Sequential, NEW t \in Ticker,
                       NEW r \in facts[t].standing, NEW c \in facts[t].merged,
                       DocOf(c.doc).correction, DocOf(c.doc).parent = r.doc
                PROVE  c.doc \in withdrawn
    BY DEF CorrectionWins
  <2>1. r \in Row
    BY DEF TypeOK
  <2>2. DocOf(r.doc).id = r.doc
    BY <2>1, DocOfId DEF Row
  <2>. QED  BY <1>1, <2>2 DEF Corrects
<1>. QED  BY <1>2, SequentialInvariant, PTL
=============================================================================
