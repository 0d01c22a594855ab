------------------------ MODULE StooqDownloadProofs ------------------------
(***************************************************************************)
(* Proofs about the Stooq download, for any number of processes, any       *)
(* number of attempts, any dates and both ways of naming files.            *)
(***************************************************************************)
EXTENDS StooqDownload, TLAPS

\* A day's file has a name of the folder, whichever way the site names it.
LEMMA NamesAreNames == \A d \in Date : FileName(d) \in Name
<1>. SUFFICES ASSUME NEW d \in Date PROVE FileName(d) \in Name
  OBVIOUS
<1>1. d \in Nat /\ d <= LastDate /\ LastDate \in Nat /\ YearLength \in Nat \ {0}
  BY DownloadAssumption DEF Date
<1>2. /\ d % YearLength \in 0 .. (YearLength - 1)
      /\ d = YearLength * (d \div YearLength) + (d % YearLength)
      /\ d \div YearLength \in Nat
  BY <1>1
<1>3. YearLength * (d \div YearLength) \in Nat
  BY <1>1, <1>2
<1>4. d % YearLength \in 0 .. LastDate
  BY <1>1, <1>2, <1>3
<1>. QED  BY <1>4 DEF FileName, Name, Date

\* A client that decides has a date, what a snapshot shows as changed is a
\* file written since, and a client that imports has a file; a refresh has
\* one that was written after it began.
FilesInHand ==
    \A p \in Run :
        /\ pc[p] = "decide" => prepared[p] \in Date
        /\ changed[p] # None => folder[changed[p]] # None
        /\ pc[p] \in Active /\ changed[p] # None => changed[p] \in written[p]
        /\ pc[p] = "import" => /\ file[p] \in Name
                               /\ folder[file[p]] # None
                               /\ p \notin Scraper => file[p] \in written[p]

\* A call to close the client's session, whether it works or not, touches the
\* three maps of the client's own service alone, and what it leaves is unclosed.
LEMMA CallCloses ==
    ASSUME DownloadTypeOK, NEW p \in Run, CallClose(p)
    PROVE  /\ pages' \in [Run -> SUBSET (1 .. MaxAttempts)]
           /\ sessions' \in [Run -> SUBSET (1 .. MaxAttempts)]
           /\ unclosed' \in [Run -> SUBSET (1 .. MaxAttempts)]
           /\ /\ sessions[p] \subseteq {attempt[p]} \cup unclosed[p]
              /\ pages[p] \subseteq sessions[p] \cup unclosed[p]
              => sessions'[p] \subseteq unclosed'[p] /\ pages'[p] \subseteq unclosed'[p]
           /\ \A q \in Run \ {p} : /\ pages'[q] = pages[q]
                                  /\ sessions'[q] = sessions[q]
                                  /\ unclosed'[q] = unclosed[q]
<1>. USE DEF DownloadTypeOK
<1>1. CASE CloseSession(p, attempt[p])
  BY <1>1 DEF CloseSession
<1>2. CASE /\ unclosed' = [unclosed EXCEPT ![p] = @ \cup {attempt[p]}]
           /\ UNCHANGED <<sessions, pages>>
  BY <1>2
<1>. QED  BY <1>1, <1>2 DEF CallClose

\* A further attempt changes the client's own locals alone.
LEMMA AttemptGoesOn ==
    ASSUME DownloadTypeOK, NEW p \in Run, AnotherAttempt(p)
    PROVE  /\ attempt' \in [Run -> 1 .. MaxAttempts]
           /\ pc' \in [Run -> Active \cup Finished]
           /\ handler' \in [Run -> {"none", "open", "captcha", "approve", "clicked", "download"}]
           /\ pc'[p] \in {"prepare", "stop"}
           /\ \A q \in Run \ {p} :
                  pc'[q] = pc[q] /\ handler'[q] = handler[q] /\ attempt'[q] = attempt[q]
<1>0. /\ attempt \in [Run -> 1 .. MaxAttempts]
      /\ pc \in [Run -> Active \cup Finished]
      /\ handler \in [Run -> {"none", "open", "captcha", "approve", "clicked", "download"}]
      /\ MaxAttempts \in Nat
  BY DownloadAssumption DEF DownloadTypeOK
<1>1. CASE attempt[p] < MaxAttempts
  <2>1. attempt[p] + 1 \in 1 .. MaxAttempts
    BY <1>0, <1>1
  <2>2. /\ attempt' = [attempt EXCEPT ![p] = attempt[p] + 1]
        /\ pc' = [pc EXCEPT ![p] = "prepare"]
        /\ handler' = [handler EXCEPT ![p] = "open"]
    BY <1>1 DEF AnotherAttempt
  <2>. QED  BY <1>0, <2>1, <2>2 DEF Active
<1>2. CASE ~(attempt[p] < MaxAttempts)
  BY <1>0, <1>2 DEF AnotherAttempt, Active
<1>. QED  BY <1>1, <1>2

\* Locals, maps and folder keep their types, and files stay in hand.
THEOREM TypeCorrect == Spec => [](DownloadTypeOK /\ FilesInHand)
<1>. USE DownloadAssumption, NamesAreNames DEF DownloadTypeOK, FilesInHand, Active, Finished, File
<1>1. Init => DownloadTypeOK /\ FilesInHand
  BY DEF Init, Name, Date
<1>2. DownloadTypeOK /\ FilesInHand /\ [Next]_vars => DownloadTypeOK' /\ FilesInHand'
  <2> SUFFICES ASSUME DownloadTypeOK, FilesInHand, [Next]_vars
               PROVE  DownloadTypeOK' /\ FilesInHand'
    OBVIOUS
  <2>. USE DEF site, client, service, history, CloseSession, CloseBrowser, Answer, AnotherAttempt, Reset
  <2>0. 1 \in 1 .. MaxAttempts /\ None \notin Date /\ None \notin Name
    BY DEF Name, Date
  <2>1. ASSUME NEW p \in Run, Begin(p)
        PROVE  DownloadTypeOK' /\ FilesInHand'
    BY <2>0, <2>1 DEF Begin
  <2>2. ASSUME NEW p \in Run, ReuseExisting(p)
        PROVE  DownloadTypeOK' /\ FilesInHand'
    <3>1. FileName(prepared[p]) \in Name
      BY <2>2 DEF ReuseExisting
    <3>. DEFINE name == FileName(prepared[p])
    <3>2. name \in Name /\ folder[name] # None /\ p \in Scraper
      BY <2>2, <3>1 DEF ReuseExisting, Existing
    <3>3. /\ file' \in [Run -> Name \cup {None}]
          /\ pc' \in [Run -> Active \cup Finished]
          /\ pc[p] = "decide" /\ pc'[p] \in {"import", "stop"}
          /\ \A q \in Run \ {p} : file'[q] = file[q] /\ pc'[q] = pc[q]
          /\ pc'[p] = "import" => file'[p] = name
      <4>1. CASE Existing(p).good
        <5>1. /\ file' = [file EXCEPT ![p] = name]
              /\ pc' = [pc EXCEPT ![p] = "import"]
              /\ pc[p] = "decide"
          BY <2>2, <4>1 DEF ReuseExisting
        <5>. HIDE DEF name
        <5>. QED  BY <3>2, <5>1
      <4>2. CASE ~Existing(p).good
        BY <2>2, <3>2, <4>2 DEF ReuseExisting
      <4>. QED  BY <4>1, <4>2
    <3>4. /\ pages' \in [Run -> SUBSET (1 .. MaxAttempts)]
          /\ sessions' \in [Run -> SUBSET (1 .. MaxAttempts)]
          /\ unclosed' \in [Run -> SUBSET (1 .. MaxAttempts)]
          /\ UNCHANGED <<site, transfer, attempt, prepared, handler, pooled, changed, history>>
      BY <2>2, CallCloses DEF ReuseExisting
    <3>. HIDE DEF name
    <3>. QED  BY <2>0, <3>2, <3>3, <3>4
  <2>3. ASSUME NEW p \in Run, CaptchaUnreadable(p)
        PROVE  DownloadTypeOK' /\ FilesInHand'
    <3>1. /\ pages' \in [Run -> SUBSET (1 .. MaxAttempts)]
          /\ sessions' \in [Run -> SUBSET (1 .. MaxAttempts)]
          /\ unclosed' \in [Run -> SUBSET (1 .. MaxAttempts)]
          /\ UNCHANGED <<site, transfer, prepared, file, pooled, changed, history>>
      BY <2>3, CallCloses DEF CaptchaUnreadable
    <3>2. AnotherAttempt(p)
      BY <2>3 DEF CaptchaUnreadable
    <3>3. /\ attempt' \in [Run -> 1 .. MaxAttempts]
          /\ pc' \in [Run -> Active \cup Finished]
          /\ pc'[p] \in {"prepare", "stop"} /\ \A q \in Run \ {p} : pc'[q] = pc[q]
          /\ handler' \in [Run -> {"none", "open", "captcha", "approve", "clicked", "download"}]
      BY <3>2, AttemptGoesOn
    <3>4. /\ UNCHANGED <<folder, prepared, file, changed, written>>
          /\ pc[p] \in Active
          /\ \A q \in Run :
                 \/ pc'[q] \in {"prepare", "stop"} /\ pc[q] \in Active
                 \/ pc'[q] = pc[q]
      BY <2>3, <3>1, <3>3 DEF CaptchaUnreadable
    <3>5. FilesInHand'
      BY <3>4
    <3>. QED  BY <3>1, <3>3, <3>5
  <2>4. ASSUME NEW p \in Run, Submit(p) \/ SessionUnknown(p)
        PROVE  DownloadTypeOK' /\ FilesInHand'
    <3>1. CASE Submit(p)
      BY <3>1 DEF Submit
    <3>2. CASE SessionUnknown(p)
      BY <3>2 DEF SessionUnknown
    <3>. QED  BY <2>4, <3>1, <3>2
  <2>5. ASSUME NEW p \in Run, HttpTimeout(p)
        PROVE  DownloadTypeOK' /\ FilesInHand'
    <3>1. /\ pages' \in [Run -> SUBSET (1 .. MaxAttempts)]
          /\ sessions' \in [Run -> SUBSET (1 .. MaxAttempts)]
          /\ unclosed' \in [Run -> SUBSET (1 .. MaxAttempts)]
      BY <2>5, CallCloses DEF HttpTimeout
    <3>. QED  BY <2>5, <3>1 DEF HttpTimeout
  <2>6. ASSUME NEW p \in Run, Import(p)
        PROVE  DownloadTypeOK' /\ FilesInHand'
    <3>1. folder[file[p]] \in File
      BY <2>6 DEF Import
    <3>. QED  BY <2>6, <3>1 DEF Import
  <2>7. ASSUME NEW p \in Run, Stop(p) \/ Killed(p)
        PROVE  DownloadTypeOK' /\ FilesInHand'
    <3>1. CASE Stop(p)
      BY <2>0, <3>1 DEF Stop
    <3>2. CASE Killed(p)
      <4>1. DownloadTypeOK'
        BY <3>2 DEF Killed
      <4>2. FilesInHand'
        BY <3>2 DEF Killed
      <4>. QED  BY <4>1, <4>2
    <3>. QED  BY <2>7, <3>1, <3>2
  <2>8. ASSUME NEW p \in Run, OpenPage(p)
        PROVE  DownloadTypeOK' /\ FilesInHand'
    BY <2>8 DEF OpenPage
  <2>9. ASSUME NEW p \in Run, PrepareAnswers(p)
        PROVE  DownloadTypeOK' /\ FilesInHand'
    BY <2>9 DEF PrepareAnswers
  <2>10. ASSUME NEW p \in Run, PrepareFails(p) \/ Approve(p)
         PROVE  DownloadTypeOK' /\ FilesInHand'
    <3>1. CASE PrepareFails(p)
      BY <3>1 DEF PrepareFails
    <3>2. CASE Approve(p)
      BY <3>2 DEF Approve
    <3>. QED  BY <2>10, <3>1, <3>2
  <2>11. ASSUME NEW p \in Run, Reject(p)
         PROVE  DownloadTypeOK' /\ FilesInHand'
    <3>1. /\ pages' \in [Run -> SUBSET (1 .. MaxAttempts)]
          /\ sessions' \in [Run -> SUBSET (1 .. MaxAttempts)]
          /\ unclosed' \in [Run -> SUBSET (1 .. MaxAttempts)]
          /\ pooled' \in [Run -> BOOLEAN]
          /\ transfer' \in [Run -> Date \cup {None}]
      BY <2>11 DEF Reject
    <3>2. /\ attempt' \in [Run -> 1 .. MaxAttempts]
          /\ pc' \in [Run -> Active \cup Finished]
          /\ pc'[p] # pc[p] => pc'[p] \in {"prepare", "stop"}
          /\ \A q \in Run \ {p} : pc'[q] = pc[q]
          /\ handler' \in [Run -> {"none", "open", "captcha", "approve", "clicked", "download"}]
      <4>1. CASE pc[p] = "complete"
        BY <2>11, <4>1, AttemptGoesOn DEF Reject
      <4>2. CASE pc[p] # "complete"
        BY <2>11, <4>2 DEF Reject
      <4>. QED  BY <4>1, <4>2
    <3>4. /\ changed' \in [Run -> Name \cup {None}]
          /\ changed'[p] = None /\ \A q \in Run \ {p} : changed'[q] = changed[q]
      BY <2>11 DEF Reject
    <3>3. UNCHANGED <<site, prepared, file, history>>
      BY <2>11 DEF Reject
    <3>. QED  BY <3>1, <3>2, <3>3, <3>4
  <2>12. ASSUME NEW p \in Run, CompleteAnswers(p)
         PROVE  DownloadTypeOK' /\ FilesInHand'
    <3>1. /\ pages' \in [Run -> SUBSET (1 .. MaxAttempts)]
          /\ sessions' \in [Run -> SUBSET (1 .. MaxAttempts)]
          /\ unclosed' \in [Run -> SUBSET (1 .. MaxAttempts)]
      BY <2>12 DEF CompleteAnswers, CloseSession
    <3>2. /\ changed[p] # None
          /\ file' = [file EXCEPT ![p] = IF pc[p] = "complete" THEN changed[p] ELSE @]
          /\ pc' = [pc EXCEPT ![p] = IF @ = "complete" THEN "import" ELSE @]
          /\ handler' = [handler EXCEPT ![p] = "none"]
          /\ changed' = [changed EXCEPT ![p] = None]
          /\ UNCHANGED <<site, transfer, attempt, prepared, pooled, history>>
      BY <2>12 DEF CompleteAnswers, Answer
    <3>3. /\ pc' \in [Run -> Active \cup Finished]
          /\ handler' \in [Run -> {"none", "open", "captcha", "approve", "clicked", "download"}]
          /\ changed' \in [Run -> Name \cup {None}]
          /\ file' \in [Run -> Name \cup {None}]
      BY <3>2
    <3>4. FilesInHand'
      BY <2>0, <3>2
    <3>. QED  BY <3>1, <3>2, <3>3, <3>4
  <2>13. ASSUME NEW p \in Run, CompleteFails(p)
         PROVE  DownloadTypeOK' /\ FilesInHand'
    BY <2>13 DEF CompleteFails
  <2>14. ASSUME NEW p \in Run, SweepSession(p) \/ SweepBrowser(p)
         PROVE  DownloadTypeOK' /\ FilesInHand'
    <3>1. CASE SweepSession(p)
      <4>1. /\ pages' \in [Run -> SUBSET (1 .. MaxAttempts)]
            /\ sessions' \in [Run -> SUBSET (1 .. MaxAttempts)]
            /\ unclosed' \in [Run -> SUBSET (1 .. MaxAttempts)]
        BY <3>1 DEF SweepSession, CloseSession
      <4>2. UNCHANGED <<site, transfer, pc, client, handler, pooled, changed, history>>
        BY <3>1 DEF SweepSession
      <4>3. FilesInHand'
        BY <4>2
      <4>. QED  BY <4>1, <4>2, <4>3
    <3>2. CASE SweepBrowser(p)
      BY <3>2 DEF SweepBrowser
    <3>. QED  BY <2>14, <3>1, <3>2
  <2>15. ASSUME NEW p \in Run, TransferBegins(p)
         PROVE  DownloadTypeOK' /\ FilesInHand'
    BY <2>15 DEF TransferBegins
  <2>16. ASSUME NEW p \in Run, FileAppears(p)
         PROVE  DownloadTypeOK' /\ FilesInHand'
    <3>. DEFINE name == FileName(transfer[p])
    <3>1. transfer[p] \in Date /\ name \in Name
      BY <2>16 DEF FileAppears
    <3>. HIDE DEF name
    <3>2. PICK good \in BOOLEAN :
            folder' = [folder EXCEPT ![name] = [date |-> transfer[p], good |-> good]]
      BY <2>16 DEF FileAppears, name
    <3>3. /\ [date |-> transfer[p], good |-> good] \in File
          /\ [date |-> transfer[p], good |-> good] # None
      BY <3>1 DEF Date
    <3>4. \A q \in Run :
             (IF pc[q] \in Active THEN written[q] \cup {name} ELSE {}) \in SUBSET Name
      BY <3>1
    <3>5. written' \in [Run -> SUBSET Name]
      BY <2>16, <3>4 DEF FileAppears, name
    <3>6. FilesInHand' /\ folder' \in [Name -> File \cup {None}]
      BY <2>0, <2>16, <3>1, <3>2, <3>3 DEF FileAppears, name
    <3>7. changed' \in [Run -> Name \cup {None}]
      BY <2>16, <3>1 DEF FileAppears, name
    <3>. QED  BY <2>16, <3>5, <3>6, <3>7 DEF FileAppears
  <2>17. CASE NewDay
    BY <2>17 DEF NewDay, Date
  <2>18. CASE UNCHANGED vars
    BY <2>18 DEF vars
  <2>. QED
    BY <2>1, <2>2, <2>3, <2>4, <2>5, <2>6, <2>7, <2>8, <2>9, <2>10, <2>11, <2>12, <2>13,
       <2>14, <2>15, <2>16, <2>17, <2>18
       DEF Next, Step, Client, Serve
<1>. QED  BY <1>1, <1>2, PTL DEF Spec
-----------------------------------------------------------------------------
\* The sessions of a service are the one of the attempt its client is at and
\* those whose close failed, which are all there are while it prepares one;
\* only a browser has pages, and pages are as NoLeakedPage says.
OneSession ==
    /\ NoLeakedPage
    /\ \A p \in Run :
           /\ sessions[p] \subseteq {attempt[p]} \cup unclosed[p]
           /\ handler[p] \in {"open", "captcha"} => sessions[p] \subseteq unclosed[p]
           /\ ~pooled[p] => pages[p] = {}
           /\ pc[p] \in {"decide", "import"} => handler[p] = "none"

\* It stays so over every step of clients, services, timers and Chrome.
LEMMA OneSessionInvariant == Spec => []OneSession
<1>. USE DEF DownloadTypeOK, OneSession, NoLeakedPage
<1>1. Init => OneSession
  BY DEF Init
<1>2. DownloadTypeOK /\ OneSession /\ [Next]_vars => OneSession'
  <2> SUFFICES ASSUME DownloadTypeOK, OneSession, [Next]_vars
               PROVE  OneSession'
    OBVIOUS
  <2>. USE DEF site, client, service, history, CloseSession, CloseBrowser, Answer, AnotherAttempt, Reset, Active, Finished
  <2>1. ASSUME NEW p \in Run, Begin(p)
        PROVE  OneSession'
    BY <2>1 DEF Begin, Quiet
  <2>2. ASSUME NEW p \in Run, ReuseExisting(p)
        PROVE  OneSession'
    <3>1. /\ sessions'[p] \subseteq unclosed'[p] /\ pages'[p] \subseteq unclosed'[p]
          /\ \A q \in Run \ {p} : /\ pages'[q] = pages[q]
                                 /\ sessions'[q] = sessions[q]
                                 /\ unclosed'[q] = unclosed[q]
      BY <2>2, CallCloses DEF ReuseExisting
    <3>2. /\ \A q \in Run \ {p} : pc'[q] = pc[q]
          /\ handler[p] = "none"
          /\ ~pooled[p] => pages'[p] = {}
          /\ UNCHANGED <<handler, pooled, attempt>>
      BY <2>2 DEF ReuseExisting, CallClose
    <3>. QED  BY <3>1, <3>2
  <2>3. ASSUME NEW p \in Run, CaptchaUnreadable(p)
        PROVE  OneSession'
    <3>1. /\ sessions'[p] \subseteq unclosed'[p] /\ pages'[p] \subseteq unclosed'[p]
          /\ \A q \in Run \ {p} : /\ pages'[q] = pages[q]
                                 /\ sessions'[q] = sessions[q]
                                 /\ unclosed'[q] = unclosed[q]
      BY <2>3, CallCloses DEF CaptchaUnreadable
    <3>2. /\ \A q \in Run \ {p} : pc'[q] = pc[q] /\ handler'[q] = handler[q] /\ attempt'[q] = attempt[q]
          /\ pc'[p] \in {"prepare", "stop"}
      BY <2>3 DEF CaptchaUnreadable
    <3>3. /\ ~pooled[p] => pages'[p] = {}
          /\ UNCHANGED pooled
      BY <2>3 DEF CaptchaUnreadable, CallClose
    <3>. QED  BY <3>1, <3>2, <3>3
  <2>4. ASSUME NEW p \in Run, Submit(p) \/ SessionUnknown(p)
        PROVE  OneSession'
    BY <2>4 DEF Submit, SessionUnknown
  <2>5. ASSUME NEW p \in Run, HttpTimeout(p)
        PROVE  OneSession'
    <3>1. /\ UNCHANGED <<handler, attempt, pooled>>
          /\ pc[p] \in {"prepare", "complete"} /\ pc'[p] = "stop"
          /\ \A q \in Run \ {p} : pc'[q] = pc[q]
      BY <2>5 DEF HttpTimeout
    <3>2. CASE pc[p] = "complete"
      <4>1. CallClose(p)
        BY <2>5, <3>2 DEF HttpTimeout
      <4>2. CASE CloseSession(p, attempt[p])
        BY <3>1, <4>2
      <4>3. CASE /\ unclosed' = [unclosed EXCEPT ![p] = @ \cup {attempt[p]}]
                 /\ UNCHANGED <<sessions, pages>>
        BY <3>1, <4>3
      <4>. QED  BY <4>1, <4>2, <4>3 DEF CallClose
    <3>3. CASE pc[p] # "complete"
      BY <2>5, <3>1, <3>3 DEF HttpTimeout
    <3>. QED  BY <3>2, <3>3
  <2>6. ASSUME NEW p \in Run, Import(p) \/ Killed(p)
        PROVE  OneSession'
    BY <2>6 DEF Import, Killed
  <2>7. ASSUME NEW p \in Run, Stop(p)
        PROVE  OneSession'
    BY <2>7 DEF Stop
  <2>8. ASSUME NEW p \in Run, OpenPage(p)
        PROVE  OneSession'
    BY <2>8 DEF OpenPage
  <2>9. ASSUME NEW p \in Run, PrepareAnswers(p)
        PROVE  OneSession'
    BY <2>9 DEF PrepareAnswers
  <2>10. ASSUME NEW p \in Run, PrepareFails(p)
         PROVE  OneSession'
    BY <2>10 DEF PrepareFails
  <2>11. ASSUME NEW p \in Run, Approve(p) \/ TransferBegins(p)
         PROVE  OneSession'
    BY <2>11 DEF Approve, TransferBegins
  <2>12. ASSUME NEW p \in Run, Reject(p)
         PROVE  OneSession'
    <3>1. /\ sessions'[p] = sessions[p] \ {attempt[p]} /\ pages'[p] = {}
          /\ unclosed'[p] = unclosed[p] \cap sessions'[p]
          /\ \A q \in Run \ {p} : /\ pages'[q] = pages[q]
                                 /\ sessions'[q] = sessions[q]
                                 /\ unclosed'[q] = unclosed[q]
                                 /\ pooled'[q] = pooled[q]
      BY <2>12 DEF Reject
    <3>2. /\ \A q \in Run \ {p} : pc'[q] = pc[q] /\ handler'[q] = handler[q] /\ attempt'[q] = attempt[q]
          /\ pc'[p] \in {"decide", "import"} => FALSE
      BY <2>12 DEF Reject
    <3>. QED  BY <3>1, <3>2
  <2>13. ASSUME NEW p \in Run, CompleteAnswers(p)
         PROVE  OneSession'
    BY <2>13 DEF CompleteAnswers
  <2>14. ASSUME NEW p \in Run, CompleteFails(p)
         PROVE  OneSession'
    BY <2>14 DEF CompleteFails
  <2>15. ASSUME NEW p \in Run, SweepSession(p) \/ SweepBrowser(p)
         PROVE  OneSession'
    BY <2>15 DEF SweepSession, SweepBrowser
  <2>16. ASSUME NEW p \in Run, FileAppears(p)
         PROVE  OneSession'
    BY <2>16 DEF FileAppears
  <2>17. CASE NewDay \/ UNCHANGED vars
    BY <2>17 DEF NewDay, vars
  <2>. QED
    BY <2>1, <2>2, <2>3, <2>4, <2>5, <2>6, <2>7, <2>8, <2>9, <2>10, <2>11, <2>12, <2>13,
       <2>14, <2>15, <2>16, <2>17
       DEF Next, Step, Client, Serve
<1>. QED  BY <1>1, <1>2, TypeCorrect, PTL DEF Spec

\* No failure, late answer, timeout or retry leaves a page that neither the
\* handler at work nor the timer of the service closes.
THEOREM NoPageLeaks == Spec => []NoLeakedPage
BY OneSessionInvariant, PTL DEF OneSession

\* An attempt begins with the sessions of the attempts before it closed.
THEOREM SessionsClosed == Spec => []OneOpenSession
<1>1. OneSession => OneOpenSession
  BY DEF OneSession, OneOpenSession
<1>. QED  BY <1>1, OneSessionInvariant, PTL
-----------------------------------------------------------------------------
\* What a refresh imports was written after it began, however its handler,
\* the other processes and Chrome interleave with it.
THEOREM ImportsNew == Spec => []RefreshImportsNew
<1>. USE DEF DownloadTypeOK, FilesInHand, RefreshImportsNew
<1>1. Init => RefreshImportsNew
  BY DEF Init
<1>2. /\ DownloadTypeOK /\ FilesInHand /\ RefreshImportsNew
      /\ [Next]_vars
      => RefreshImportsNew'
  <2> SUFFICES ASSUME DownloadTypeOK, FilesInHand, RefreshImportsNew, [Next]_vars
               PROVE  RefreshImportsNew'
    OBVIOUS
  <2>1. ASSUME NEW p \in Run, Begin(p) \/ Stop(p) \/ Killed(p)
        PROVE  RefreshImportsNew'
    BY <2>1 DEF Begin, Stop, Killed, Reset
  <2>2. ASSUME NEW p \in Run, Import(p)
        PROVE  RefreshImportsNew'
    BY <2>2 DEF Import
  <2>3. CASE UNCHANGED imported
    BY <2>3
  <2>4. ASSUME NEW p \in Run,
               \/ ReuseExisting(p) \/ CaptchaUnreadable(p) \/ Submit(p) \/ SessionUnknown(p)
               \/ HttpTimeout(p) \/ SweepSession(p) \/ SweepBrowser(p)
        PROVE  UNCHANGED imported
    BY <2>4 DEF ReuseExisting, CaptchaUnreadable, Submit, SessionUnknown,
                HttpTimeout, SweepSession, SweepBrowser, history
  <2>5. ASSUME NEW p \in Run, Serve(p) \/ TransferBegins(p) \/ FileAppears(p)
        PROVE  UNCHANGED imported
    BY <2>5 DEF Serve, OpenPage, PrepareAnswers, PrepareFails, Approve, Reject,
                CompleteAnswers, CompleteFails, TransferBegins, FileAppears, history
  <2>6. CASE NewDay \/ UNCHANGED vars
    BY <2>3, <2>6 DEF NewDay, vars, history
  <2>. QED
    BY <2>1, <2>2, <2>3, <2>4, <2>5, <2>6 DEF Next, Step, Client
<1>. QED  BY <1>1, <1>2, TypeCorrect, PTL DEF Spec
=============================================================================
