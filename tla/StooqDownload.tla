--------------------------- MODULE StooqDownload ---------------------------
(***************************************************************************)
(* The download behind a Stooq update: the Python client of                *)
(* sources/stooq/downloader.py and browser_client/client.py, the Stooq     *)
(* endpoints of services/browser/server.js, Chrome, and the one directory  *)
(* (var/raw/stooq) into which the Chromes of all processes download.       *)
(* Each process starts a browser service of its own; a call to it ends     *)
(* with an answer or with the client's HTTP timeout, after which the       *)
(* handler goes on alone.  A process may also be killed; its service is in *)
(* a session of its own and survives it.                                   *)
(***************************************************************************)
EXTENDS Integers

CONSTANTS
    Run,           \* processes that update from Stooq
    None,          \* no file, no date
    LastDate,      \* bound: the last day
    YearLength,    \* days after which a month-day label comes again
    NamedByLabel,  \* does the site name files by label (0429_d) or by date?
    Scraper,       \* those that are scrape-stooq-prices, the callers with
                   \* reuse_existing; the others are refresh-prices
    MaxAttempts,   \* max_captcha_attempts
    Unsure         \* bound: the processes whose closes of a session may fail

ASSUME DownloadAssumption ==
    /\ LastDate \in Nat
    /\ YearLength \in Nat \ {0}
    /\ NamedByLabel \in BOOLEAN
    /\ Scraper \subseteq Run /\ Unsure \subseteq Run
    /\ MaxAttempts \in Nat \ {0}
    /\ None \notin 0 .. LastDate
    /\ None \notin [date : 0 .. LastDate, good : BOOLEAN]

Date == 0 .. LastDate
Name == Date

\* Chrome keeps the site's name for the file, over an older one of that name.
FileName(d) == IF NamedByLabel THEN d % YearLength ELSE d

VARIABLES
    published,   \* date of the newest daily link
    folder,      \* per name: the finished file of that name
    transfer,    \* per run: the date its Chrome is writing to a .crdownload
    pc,          \* per run: where the client is
    attempt,     \* per run: the attempt, and so the session it prepares
    prepared,    \* per run: the date the client reports
    file,        \* per run: name of the file it got
    handler,     \* per run: where the handler of its service is
    pooled,      \* per run: the pool has a browser for "direct"
    pages,       \* per run: open pages, by the attempt that opened them
    sessions,    \* per run: stooqSessions
    unclosed,    \* history, per run: sessions a close of which failed, so that
                 \* the entry or the page is still there
    changed,     \* per run: the name changed last since the snapshot
    imported,    \* history, per run: the file it imported
    written      \* history, per run: names written since it began

site == <<published, folder>>
client == <<attempt, prepared, file>>
service == <<pooled, pages, sessions, unclosed>>
history == <<imported, written>>
vars == <<site, transfer, pc, client, handler, service, changed, history>>

Active == {"prepare", "decide", "complete", "import", "stop"}
Finished == {"idle", "killed"}

(***************************************************************************)
(* Pieces of the handlers.                                                 *)
(***************************************************************************)
\* closeBrowser("direct"): its pages and its download die with Chrome.
CloseBrowser(p) ==
    /\ pooled' = [pooled EXCEPT ![p] = FALSE]
    /\ pages' = [pages EXCEPT ![p] = {}]
    /\ transfer' = [transfer EXCEPT ![p] = None]
    /\ unclosed' = [unclosed EXCEPT ![p] = @ \cap sessions'[p]]

CloseNothing(p) == UNCHANGED <<pooled, pages, transfer, unclosed>>

\* closeStooqSession: the entry goes before page.close() is awaited, and stays
\* away when that fails, which is only logged.
CloseSession(p, s) ==
    /\ sessions' = [sessions EXCEPT ![p] = @ \ {s}]
    /\ \/ /\ pages' = [pages EXCEPT ![p] = @ \ ({s} \cap sessions[p])]
          /\ unclosed' = [unclosed EXCEPT ![p] = @ \ ({s} \cap sessions[p])]
       \/ /\ p \in Unsure /\ s \in sessions[p] \cap pages[p]
          /\ unclosed' = [unclosed EXCEPT ![p] = @ \cup {s}]
          /\ UNCHANGED pages

\* close_stooq_session: the client logs a call that fails and goes on.
CallClose(p) ==
    \/ CloseSession(p, attempt[p])
    \/ /\ p \in Unsure /\ attempt[p] \in sessions[p]
       /\ unclosed' = [unclosed EXCEPT ![p] = @ \cup {attempt[p]}]
       /\ UNCHANGED <<sessions, pages>>

\* The handler's answer reaches the client only while it still waits.
Answer(p, call, next) ==
    /\ handler' = [handler EXCEPT ![p] = "none"]
    /\ pc' = [pc EXCEPT ![p] = IF @ = call THEN next ELSE @]

(***************************************************************************)
(* The client: download_daily_file inside update_stooq_daily_prices.       *)
(***************************************************************************)
\* Nothing of an earlier occupant of the slot is left: see KilledCleaned.
Quiet(p) == handler[p] = "none" /\ ~pooled[p] /\ sessions[p] = {}

\* The locals of the client and of the handler before they start, or when
\* they are gone.
Reset(p) ==
    /\ attempt' = [attempt EXCEPT ![p] = 1]
    /\ prepared' = [prepared EXCEPT ![p] = None]
    /\ file' = [file EXCEPT ![p] = None]
    /\ changed' = [changed EXCEPT ![p] = None]
    /\ imported' = [imported EXCEPT ![p] = None]
    /\ written' = [written EXCEPT ![p] = {}]

Begin(p) ==
    /\ pc[p] \in Finished
    /\ Quiet(p)
    /\ Reset(p)
    /\ pc' = [pc EXCEPT ![p] = "prepare"]
    /\ handler' = [handler EXCEPT ![p] = "open"]
    /\ UNCHANGED <<site, transfer, service>>

Existing(p) == folder[FileName(prepared[p])]

\* The session is closed unused: the day's file is there already.
ReuseExisting(p) ==
    /\ pc[p] = "decide"
    /\ p \in Scraper
    /\ Existing(p) # None
    /\ CallClose(p)
    /\ IF Existing(p).good
       THEN /\ file' = [file EXCEPT ![p] = FileName(prepared[p])]
            /\ pc' = [pc EXCEPT ![p] = "import"]
       ELSE /\ pc' = [pc EXCEPT ![p] = "stop"]
            /\ UNCHANGED file
    /\ UNCHANGED <<site, transfer, attempt, prepared, handler, pooled, changed, history>>

AnotherAttemptUncounted(p) ==
    /\ pc' = [pc EXCEPT ![p] = "prepare"]
    /\ handler' = [handler EXCEPT ![p] = "open"]
    /\ UNCHANGED attempt

\* The finally block closes the session, or tries to, before the next attempt or the end.
AnotherAttempt(p) ==
    IF attempt[p] < MaxAttempts
    THEN /\ attempt' = [attempt EXCEPT ![p] = @ + 1]
         /\ pc' = [pc EXCEPT ![p] = "prepare"]
         /\ handler' = [handler EXCEPT ![p] = "open"]
    ELSE /\ pc' = [pc EXCEPT ![p] = "stop"]
         /\ handler' = [handler EXCEPT ![p] = "none"]
         /\ UNCHANGED attempt

CaptchaUnreadableUnclosed(p) ==
    /\ pc[p] = "decide"
    /\ p \in Scraper => Existing(p) = None
    /\ AnotherAttempt(p)
    /\ UNCHANGED <<site, transfer, prepared, file, service, changed, history>>

\* The image does not decode, or OCR finds no four characters.
CaptchaUnreadable(p) ==
    /\ pc[p] = "decide"
    /\ p \in Scraper => Existing(p) = None
    /\ CallClose(p)
    /\ AnotherAttempt(p)
    /\ UNCHANGED <<site, transfer, prepared, file, pooled, changed, history>>

SubmitUnsnapped(p) ==
    /\ pc[p] = "decide"
    /\ p \in Scraper => Existing(p) = None
    /\ attempt[p] \in sessions[p]
    /\ pc' = [pc EXCEPT ![p] = "complete"]
    /\ handler' = [handler EXCEPT ![p] = "approve"]
    /\ \E name \in {None} \cup {n \in Name : folder[n] # None} :
           changed' = [changed EXCEPT ![p] = name]
    /\ UNCHANGED <<site, transfer, client, service, history>>

\* complete-daily-download up to its first await, the snapshot included.
Submit(p) ==
    /\ pc[p] = "decide"
    /\ p \in Scraper => Existing(p) = None
    /\ attempt[p] \in sessions[p]
    /\ pc' = [pc EXCEPT ![p] = "complete"]
    /\ handler' = [handler EXCEPT ![p] = "approve"]
    /\ changed' = [changed EXCEPT ![p] = None]
    /\ UNCHANGED <<site, transfer, client, service, history>>

\* 404: the sweep was faster.
SessionUnknown(p) ==
    /\ pc[p] = "decide"
    /\ p \in Scraper => Existing(p) = None
    /\ attempt[p] \notin sessions[p]
    /\ pc' = [pc EXCEPT ![p] = "stop"]
    /\ UNCHANGED <<site, transfer, client, handler, service, changed, history>>

\* requests.post gives up; the session the client knows of is closed.
HttpTimeout(p) ==
    /\ pc[p] \in {"prepare", "complete"}
    /\ pc' = [pc EXCEPT ![p] = "stop"]
    /\ IF pc[p] = "complete" THEN CallClose(p) ELSE UNCHANGED <<sessions, pages, unclosed>>
    /\ UNCHANGED <<site, transfer, client, handler, pooled, changed, history>>

\* _validate_download and ingest_daily_prices on what the file holds by then.
Import(p) ==
    /\ pc[p] = "import"
    /\ imported' = [imported EXCEPT ![p] =
           IF folder[file[p]].good
           THEN [new |-> file[p] \in written[p]]
           ELSE None]
    /\ pc' = [pc EXCEPT ![p] = "stop"]
    /\ UNCHANGED <<site, transfer, client, handler, service, changed, written>>

\* shutdown(): sessions, browsers and the service go, whatever it is doing.
Stop(p) ==
    /\ pc[p] = "stop"
    /\ sessions' = [sessions EXCEPT ![p] = {}]
    /\ CloseBrowser(p)
    /\ handler' = [handler EXCEPT ![p] = "none"]
    /\ pc' = [pc EXCEPT ![p] = "idle"]
    /\ Reset(p)
    /\ UNCHANGED site

\* The client's locals go with it; its service does not notice.
Killed(p) ==
    /\ pc[p] \in Active
    /\ pc' = [pc EXCEPT ![p] = "killed"]
    /\ file' = [file EXCEPT ![p] = None]
    /\ imported' = [imported EXCEPT ![p] = None]
    /\ written' = [written EXCEPT ![p] = {}]
    /\ UNCHANGED <<site, transfer, attempt, prepared, handler, service, changed>>

(***************************************************************************)
(* The service.                                                            *)
(***************************************************************************)
OpenPage(p) ==
    /\ handler[p] = "open"
    /\ pooled' = [pooled EXCEPT ![p] = TRUE]
    /\ pages' = [pages EXCEPT ![p] = @ \cup {attempt[p]}]
    /\ handler' = [handler EXCEPT ![p] = "captcha"]
    /\ UNCHANGED <<site, transfer, pc, client, sessions, unclosed, changed, history>>

\* The newest link is read, and the captcha it asks for is photographed.
PrepareAnswers(p) ==
    /\ handler[p] = "captcha"
    /\ attempt[p] \in pages[p]
    /\ sessions' = [sessions EXCEPT ![p] = @ \cup {attempt[p]}]
    /\ prepared' = [prepared EXCEPT ![p] = published]
    /\ Answer(p, "prepare", "decide")
    /\ UNCHANGED <<site, transfer, attempt, file, pooled, pages, unclosed, changed, history>>

PrepareFailsOpen(p) ==
    /\ handler[p] \in {"open", "captcha"}
    /\ UNCHANGED sessions
    /\ CloseNothing(p)
    /\ Answer(p, "prepare", "stop")
    /\ UNCHANGED <<site, client, changed, history>>

PrepareFails(p) ==
    /\ handler[p] \in {"open", "captcha"}
    /\ UNCHANGED sessions
    /\ CloseBrowser(p)
    /\ Answer(p, "prepare", "stop")
    /\ UNCHANGED <<site, client, changed, history>>

\* The code is accepted, the link clicked, and the wait for a file begins.
Approve(p) ==
    /\ handler[p] = "approve"
    /\ attempt[p] \in pages[p]
    /\ handler' = [handler EXCEPT ![p] = "clicked"]
    /\ UNCHANGED <<site, transfer, pc, client, service, changed, history>>

\* "Stooq CAPTCHA rejected" is the one answer that is tried again.
Reject(p) ==
    /\ handler[p] = "approve"
    /\ sessions' = [sessions EXCEPT ![p] = @ \ {attempt[p]}]
    /\ CloseBrowser(p)
    /\ IF pc[p] = "complete"
       THEN AnotherAttempt(p)
       ELSE handler' = [handler EXCEPT ![p] = "none"] /\ UNCHANGED <<pc, attempt>>
    /\ changed' = [changed EXCEPT ![p] = None]
    /\ UNCHANGED <<site, prepared, file, history>>

\* waitForDownload: a changed file, and none that is still being written.
CompleteAnswers(p) ==
    /\ handler[p] \in {"clicked", "download"}
    /\ changed[p] # None
    /\ \A q \in Run : transfer[q] = None
    /\ file' = [file EXCEPT ![p] = IF pc[p] = "complete" THEN changed[p] ELSE @]
    /\ CloseSession(p, attempt[p])
    /\ Answer(p, "complete", "import")
    /\ changed' = [changed EXCEPT ![p] = None]
    /\ UNCHANGED <<site, transfer, attempt, prepared, pooled, history>>

CompleteFails(p) ==
    /\ handler[p] \in {"approve", "clicked", "download"}
    /\ sessions' = [sessions EXCEPT ![p] = @ \ {attempt[p]}]
    /\ CloseBrowser(p)
    /\ Answer(p, "complete", "stop")
    /\ changed' = [changed EXCEPT ![p] = None]
    /\ UNCHANGED <<site, client, history>>

\* The 30-second timer: sessions and browsers nobody has used for long.  A
\* session that the client failed to close is one of them (or the call is late).
SweepSession(p) ==
    /\ \E s \in sessions[p] :
           /\ handler[p] = "none" \/ s \in unclosed[p]
           /\ CloseSession(p, s)
    /\ UNCHANGED <<site, transfer, pc, client, handler, pooled, changed, history>>

\* The browser is closed, but stays in the pool.
SweepBrowserKept(p) ==
    /\ handler[p] = "none"
    /\ pooled[p]
    /\ pages' = [pages EXCEPT ![p] = {}]
    /\ transfer' = [transfer EXCEPT ![p] = None]
    /\ UNCHANGED <<site, pc, client, handler, pooled, sessions, unclosed, changed, history>>

SweepBrowser(p) ==
    /\ handler[p] = "none"
    /\ pooled[p]
    /\ UNCHANGED sessions
    /\ CloseBrowser(p)
    /\ UNCHANGED <<site, pc, client, handler, changed, history>>

(***************************************************************************)
(* Chrome and the site.                                                    *)
(***************************************************************************)
\* Chrome gets to the clicked link, and keeps a .crdownload while it loads.
TransferBegins(p) ==
    /\ handler[p] = "clicked"
    /\ transfer' = [transfer EXCEPT ![p] = prepared[p]]
    /\ handler' = [handler EXCEPT ![p] = "download"]
    /\ UNCHANGED <<site, pc, client, service, changed, history>>

\* A finished download: prices, or a page that says "unauthorized".
FileAppears(p) ==
    LET name == FileName(transfer[p])
    IN  /\ transfer[p] # None
        /\ \E good \in BOOLEAN :
               folder' = [folder EXCEPT ![name] = [date |-> transfer[p], good |-> good]]
        /\ transfer' = [transfer EXCEPT ![p] = None]
        /\ changed' = [q \in Run |->
               IF handler[q] \in {"approve", "clicked", "download"} THEN name ELSE changed[q]]
        /\ written' = [q \in Run |-> IF pc[q] \in Active THEN written[q] \cup {name} ELSE {}]
        /\ UNCHANGED <<published, pc, client, handler, service, imported>>

NewDay ==
    /\ published < LastDate
    /\ published' = published + 1
    /\ UNCHANGED <<folder, transfer, pc, client, handler, service, changed, history>>

Init ==
    /\ published = 0
    /\ folder = [n \in Name |-> None]
    /\ transfer = [p \in Run |-> None]
    /\ pc = [p \in Run |-> "idle"]
    /\ attempt = [p \in Run |-> 1]
    /\ prepared = [p \in Run |-> None]
    /\ file = [p \in Run |-> None]
    /\ handler = [p \in Run |-> "none"]
    /\ pooled = [p \in Run |-> FALSE]
    /\ pages = [p \in Run |-> {}]
    /\ sessions = [p \in Run |-> {}]
    /\ unclosed = [p \in Run |-> {}]
    /\ changed = [p \in Run |-> None]
    /\ imported = [p \in Run |-> None]
    /\ written = [p \in Run |-> {}]

Client(p) ==
    \/ ReuseExisting(p) \/ CaptchaUnreadable(p) \/ Submit(p) \/ SessionUnknown(p)
    \/ Import(p) \/ Stop(p)

Serve(p) ==
    \/ OpenPage(p) \/ PrepareAnswers(p) \/ PrepareFails(p)
    \/ Approve(p) \/ Reject(p) \/ CompleteAnswers(p) \/ CompleteFails(p)

Step(p) == Client(p) \/ HttpTimeout(p) \/ Serve(p) \/ SweepSession(p) \/ SweepBrowser(p)

Next ==
    \/ \E p \in Run :
          Begin(p) \/ Step(p) \/ Killed(p) \/ TransferBegins(p) \/ FileAppears(p)
    \/ NewDay

Spec == Init /\ [][Next]_vars

\* A client goes on, a call to the service ends by its timeout, a handler by
\* its deadline, and the timer of the service keeps running.
Fairness == \A p \in Run : WF_vars(Step(p))

LiveSpec == Spec /\ Fairness
-----------------------------------------------------------------------------
File == [date : Date, good : BOOLEAN]

\* The types of the client's locals, of the service's maps and of the folder.
DownloadTypeOK ==
    /\ published \in Date
    /\ folder \in [Name -> File \cup {None}]
    /\ transfer \in [Run -> Date \cup {None}]
    /\ pc \in [Run -> Active \cup Finished]
    /\ attempt \in [Run -> 1 .. MaxAttempts]
    /\ prepared \in [Run -> Date \cup {None}]
    /\ file \in [Run -> Name \cup {None}]
    /\ handler \in [Run -> {"none", "open", "captcha", "approve", "clicked", "download"}]
    /\ pooled \in [Run -> BOOLEAN]
    /\ pages \in [Run -> SUBSET (1 .. MaxAttempts)]
    /\ sessions \in [Run -> SUBSET (1 .. MaxAttempts)]
    /\ unclosed \in [Run -> SUBSET (1 .. MaxAttempts)]
    /\ changed \in [Run -> Name \cup {None}]
    /\ imported \in [Run -> [new : BOOLEAN] \cup {None}]
    /\ written \in [Run -> SUBSET Name]

\* server.js: a page is open for the handler that prepares it, for a session
\* that the timer can find, or because its close failed.  No other failure,
\* answer to nobody or retry leaves one.
NoLeakedPage ==
    \A p \in Run :
        pages[p] \subseteq sessions[p] \cup unclosed[p] \cup
            (IF handler[p] \in {"open", "captcha"} THEN {attempt[p]} ELSE {})

\* downloader.py: when an attempt begins, the sessions of the attempts before
\* it are closed, whichever way they ended, or a call to close them failed: a
\* client holds one at a time.
OneOpenSession ==
    \A p \in Run : handler[p] = "open" => sessions[p] \subseteq unclosed[p]

\* price_refresh.py passes reuse_existing=False: what a refresh imports was
\* downloaded after it began (if perhaps by another process), and is never a
\* file that lay in the folder.
RefreshImportsNew ==
    \A p \in Run : p \notin Scraper /\ imported[p] # None => imported[p].new

\* client.py starts the service in a session of its own, so that it outlives a
\* killed client: its browsers and sessions are gone in the end all the same.
\* (A slot stays "killed" until it is Quiet, so this is "killed" ~> Quiet.)
KilledCleaned == \A p \in Run : []<>(pc[p] = "killed" => Quiet(p))

\* An update ends, whatever hangs or dies in the service: its process is never
\* active for good.
UpdateEnds == \A p \in Run : []<>(pc[p] \in Finished)
=============================================================================
