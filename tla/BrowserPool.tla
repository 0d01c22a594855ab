---------------------------- MODULE BrowserPool ----------------------------
(***************************************************************************)
(* The browser pool of services/browser/server.js: getBrowser,             *)
(* closeBrowser, openRequestPage and the handlers of /fetch, /evaluate and *)
(* /download around them.  Node runs one handler at a time; a handler      *)
(* gives way at each await, so an action here is the code between two      *)
(* awaits.  Chrome may refuse to start, may die, and may fail any call.    *)
(***************************************************************************)
EXTENDS Integers, FiniteSets

CONSTANTS
    Request,    \* slots for requests in progress
    Key,        \* pool keys: proxy address and user
    Browser,    \* bound: identities of browser processes, reused when free
    None,       \* no browser, no key
    PoolSize,   \* BROWSER_POOL_SIZE
    IdleLimit   \* BROWSER_IDLE_TIMEOUT in ticks

ASSUME PoolAssumption ==
    /\ IsFiniteSet(Key)
    /\ None \notin Key /\ None \notin Browser
    /\ PoolSize \in Nat \ {0}
    /\ IdleLimit \in Nat

VARIABLES
    browserPool,         \* per key: the pooled browser
    pendingConnections,  \* per key: the browser whose connect() is shared
    chrome,              \* per browser: the state of its process
    owner,               \* per browser: the key it was launched for
    idle,                \* per browser: ticks since lastUsed
    pc, key, attempt,    \* per request: where it is, for which key, which try
    entry,               \* per request: the browser it awaits or uses
    refused              \* history: the browser of the request's first try

pool == <<browserPool, pendingConnections>>
process == <<chrome, owner, idle>>
request == <<key, attempt, entry, refused>>
vars == <<pool, process, pc, request>>

Waiting == {"get", "wait", "evict", "page", "work", "retry", "throw", "reject"}
Answered == {"idle", "ok", "error"}

Pooled == {k \in Key : browserPool[k] # None}

\* No process and no reference to one: the identity may be used again.
Free(b) ==
    /\ chrome[b] = "none"
    /\ \A r \in Request : entry[r] # b /\ refused[r] # b

Gone(b) == b # None => chrome[b] = "none"

(***************************************************************************)
(* Pieces of the handlers.                                                 *)
(***************************************************************************)
\* The synchronous part of closeBrowser(k); target receives what is awaited.
CloseBrowserStill(r, k) ==
    /\ entry' = [entry EXCEPT ![r] = None]
    /\ UNCHANGED <<browserPool, chrome>>

CloseBrowser(r, k) ==
    /\ browserPool' = [browserPool EXCEPT ![k] = None]
    /\ entry' = [entry EXCEPT ![r] = browserPool[k]]
    /\ chrome' = IF browserPool[k] = None THEN chrome
                 ELSE [chrome EXCEPT ![browserPool[k]] = "closing"]

Launch(r) ==
    \E b \in Browser :
        /\ Free(b)
        /\ chrome' = [chrome EXCEPT ![b] = "launching"]
        /\ owner' = [owner EXCEPT ![b] = key[r]]
        /\ pendingConnections' = [pendingConnections EXCEPT ![key[r]] = b]
        /\ entry' = [entry EXCEPT ![r] = b]
        /\ pc' = [pc EXCEPT ![r] = "wait"]
        /\ UNCHANGED <<browserPool, idle, key, attempt, refused>>

(***************************************************************************)
(* getBrowser.                                                             *)
(***************************************************************************)
Start(r) ==
    /\ pc[r] \in Answered
    /\ \E k \in Key : key' = [key EXCEPT ![r] = k]
    /\ attempt' = [attempt EXCEPT ![r] = 1]
    /\ pc' = [pc EXCEPT ![r] = "get"]
    /\ UNCHANGED <<pool, process, entry, refused>>

UsePooled(r) ==
    LET b == browserPool[key[r]]
    IN  /\ pc[r] = "get"
        /\ b # None
        /\ idle' = [idle EXCEPT ![b] = 0]
        /\ entry' = [entry EXCEPT ![r] = b]
        /\ pc' = [pc EXCEPT ![r] = "page"]
        /\ UNCHANGED <<pool, chrome, owner, key, attempt, refused>>

ShareConnection(r) ==
    LET b == pendingConnections[key[r]]
    IN  /\ pc[r] = "get"
        /\ browserPool[key[r]] = None
        /\ b # None
        /\ entry' = [entry EXCEPT ![r] = b]
        /\ pc' = [pc EXCEPT ![r] = "wait"]
        /\ UNCHANGED <<pool, process, key, attempt, refused>>

Absent(k) == browserPool[k] = None /\ pendingConnections[k] = None

Oldest(k) == \A other \in Pooled : idle[browserPool[other]] <= idle[browserPool[k]]

\* The pool is full: the least recently used browser is closed, and awaited,
\* before connect() is called.
Evict(r) ==
    /\ pc[r] = "get"
    /\ Absent(key[r])
    /\ Cardinality(Pooled) >= PoolSize
    /\ \E k \in Pooled : Oldest(k) /\ CloseBrowser(r, k)
    /\ pc' = [pc EXCEPT ![r] = "evict"]
    /\ UNCHANGED <<pendingConnections, owner, idle, key, attempt, refused>>

ConnectNotShared(r) ==
    /\ pc[r] = "get"
    /\ browserPool[key[r]] = None
    /\ Cardinality(Pooled) < PoolSize
    /\ Launch(r)

Connect(r) ==
    /\ pc[r] = "get"
    /\ Absent(key[r])
    /\ Cardinality(Pooled) < PoolSize
    /\ Launch(r)

ConnectAfterEviction(r) ==
    /\ pc[r] = "evict"
    /\ Gone(entry[r])
    /\ Launch(r)

(***************************************************************************)
(* openRequestPage and the handlers.                                       *)
(***************************************************************************)
OpenPage(r) ==
    /\ pc[r] = "page"
    /\ chrome[entry[r]] = "up"
    /\ idle' = [idle EXCEPT ![entry[r]] = 0]
    /\ pc' = [pc EXCEPT ![r] = "work"]
    /\ UNCHANGED <<pool, chrome, owner, request>>

PageFailsOnly(r) ==
    /\ pc[r] = "page"
    /\ refused' = [refused EXCEPT ![r] = IF attempt[r] = 1 THEN entry[r] ELSE @]
    /\ CloseBrowserStill(r, key[r])
    /\ pc' = [pc EXCEPT ![r] = "retry"]
    /\ UNCHANGED <<pendingConnections, owner, idle, key, attempt>>

\* newPage() fails, always so on a browser that is not up.
PageFails(r) ==
    /\ pc[r] = "page"
    /\ refused' = [refused EXCEPT ![r] = IF attempt[r] = 1 THEN entry[r] ELSE @]
    /\ CloseBrowser(r, key[r])
    /\ pc' = [pc EXCEPT ![r] = "retry"]
    /\ UNCHANGED <<pendingConnections, owner, idle, key, attempt>>

RetryForever(r) ==
    /\ pc[r] = "retry"
    /\ Gone(entry[r])
    /\ entry' = [entry EXCEPT ![r] = None]
    /\ pc' = [pc EXCEPT ![r] = "get"]
    /\ UNCHANGED <<pool, process, key, attempt, refused>>

Retry(r) ==
    /\ pc[r] = "retry"
    /\ Gone(entry[r])
    /\ entry' = [entry EXCEPT ![r] = None]
    /\ \/ /\ attempt[r] = 1
          /\ attempt' = [attempt EXCEPT ![r] = 2]
          /\ pc' = [pc EXCEPT ![r] = "get"]
       \/ /\ attempt[r] = 2
          /\ pc' = [pc EXCEPT ![r] = "throw"]
          /\ UNCHANGED attempt
    /\ UNCHANGED <<pool, process, key, refused>>

Succeed(r) ==
    /\ pc[r] = "work"
    /\ chrome[entry[r]] = "up"
    /\ pc' = [pc EXCEPT ![r] = "ok"]
    /\ entry' = [entry EXCEPT ![r] = None]
    /\ refused' = [refused EXCEPT ![r] = None]
    /\ UNCHANGED <<pool, process, key, attempt>>

\* The site, the challenge, the deadline or the browser ends the work.
WorkFails(r) ==
    /\ pc[r] = "work"
    /\ pc' = [pc EXCEPT ![r] = "throw"]
    /\ UNCHANGED <<pool, process, request>>

\* The handler's catch block closes whatever browser its key has by then.
CatchError(r) ==
    /\ pc[r] = "throw"
    /\ CloseBrowser(r, key[r])
    /\ pc' = [pc EXCEPT ![r] = "reject"]
    /\ UNCHANGED <<pendingConnections, owner, idle, key, attempt, refused>>

RespondError(r) ==
    /\ pc[r] = "reject"
    /\ Gone(entry[r])
    /\ pc' = [pc EXCEPT ![r] = "error"]
    /\ entry' = [entry EXCEPT ![r] = None]
    /\ refused' = [refused EXCEPT ![r] = None]
    /\ UNCHANGED <<pool, process, key, attempt>>

(***************************************************************************)
(* Chrome and the timer.                                                   *)
(***************************************************************************)
Awaiting(b) == {r \in Request : pc[r] = "wait" /\ entry[r] = b}

Connected(b) ==
    /\ chrome[b] = "launching"
    /\ chrome' = [chrome EXCEPT ![b] = "up"]
    /\ idle' = [idle EXCEPT ![b] = 0]
    /\ browserPool' = [browserPool EXCEPT ![owner[b]] = b]
    /\ pendingConnections' = [pendingConnections EXCEPT ![owner[b]] = None]
    /\ pc' = [r \in Request |-> IF r \in Awaiting(b) THEN "page" ELSE pc[r]]
    /\ UNCHANGED <<owner, request>>

ConnectFailsKept(b) ==
    /\ chrome[b] = "launching"
    /\ chrome' = [chrome EXCEPT ![b] = "none"]
    /\ pc' = [r \in Request |-> IF r \in Awaiting(b) THEN "throw" ELSE pc[r]]
    /\ entry' = [r \in Request |-> IF r \in Awaiting(b) THEN None ELSE entry[r]]
    /\ UNCHANGED <<browserPool, pendingConnections, owner, idle, key, attempt, refused>>

ConnectFails(b) ==
    /\ chrome[b] = "launching"
    /\ chrome' = [chrome EXCEPT ![b] = "none"]
    /\ pendingConnections' = [pendingConnections EXCEPT ![owner[b]] = None]
    /\ pc' = [r \in Request |-> IF r \in Awaiting(b) THEN "throw" ELSE pc[r]]
    /\ entry' = [r \in Request |-> IF r \in Awaiting(b) THEN None ELSE entry[r]]
    /\ UNCHANGED <<browserPool, owner, idle, key, attempt, refused>>

\* browser.close() returns, or fails on a process that is already dead.
Closed(b) ==
    /\ chrome[b] = "closing"
    /\ chrome' = [chrome EXCEPT ![b] = "none"]
    /\ UNCHANGED <<pool, owner, idle, pc, request>>

\* The process dies; the pool does not notice.
Crash(b) ==
    /\ chrome[b] = "up"
    /\ chrome' = [chrome EXCEPT ![b] = "crashed"]
    /\ UNCHANGED <<pool, owner, idle, pc, request>>

Tick ==
    /\ idle' = [b \in Browser |-> IF idle[b] <= IdleLimit THEN idle[b] + 1 ELSE idle[b]]
    /\ UNCHANGED <<pool, chrome, owner, pc, request>>

SweepForgets(k) ==
    /\ browserPool[k] # None
    /\ idle[browserPool[k]] > IdleLimit
    /\ browserPool' = [browserPool EXCEPT ![k] = None]
    /\ UNCHANGED <<pendingConnections, process, pc, request>>

Sweep(k) ==
    /\ browserPool[k] # None
    /\ idle[browserPool[k]] > IdleLimit
    /\ chrome' = [chrome EXCEPT ![browserPool[k]] = "closing"]
    /\ browserPool' = [browserPool EXCEPT ![k] = None]
    /\ UNCHANGED <<pendingConnections, owner, idle, pc, request>>

Init ==
    /\ browserPool = [k \in Key |-> None]
    /\ pendingConnections = [k \in Key |-> None]
    /\ chrome = [b \in Browser |-> "none"]
    /\ owner = [b \in Browser |-> None]
    /\ idle = [b \in Browser |-> 0]
    /\ pc = [r \in Request |-> "idle"]
    /\ key = [r \in Request |-> None]
    /\ attempt = [r \in Request |-> 1]
    /\ entry = [r \in Request |-> None]
    /\ refused = [r \in Request |-> None]

Handle(r) ==
    \/ UsePooled(r) \/ ShareConnection(r) \/ Evict(r) \/ Connect(r) \/ ConnectAfterEviction(r)
    \/ OpenPage(r) \/ PageFails(r) \/ Retry(r)
    \/ Succeed(r) \/ WorkFails(r) \/ CatchError(r) \/ RespondError(r)

Browse(b) == Connected(b) \/ ConnectFails(b) \/ Closed(b)

Next ==
    \/ \E r \in Request : Start(r) \/ Handle(r)
    \/ \E b \in Browser : Browse(b) \/ Crash(b)
    \/ Tick
    \/ \E k \in Key : Sweep(k)

Spec == Init /\ [][Next]_vars

\* Node goes on with every handler whose await has settled, and each call to
\* Chrome settles: pages by their deadline, connect() and close() on their own.
\* Handlers need strong fairness only for the bound Browser, which can disable
\* connect() for a while where Chrome would simply start one more process.
Fairness ==
    /\ \A r \in Request : SF_vars(Handle(r))
    /\ \A b \in Browser : WF_vars(Browse(b))

LiveSpec == Spec /\ Fairness
-----------------------------------------------------------------------------
BrowserOrNone == Browser \cup {None}

\* The types of the pool's maps and of the handlers' locals.
TypeOK ==
    /\ browserPool \in [Key -> BrowserOrNone]
    /\ pendingConnections \in [Key -> BrowserOrNone]
    /\ chrome \in [Browser -> {"none", "launching", "up", "crashed", "closing"}]
    /\ owner \in [Browser -> Key \cup {None}]
    /\ idle \in [Browser -> 0 .. IdleLimit + 1]
    /\ pc \in [Request -> Waiting \cup Answered]
    /\ key \in [Request -> Key \cup {None}]
    /\ attempt \in [Request -> 1 .. 2]
    /\ entry \in [Request -> BrowserOrNone]
    /\ refused \in [Request -> BrowserOrNone]

\* server.js:53: pendingConnections holds the in-flight connect() calls.  Each
\* call is found there under its key, so that a second request shares it.
InFlightTracked ==
    \A b \in Browser : chrome[b] = "launching" => pendingConnections[owner[b]] = b

\* A promise that has settled is not left for later requests to await.
PendingIsInFlight ==
    \A k \in Key : pendingConnections[k] # None => chrome[pendingConnections[k]] = "launching"

\* A running browser is in the pool, where eviction, the idle sweep and
\* shutdown find it: none is leaked.
NoLeakedBrowser ==
    \A b \in Browser : chrome[b] \in {"up", "crashed"} => browserPool[owner[b]] = b

\* The second try of openRequestPage never runs on the browser that refused
\* the first one, whichever requests replaced or closed it in between.
SecondTryElsewhere ==
    \A r \in Request : pc[r] \in {"page", "work"} /\ attempt[r] = 2 => entry[r] # refused[r]

\* Every request is answered, whatever dies or is closed under it.
EveryRequestAnswered == \A r \in Request : pc[r] = "get" ~> pc[r] \in Answered
=============================================================================
