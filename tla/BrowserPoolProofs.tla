------------------------- MODULE BrowserPoolProofs -------------------------
(***************************************************************************)
(* Proofs about BrowserPool, for any number of requests and browsers.  The *)
(* pool is sound as long as it never has to evict, that is with no more    *)
(* keys than BROWSER_POOL_SIZE: the Python clients use one key and a pool  *)
(* of one.                                                                 *)
(***************************************************************************)
EXTENDS BrowserPool, FiniteSetTheorems, TLAPS

\* A pool with room for every key.
Roomy == Cardinality(Key) <= PoolSize

\* A handler in progress has a key of the pool: what closeBrowser looks up.
KeyChosen == \A r \in Request : pc[r] \in Waiting => key[r] \in Key

\* The maps of the pool and the locals of the handlers keep their types.
THEOREM TypeCorrect == Spec => [](TypeOK /\ KeyChosen)
<1>. USE PoolAssumption DEF TypeOK, KeyChosen, BrowserOrNone, Waiting, Answered
<1>1. Init => TypeOK /\ KeyChosen
  BY DEF Init
<1>2. TypeOK /\ KeyChosen /\ [Next]_vars => TypeOK' /\ KeyChosen'
  <2> SUFFICES ASSUME TypeOK, KeyChosen, [Next]_vars PROVE TypeOK' /\ KeyChosen'
    OBVIOUS
  <2>. USE DEF pool, process, request
  <2>1. ASSUME NEW r \in Request, Start(r)
        PROVE  TypeOK' /\ KeyChosen'
    BY <2>1 DEF Start
  <2>2. ASSUME NEW r \in Request, UsePooled(r) \/ ShareConnection(r)
        PROVE  TypeOK' /\ KeyChosen'
    <3>1. CASE UsePooled(r)
      <4>1. idle' \in [Browser -> 0 .. IdleLimit + 1]
        BY <3>1 DEF UsePooled
      <4>. QED  BY <3>1, <4>1 DEF UsePooled
    <3>2. CASE ShareConnection(r)
      BY <3>2 DEF ShareConnection
    <3>. QED  BY <2>2, <3>1, <3>2
  <2>3. ASSUME NEW r \in Request, Evict(r)
        PROVE  TypeOK' /\ KeyChosen'
    BY <2>3 DEF Evict, CloseBrowser, Pooled
  <2>4. ASSUME NEW r \in Request, Connect(r) \/ ConnectAfterEviction(r)
        PROVE  TypeOK' /\ KeyChosen'
    BY <2>4 DEF Connect, ConnectAfterEviction, Launch
  <2>5. ASSUME NEW r \in Request, OpenPage(r)
        PROVE  TypeOK' /\ KeyChosen'
    <3>1. idle' \in [Browser -> 0 .. IdleLimit + 1]
      <4>1. idle' = [idle EXCEPT ![entry[r]] = 0] /\ 0 \in 0 .. IdleLimit + 1
        BY <2>5 DEF OpenPage
      <4>2. idle \in [Browser -> 0 .. IdleLimit + 1]
        OBVIOUS
      <4>. HIDE DEF TypeOK, KeyChosen
      <4>. QED  BY <4>1, <4>2
    <3>. QED  BY <2>5, <3>1 DEF OpenPage
  <2>6. ASSUME NEW r \in Request, PageFails(r)
        PROVE  TypeOK' /\ KeyChosen'
    <3>1. browserPool[key[r]] \in BrowserOrNone
      BY <2>6 DEF PageFails
    <3>. QED  BY <2>6, <3>1 DEF PageFails, CloseBrowser
  <2>7. ASSUME NEW r \in Request, Retry(r)
        PROVE  TypeOK' /\ KeyChosen'
    BY <2>7 DEF Retry
  <2>8. ASSUME NEW r \in Request, Succeed(r) \/ WorkFails(r) \/ RespondError(r)
        PROVE  TypeOK' /\ KeyChosen'
    BY <2>8 DEF Succeed, WorkFails, RespondError
  <2>9. ASSUME NEW r \in Request, CatchError(r)
        PROVE  TypeOK' /\ KeyChosen'
    <3>1. browserPool[key[r]] \in BrowserOrNone
      BY <2>9 DEF CatchError
    <3>. QED  BY <2>9, <3>1 DEF CatchError, CloseBrowser
  <2>10. ASSUME NEW b \in Browser, Connected(b) \/ ConnectFails(b)
        PROVE  TypeOK' /\ KeyChosen'
    BY <2>10 DEF Connected, ConnectFails, Awaiting
  <2>11. ASSUME NEW b \in Browser, Closed(b) \/ Crash(b)
        PROVE  TypeOK' /\ KeyChosen'
    BY <2>11 DEF Closed, Crash
  <2>12. CASE Tick
    BY <2>12 DEF Tick
  <2>13. ASSUME NEW k \in Key, Sweep(k)
        PROVE  TypeOK' /\ KeyChosen'
    BY <2>13 DEF Sweep
  <2>14. CASE UNCHANGED vars
    BY <2>14 DEF vars
  <2>. QED
    BY <2>1, <2>2, <2>3, <2>4, <2>5, <2>6, <2>7, <2>8, <2>9, <2>10, <2>11, <2>12, <2>13, <2>14
       DEF Next, Handle, Browse
<1>. QED  BY <1>1, <1>2, PTL DEF Spec
-----------------------------------------------------------------------------
\* With room for every key, a key without a pooled browser finds the pool not full.
LEMMA RoomLeft ==
    ASSUME Roomy, NEW k \in Key, browserPool[k] = None
    PROVE  ~(Cardinality(Pooled) >= PoolSize)
<1>1. Pooled \subseteq Key /\ Pooled # Key
  BY DEF Pooled
<1>2. IsFiniteSet(Key) /\ PoolSize \in Nat
  BY PoolAssumption
<1>3. /\ IsFiniteSet(Pooled) /\ Cardinality(Pooled) \in Nat /\ Cardinality(Key) \in Nat
      /\ Cardinality(Pooled) < Cardinality(Key)
  BY <1>1, <1>2, FS_Subset, FS_CardinalityType
<1>. QED  BY <1>2, <1>3 DEF Roomy

(***************************************************************************)
(* The pool's bookkeeping.  Both properties of the runs are parts of it;   *)
(* they become inductive with their converses, with the fact that no key   *)
(* is pooled and pending at once, and with the absence of evictions, whose *)
(* await is where a second connect() for the same key slips in.            *)
(***************************************************************************)
PendingLaunches ==
    \A k \in Key : pendingConnections[k] # None =>
        chrome[pendingConnections[k]] = "launching" /\ owner[pendingConnections[k]] = k

PooledRuns ==
    \A k \in Key : browserPool[k] # None =>
        chrome[browserPool[k]] \in {"up", "crashed"} /\ owner[browserPool[k]] = k

OnePerKey == \A k \in Key : browserPool[k] = None \/ pendingConnections[k] = None

Owned == \A b \in Browser : chrome[b] # "none" => owner[b] \in Key

NoEviction == \A r \in Request : pc[r] # "evict"

Bookkeeping ==
    /\ InFlightTracked /\ NoLeakedBrowser
    /\ PendingLaunches /\ PooledRuns /\ OnePerKey /\ Owned /\ NoEviction

\* closeBrowser takes a browser out of the pool and out of service together.
LEMMA CloseKeepsBooks ==
    ASSUME TypeOK, Bookkeeping, NEW k \in Key, browserPool[k] # None,
           browserPool' = [browserPool EXCEPT ![k] = None],
           chrome' = [chrome EXCEPT ![browserPool[k]] = "closing"],
           UNCHANGED <<pendingConnections, owner>>, NoEviction'
    PROVE  Bookkeeping'
<1>1. browserPool[k] \in Browser
  BY DEF TypeOK, BrowserOrNone
<1>. USE <1>1 DEF TypeOK, Bookkeeping
<1>2. \A j \in Key : j # k => browserPool'[j] = browserPool[j] /\ browserPool[j] # browserPool[k]
  BY PoolAssumption DEF PooledRuns
<1>3. InFlightTracked' /\ NoLeakedBrowser'
  BY <1>2 DEF InFlightTracked, NoLeakedBrowser
<1>4. PendingLaunches'
  BY DEF PendingLaunches, PooledRuns
<1>5. PooledRuns'
  BY <1>2 DEF PooledRuns, BrowserOrNone
<1>6. OnePerKey' /\ Owned'
  BY <1>2 DEF OnePerKey, Owned, PooledRuns
<1>. QED  BY <1>3, <1>4, <1>5, <1>6

\* The same for what a handler runs of closeBrowser, which may find no browser.
LEMMA HandlerCloseKeepsBooks ==
    ASSUME TypeOK, Bookkeeping, NEW r \in Request, NEW k \in Key, CloseBrowser(r, k),
           UNCHANGED <<pendingConnections, owner>>, NoEviction'
    PROVE  Bookkeeping'
<1>1. CASE browserPool[k] # None
  BY <1>1, CloseKeepsBooks DEF CloseBrowser
<1>2. CASE browserPool[k] = None
  <2>1. browserPool' = browserPool /\ chrome' = chrome
    BY <1>2 DEF CloseBrowser, TypeOK
  <2>. QED
    BY <2>1 DEF Bookkeeping, InFlightTracked, NoLeakedBrowser, PendingLaunches, PooledRuns,
                OnePerKey, Owned
<1>. QED  BY <1>1, <1>2

\* Steps that leave the pool and the processes alone.
LEMMA BooksUntouched ==
    ASSUME Bookkeeping, UNCHANGED <<browserPool, pendingConnections, chrome, owner>>, NoEviction'
    PROVE  Bookkeeping'
BY DEF Bookkeeping, InFlightTracked, NoLeakedBrowser, PendingLaunches, PooledRuns, OnePerKey,
       Owned

\* The books stay in order over every step of every handler, of Chrome and of
\* the idle timer.
LEMMA BookkeepingInvariant == ASSUME Roomy PROVE Spec => []Bookkeeping
<1>1. Init => Bookkeeping
  BY DEF Init, Bookkeeping, InFlightTracked, NoLeakedBrowser, PendingLaunches, PooledRuns,
         OnePerKey, Owned, NoEviction
<1>2. TypeOK /\ KeyChosen /\ Bookkeeping /\ [Next]_vars => Bookkeeping'
  <2> SUFFICES ASSUME TypeOK, KeyChosen, Bookkeeping, [Next]_vars PROVE Bookkeeping'
    OBVIOUS
  <2>0. NoEviction /\ pc \in [Request -> Waiting \cup Answered]
    BY DEF Bookkeeping, TypeOK
  <2>. USE <2>0 DEF pool, process, request, NoEviction, Waiting, Answered
  <2>1. ASSUME NEW r \in Request, Start(r) PROVE Bookkeeping'
    BY <2>1, BooksUntouched DEF Start
  <2>2. ASSUME NEW r \in Request, UsePooled(r) \/ ShareConnection(r) PROVE Bookkeeping'
    BY <2>2, BooksUntouched DEF UsePooled, ShareConnection
  <2>3. ASSUME NEW r \in Request PROVE ~Evict(r) /\ ~ConnectAfterEviction(r)
    BY RoomLeft DEF Evict, ConnectAfterEviction, Absent, KeyChosen
  <2>4. ASSUME NEW r \in Request, Connect(r) PROVE Bookkeeping'
    <3>1. key[r] \in Key /\ browserPool[key[r]] = None /\ pendingConnections[key[r]] = None
      BY <2>4 DEF Connect, Absent, KeyChosen
    <3>2. PICK b \in Browser :
            /\ chrome[b] = "none" /\ chrome' = [chrome EXCEPT ![b] = "launching"]
            /\ owner' = [owner EXCEPT ![b] = key[r]]
            /\ pendingConnections' = [pendingConnections EXCEPT ![key[r]] = b]
            /\ pc' = [pc EXCEPT ![r] = "wait"]
            /\ UNCHANGED browserPool
      BY <2>4 DEF Connect, Launch, Free
    <3>. USE <3>1, <3>2, PoolAssumption DEF TypeOK, BrowserOrNone, Bookkeeping
    <3>3. \A k \in Key : browserPool[k] # b /\ pendingConnections[k] # b
      BY DEF PooledRuns, PendingLaunches
    <3>4. InFlightTracked'
      BY DEF InFlightTracked, Owned
    <3>5. NoLeakedBrowser'
      BY DEF NoLeakedBrowser
    <3>6. PendingLaunches'
      BY <3>3 DEF PendingLaunches
    <3>7. PooledRuns' /\ OnePerKey'
      BY <3>3 DEF PooledRuns, OnePerKey
    <3>8. Owned' /\ NoEviction'
      BY DEF Owned
    <3>. QED  BY <3>4, <3>5, <3>6, <3>7, <3>8
  <2>5. ASSUME NEW r \in Request, OpenPage(r) PROVE Bookkeeping'
    BY <2>5, BooksUntouched DEF OpenPage
  <2>6. ASSUME NEW r \in Request, PageFails(r) PROVE Bookkeeping'
    BY <2>6, HandlerCloseKeepsBooks DEF PageFails, KeyChosen
  <2>7. ASSUME NEW r \in Request, Retry(r) PROVE Bookkeeping'
    BY <2>7, BooksUntouched DEF Retry
  <2>8. ASSUME NEW r \in Request, Succeed(r) \/ WorkFails(r) \/ RespondError(r)
        PROVE  Bookkeeping'
    BY <2>8, BooksUntouched DEF Succeed, WorkFails, RespondError
  <2>9. ASSUME NEW r \in Request, CatchError(r) PROVE Bookkeeping'
    BY <2>9, HandlerCloseKeepsBooks DEF CatchError, KeyChosen
  <2>10. ASSUME NEW b \in Browser, Connected(b) PROVE Bookkeeping'
    <3>. USE <2>10, PoolAssumption DEF Connected, TypeOK, BrowserOrNone, Bookkeeping
    <3>1. /\ owner[b] \in Key /\ pendingConnections[owner[b]] = b
          /\ browserPool[owner[b]] = None
      BY DEF InFlightTracked, Owned, OnePerKey
    <3>2. \A k \in Key : browserPool[k] # b /\ (k # owner[b] => pendingConnections[k] # b)
      BY DEF PooledRuns, PendingLaunches
    <3>3. InFlightTracked' /\ NoLeakedBrowser'
      BY <3>1 DEF InFlightTracked, NoLeakedBrowser, Owned
    <3>4. PendingLaunches' /\ PooledRuns'
      BY <3>1, <3>2 DEF PendingLaunches, PooledRuns
    <3>5. OnePerKey' /\ Owned' /\ NoEviction'
      BY <3>1 DEF OnePerKey, Owned
    <3>. QED  BY <3>3, <3>4, <3>5
  <2>11. ASSUME NEW b \in Browser, ConnectFails(b) PROVE Bookkeeping'
    <3>. USE <2>11, PoolAssumption DEF ConnectFails, TypeOK, BrowserOrNone, Bookkeeping
    <3>1. owner[b] \in Key /\ pendingConnections[owner[b]] = b
      BY DEF InFlightTracked, Owned
    <3>2. \A k \in Key : browserPool[k] # b /\ (k # owner[b] => pendingConnections[k] # b)
      BY DEF PooledRuns, PendingLaunches
    <3>3. InFlightTracked' /\ NoLeakedBrowser'
      BY <3>1 DEF InFlightTracked, NoLeakedBrowser, Owned
    <3>4. PendingLaunches' /\ PooledRuns'
      BY <3>1, <3>2 DEF PendingLaunches, PooledRuns
    <3>5. OnePerKey' /\ Owned' /\ NoEviction'
      BY <3>1 DEF OnePerKey, Owned
    <3>. QED  BY <3>3, <3>4, <3>5
  <2>12. ASSUME NEW b \in Browser, Closed(b) \/ Crash(b) PROVE Bookkeeping'
    <3>. USE DEF Bookkeeping, TypeOK
    <3>1. CASE Closed(b)
      <4>. USE <3>1 DEF Closed
      <4>1. InFlightTracked' /\ NoLeakedBrowser'
        BY DEF InFlightTracked, NoLeakedBrowser
      <4>2. PendingLaunches' /\ PooledRuns'
        BY PoolAssumption DEF PendingLaunches, PooledRuns, BrowserOrNone
      <4>3. OnePerKey' /\ Owned' /\ NoEviction'
        BY DEF OnePerKey, Owned
      <4>. QED  BY <4>1, <4>2, <4>3
    <3>2. CASE Crash(b)
      <4>. USE <3>2 DEF Crash
      <4>1. InFlightTracked' /\ NoLeakedBrowser'
        BY DEF InFlightTracked, NoLeakedBrowser
      <4>2. PendingLaunches' /\ PooledRuns'
        BY PoolAssumption DEF PendingLaunches, PooledRuns, BrowserOrNone
      <4>3. OnePerKey' /\ Owned' /\ NoEviction'
        BY DEF OnePerKey, Owned
      <4>. QED  BY <4>1, <4>2, <4>3
    <3>. QED  BY <2>12, <3>1, <3>2
  <2>13. CASE Tick
    BY <2>13, BooksUntouched DEF Tick
  <2>14. ASSUME NEW k \in Key, Sweep(k) PROVE Bookkeeping'
    BY <2>14, CloseKeepsBooks DEF Sweep
  <2>15. CASE UNCHANGED vars
    BY <2>15, BooksUntouched DEF vars
  <2>. QED
    BY <2>1, <2>2, <2>3, <2>4, <2>5, <2>6, <2>7, <2>8, <2>9, <2>10, <2>11, <2>12, <2>13, <2>14,
       <2>15 DEF Next, Handle, Browse
<1>. QED  BY <1>1, <1>2, TypeCorrect, PTL DEF Spec

\* As long as no eviction is ever needed, every running Chrome process is in
\* the pool under its key.
THEOREM NoLeak == ASSUME Roomy PROVE Spec => []NoLeakedBrowser
BY BookkeepingInvariant, PTL DEF Bookkeeping

\* Under the same condition pendingConnections is what its comment says, and
\* two requests never start two browsers for one key.
THEOREM InFlight == ASSUME Roomy PROVE Spec => []InFlightTracked
BY BookkeepingInvariant, PTL DEF Bookkeeping
-----------------------------------------------------------------------------
(***************************************************************************)
(* What stays true of a full pool, with evictions: PendingLaunches,        *)
(* PooledRuns and Owned, where a handler's browser comes from, and that a  *)
(* browser which refused a first try never comes back into the pool.       *)
(***************************************************************************)
EntryOfKey ==
    \A r \in Request :
        /\ pc[r] = "wait" => /\ entry[r] \in Browser /\ owner[entry[r]] = key[r]
                            /\ chrome[entry[r]] = "launching"
        /\ pc[r] \in {"page", "work"} => /\ entry[r] \in Browser /\ owner[entry[r]] = key[r]
                                        /\ chrome[entry[r]] # "launching"

RefusedGone ==
    \A r \in Request : refused[r] # None =>
        chrome[refused[r]] # "launching" /\ \A k \in Key : browserPool[k] # refused[r]

PoolSound ==
    /\ PendingLaunches /\ PooledRuns /\ Owned
    /\ EntryOfKey /\ RefusedGone /\ SecondTryElsewhere

\* Taking a browser out of the pool disturbs neither the connects in flight
\* nor the others in it; the handlers are as before, or closing.
LEMMA CloseKeepsPool ==
    ASSUME TypeOK, PoolSound, NEW k \in Key, browserPool[k] # None,
           browserPool' = [browserPool EXCEPT ![k] = None],
           chrome' = [chrome EXCEPT ![browserPool[k]] = "closing"],
           UNCHANGED <<pendingConnections, owner>>
    PROVE  /\ PendingLaunches' /\ PooledRuns' /\ Owned'
           /\ \A b \in Browser : chrome'[b] = "launching" <=> chrome[b] = "launching"
           /\ \A j \in Key : browserPool'[j] = None \/ browserPool'[j] = browserPool[j]
<1>1. browserPool[k] \in Browser /\ chrome[browserPool[k]] # "launching"
  BY DEF TypeOK, BrowserOrNone, PoolSound, PooledRuns
<1>2. \A j \in Key : j # k => browserPool'[j] = browserPool[j] /\ browserPool[j] # browserPool[k]
  BY PoolAssumption DEF PoolSound, PooledRuns, TypeOK
<1>. USE <1>1 DEF TypeOK, PoolSound
<1>3. PendingLaunches'
  BY DEF PendingLaunches, BrowserOrNone
<1>4. PooledRuns'
  BY <1>2 DEF PooledRuns, BrowserOrNone
<1>5. Owned'
  BY DEF Owned, PooledRuns
<1>. QED  BY <1>2, <1>3, <1>4, <1>5

LEMMA HandlerCloseKeepsPool ==
    ASSUME TypeOK, PoolSound, NEW r \in Request, NEW k \in Key, CloseBrowser(r, k),
           UNCHANGED <<pendingConnections, owner>>
    PROVE  /\ PendingLaunches' /\ PooledRuns' /\ Owned' /\ browserPool'[k] = None
           /\ \A b \in Browser : chrome'[b] = "launching" <=> chrome[b] = "launching"
           /\ \A j \in Key : browserPool'[j] = None \/ browserPool'[j] = browserPool[j]
<1>0. browserPool'[k] = None
  BY DEF CloseBrowser, TypeOK
<1>1. CASE browserPool[k] # None
  BY <1>0, <1>1, CloseKeepsPool DEF CloseBrowser
<1>2. CASE browserPool[k] = None
  <2>1. browserPool' = browserPool /\ chrome' = chrome
    BY <1>2 DEF CloseBrowser, TypeOK
  <2>. QED
    BY <1>2, <2>1 DEF PoolSound, PendingLaunches, PooledRuns, Owned
<1>. QED  BY <1>1, <1>2

\* connect() for a request's key: the new identity is nobody's.
LEMMA LaunchKeepsPool ==
    ASSUME TypeOK, KeyChosen, PoolSound, NEW r \in Request, pc[r] \in {"get", "evict"}, Launch(r)
    PROVE  PoolSound'
<1>1. PICK b \in Browser :
        /\ Free(b)
        /\ chrome' = [chrome EXCEPT ![b] = "launching"]
        /\ owner' = [owner EXCEPT ![b] = key[r]]
        /\ pendingConnections' = [pendingConnections EXCEPT ![key[r]] = b]
        /\ entry' = [entry EXCEPT ![r] = b]
        /\ pc' = [pc EXCEPT ![r] = "wait"]
        /\ UNCHANGED <<browserPool, idle, key, attempt, refused>>
  BY DEF Launch
<1>2. key[r] \in Key
  BY DEF KeyChosen, Waiting
<1>3. /\ \A k \in Key : browserPool[k] # b /\ pendingConnections[k] # b
      /\ \A q \in Request : entry[q] # b /\ refused[q] # b
  BY <1>1, PoolAssumption DEF Free, PoolSound, PooledRuns, PendingLaunches
<1>. USE <1>1, <1>2, <1>3, PoolAssumption DEF TypeOK, BrowserOrNone, PoolSound
<1>4. PendingLaunches'
  BY DEF PendingLaunches
<1>5. PooledRuns' /\ Owned'
  BY DEF PooledRuns, Owned
<1>6. EntryOfKey'
  BY DEF EntryOfKey
<1>7. RefusedGone' /\ SecondTryElsewhere'
  BY DEF RefusedGone, SecondTryElsewhere
<1>. QED  BY <1>4, <1>5, <1>6, <1>7

\* It stays so over every step, evictions included, for pools of any size.
LEMMA PoolSoundInvariant == Spec => []PoolSound
<1>1. Init => PoolSound
  BY DEF Init, PoolSound, PendingLaunches, PooledRuns, Owned, EntryOfKey, RefusedGone,
         SecondTryElsewhere
<1>2. TypeOK /\ KeyChosen /\ PoolSound /\ [Next]_vars => PoolSound'
  <2> SUFFICES ASSUME TypeOK, KeyChosen, PoolSound, [Next]_vars PROVE PoolSound'
    OBVIOUS
  <2>0. /\ pc \in [Request -> Waiting \cup Answered]
        /\ PendingLaunches /\ PooledRuns /\ Owned
        /\ EntryOfKey /\ RefusedGone /\ SecondTryElsewhere
    BY DEF PoolSound, TypeOK
  <2>. USE DEF pool, process, request
  <2>1. ASSUME UNCHANGED <<browserPool, pendingConnections, chrome, owner>>
        PROVE  PendingLaunches' /\ PooledRuns' /\ Owned'
    BY <2>0, <2>1 DEF PendingLaunches, PooledRuns, Owned
  <2>2. ASSUME NEW r \in Request, Start(r) PROVE PoolSound'
    BY <2>0, <2>1, <2>2 DEF Start, PoolSound, EntryOfKey, RefusedGone, SecondTryElsewhere, TypeOK
  <2>3. ASSUME NEW r \in Request, UsePooled(r) PROVE PoolSound'
    <3>1. key[r] \in Key /\ browserPool[key[r]] \in Browser
      BY <2>3 DEF UsePooled, KeyChosen, Waiting, TypeOK, BrowserOrNone
    <3>2. EntryOfKey'
      BY <2>0, <2>3, <3>1 DEF UsePooled, EntryOfKey, PooledRuns, TypeOK
    <3>3. RefusedGone' /\ SecondTryElsewhere'
      BY <2>0, <2>3, <3>1, PoolAssumption
         DEF UsePooled, RefusedGone, SecondTryElsewhere, TypeOK, BrowserOrNone
    <3>. QED  BY <2>1, <2>3, <3>2, <3>3 DEF UsePooled, PoolSound
  <2>4. ASSUME NEW r \in Request, ShareConnection(r) PROVE PoolSound'
    <3>1. key[r] \in Key /\ pendingConnections[key[r]] \in Browser
      BY <2>4 DEF ShareConnection, KeyChosen, Waiting, TypeOK, BrowserOrNone
    <3>2. EntryOfKey'
      BY <2>0, <2>4, <3>1 DEF ShareConnection, EntryOfKey, PendingLaunches, TypeOK
    <3>3. RefusedGone' /\ SecondTryElsewhere'
      BY <2>0, <2>4 DEF ShareConnection, RefusedGone, SecondTryElsewhere, TypeOK
    <3>. QED  BY <2>1, <2>4, <3>2, <3>3 DEF ShareConnection, PoolSound
  <2>5. ASSUME NEW r \in Request, Connect(r) \/ ConnectAfterEviction(r) PROVE PoolSound'
    BY <2>5, LaunchKeepsPool DEF Connect, ConnectAfterEviction
  <2>6. ASSUME NEW r \in Request, NEW k \in Key, CloseBrowser(r, k),
               UNCHANGED <<pendingConnections, owner, key, attempt, refused>>,
               NEW next \in {"evict", "reject"}, pc' = [pc EXCEPT ![r] = next]
        PROVE  PoolSound'
    <3>1. EntryOfKey'
      <4>1. \A q \in Request \ {r} : pc'[q] = pc[q] /\ entry'[q] = entry[q]
        BY <2>0, <2>6 DEF CloseBrowser, TypeOK
      <4>2. pc'[r] = next
        BY <2>0, <2>6
      <4>3. \A b \in Browser : chrome'[b] = "launching" <=> chrome[b] = "launching"
        BY <2>6, HandlerCloseKeepsPool
      <4>. QED  BY <2>0, <2>6, <4>1, <4>2, <4>3 DEF EntryOfKey
    <3>2. RefusedGone' /\ SecondTryElsewhere'
      BY <2>0, <2>6, HandlerCloseKeepsPool
         DEF CloseBrowser, RefusedGone, SecondTryElsewhere, TypeOK, BrowserOrNone
    <3>. QED  BY <2>6, <3>1, <3>2, HandlerCloseKeepsPool DEF PoolSound
  <2>7. ASSUME NEW r \in Request, Evict(r) \/ CatchError(r) PROVE PoolSound'
    BY <2>6, <2>7 DEF Evict, CatchError, Pooled, KeyChosen, Waiting
  <2>8. ASSUME NEW r \in Request, PageFails(r) PROVE PoolSound'
    <3>1. key[r] \in Key /\ CloseBrowser(r, key[r])
      BY <2>8 DEF PageFails, KeyChosen, Waiting
    <3>2. /\ entry[r] \in Browser /\ owner[entry[r]] = key[r]
          /\ chrome[entry[r]] # "launching"
      BY <2>0, <2>8 DEF PageFails, EntryOfKey
    <3>3. /\ PendingLaunches' /\ PooledRuns' /\ Owned' /\ browserPool'[key[r]] = None
          /\ \A b \in Browser : chrome'[b] = "launching" <=> chrome[b] = "launching"
          /\ \A j \in Key : browserPool'[j] = None \/ browserPool'[j] = browserPool[j]
      BY <2>8, <3>1, HandlerCloseKeepsPool DEF PageFails
    <3>4. \A j \in Key : browserPool'[j] # entry[r]
      BY <2>0, <2>8, <3>2, <3>3, PoolAssumption DEF PooledRuns
    <3>5. EntryOfKey'
      BY <2>0, <2>8, <3>3 DEF PageFails, CloseBrowser, EntryOfKey, TypeOK
    <3>6. RefusedGone'
      BY <2>0, <2>8, <3>2, <3>3, <3>4 DEF PageFails, RefusedGone, TypeOK, BrowserOrNone
    <3>7. SecondTryElsewhere'
      BY <2>0, <2>8 DEF PageFails, CloseBrowser, SecondTryElsewhere, TypeOK
    <3>. QED  BY <3>3, <3>5, <3>6, <3>7 DEF PoolSound
  <2>9. ASSUME NEW r \in Request, OpenPage(r) \/ Retry(r) \/ WorkFails(r) PROVE PoolSound'
    BY <2>0, <2>1, <2>9
       DEF OpenPage, Retry, WorkFails, PoolSound, EntryOfKey, RefusedGone, SecondTryElsewhere, TypeOK
  <2>10. ASSUME NEW r \in Request, Succeed(r) \/ RespondError(r) PROVE PoolSound'
    BY <2>0, <2>1, <2>10
       DEF Succeed, RespondError, PoolSound, EntryOfKey, RefusedGone, SecondTryElsewhere, TypeOK
  <2>11. ASSUME NEW b \in Browser, Connected(b) PROVE PoolSound'
    <3>. USE <2>0, <2>11, PoolAssumption DEF Connected, TypeOK, BrowserOrNone
    <3>1. owner[b] \in Key /\ \A k \in Key : browserPool[k] # b
      BY DEF Owned, PooledRuns
    <3>2. PendingLaunches' /\ PooledRuns' /\ Owned'
      BY <3>1 DEF PendingLaunches, PooledRuns, Owned
    <3>3. EntryOfKey'
      BY DEF EntryOfKey, Awaiting
    <3>4. RefusedGone'
      BY <3>1 DEF RefusedGone
    <3>5. SecondTryElsewhere'
      BY DEF SecondTryElsewhere, Awaiting, RefusedGone
    <3>. QED  BY <3>2, <3>3, <3>4, <3>5 DEF PoolSound
  <2>12. ASSUME NEW b \in Browser, ConnectFails(b) PROVE PoolSound'
    <3>. USE <2>0, <2>12, PoolAssumption DEF ConnectFails, TypeOK, BrowserOrNone
    <3>1. owner[b] \in Key
      BY DEF Owned
    <3>2. PendingLaunches' /\ PooledRuns' /\ Owned'
      BY <3>1 DEF PendingLaunches, PooledRuns, Owned
    <3>3. EntryOfKey' /\ RefusedGone' /\ SecondTryElsewhere'
      BY DEF EntryOfKey, RefusedGone, SecondTryElsewhere, Awaiting
    <3>. QED  BY <3>2, <3>3 DEF PoolSound
  <2>13. ASSUME NEW b \in Browser, Closed(b) \/ Crash(b) PROVE PoolSound'
    <3>. USE <2>0, <2>13 DEF Closed, Crash, TypeOK, BrowserOrNone
    <3>1. PendingLaunches' /\ PooledRuns' /\ Owned'
      BY DEF PendingLaunches, PooledRuns, Owned
    <3>2. EntryOfKey' /\ RefusedGone' /\ SecondTryElsewhere'
      BY DEF EntryOfKey, RefusedGone, SecondTryElsewhere
    <3>. QED  BY <3>1, <3>2 DEF PoolSound
  <2>14. CASE Tick \/ UNCHANGED vars
    BY <2>0, <2>1, <2>14
       DEF Tick, vars, PoolSound, EntryOfKey, RefusedGone, SecondTryElsewhere
  <2>15. ASSUME NEW k \in Key, Sweep(k) PROVE PoolSound'
    <3>1. /\ PendingLaunches' /\ PooledRuns' /\ Owned'
          /\ \A b \in Browser : chrome'[b] = "launching" <=> chrome[b] = "launching"
          /\ \A j \in Key : browserPool'[j] = None \/ browserPool'[j] = browserPool[j]
      BY <2>15, CloseKeepsPool DEF Sweep
    <3>2. EntryOfKey' /\ SecondTryElsewhere'
      BY <2>0, <2>15, <3>1 DEF Sweep, EntryOfKey, SecondTryElsewhere
    <3>3. RefusedGone'
      BY <2>0, <2>15, <3>1 DEF Sweep, RefusedGone, TypeOK, BrowserOrNone
    <3>. QED  BY <3>1, <3>2, <3>3 DEF PoolSound
  <2>. QED
    BY <2>2, <2>3, <2>4, <2>5, <2>7, <2>8, <2>9, <2>10, <2>11, <2>12, <2>13, <2>14, <2>15
       DEF Next, Handle, Browse
<1>. QED  BY <1>1, <1>2, TypeCorrect, PTL DEF Spec

\* However requests, evictions, the sweep and Chrome interleave, no settled
\* connect() is left for later requests to await.
THEOREM PendingInFlight == Spec => []PendingIsInFlight
<1>1. PoolSound => PendingIsInFlight
  BY DEF PoolSound, PendingLaunches, PendingIsInFlight
<1>. QED  BY <1>1, PoolSoundInvariant, PTL

\* A second try never runs on the browser that refused the first, in pools of
\* any size.
THEOREM RetryElsewhere == Spec => []SecondTryElsewhere
BY PoolSoundInvariant, PTL DEF PoolSound
=============================================================================
