----------------------------- MODULE PathCache -----------------------------
(***************************************************************************)
(* SharedPathCache (include/scion/path/shared_cache.hpp), the PathCache it *)
(* wraps (path/cache.hpp) and the asynchronous path provider of Scitra-TUN *)
(* (ScitraTun::beginPathQuery), which asks the SCION daemon for paths and  *)
(* stores the answer.                                                      *)
(*                                                                         *)
(* Threads look paths up or prefetch them.  The mutex is explicit, because *)
(* lookup() uses the map once without holding it.  With a single thread    *)
(* the module describes PathCache itself.                                  *)
(*                                                                         *)
(* Time is discrete.  A tick passes only when no call is in progress, no   *)
(* answer is overdue and the maintenance thread has run, which prefetches  *)
(* the routes of the flows of type Active (maintainFlowsAndSockets()).     *)
(***************************************************************************)
EXTENDS Integers, FiniteSetsExt

CONSTANTS
  Routes,         \* PathCache::Route, pairs of source and destination AS
  LocalRoutes,    \* the routes with identical source and destination AS
  FlowRoutes,     \* the routes that flows of type Active may have
  Threads,        \* threads that call lookup(), prefetch() and clear()
  Maint,          \* the thread that prefetches once per tick
  Free,           \* nobody holds the mutex
  Daemon,         \* the gRPC thread that stores answers of the daemon
  Absent,         \* the route is not in the map
  Lifetimes,      \* remaining lifetimes of paths the daemon returns
  Forever,        \* expiry of the empty path, larger than any time
  MinAccepted,    \* minAcceptedLifetime
  RefreshAt,      \* refreshAtRemaining
  Interval,       \* refreshInterval
  MaxDelay,       \* the daemon answers within this many ticks
  MaxQueries,     \* bound on queries in flight
  MaxTime,        \* bound on the clock
  UserActs        \* TRUE if the cache's user forces refreshes and clears routes

ASSUME PathCacheAssumption ==
  /\ LocalRoutes \subseteq Routes
  /\ FlowRoutes \subseteq Routes
  /\ Maint \in Threads
  /\ Free \notin Threads \cup {Daemon}
  /\ Daemon \notin Threads
  /\ Lifetimes \subseteq Nat
  /\ {MinAccepted, RefreshAt, Interval, MaxDelay, MaxQueries, MaxTime, Forever} \subseteq Nat
  /\ Forever > MaxTime + MinAccepted
  /\ UserActs \in BOOLEAN

VARIABLES
  now,        \* utc_clock
  cache,      \* Cache: [Routes -> PathSet or Absent]
  mutex,      \* holder of the unique lock
  call,       \* [Threads -> the call in progress]
  queries,    \* queries in flight
  answer,     \* the query whose answer is being stored
  active,     \* routes of the flows of type Active in the flow table
  due,        \* routes that maintenance has yet to prefetch in this tick
  good,       \* history: active routes whose last answer held an acceptable path
  empty       \* history: ticks an active route has been without such an answer

vars == <<now, cache, mutex, call, queries, answer, active, due, good, empty>>

\* A path is represented by the time it expires.
PathSet == [nextRefresh: Int, pending: BOOLEAN, paths: SUBSET Nat]

ASSUME AbsentAssumption == Absent \notin PathSet

\* A query for a route; slot tells apart queries for the same route.
Query == [slot: 1 .. MaxQueries, route: Routes, age: 0 .. MaxDelay]

Idle == [pc |-> "idle"]

Call == {Idle} \cup [pc: {"update", "query", "find", "copy"}, op: {"lookup", "prefetch"},
                     route: Routes, refresh: BOOLEAN, pending: BOOLEAN]

TypeOK ==
  /\ now \in 0 .. MaxTime
  /\ DOMAIN cache = Routes
  /\ \A r \in Routes : cache[r] # Absent => cache[r] \in PathSet
  /\ mutex \in Threads \cup {Free, Daemon}
  /\ call \in [Threads -> Call]
  /\ queries \subseteq Query
  /\ answer \subseteq queries
  /\ active \subseteq Routes
  /\ due \subseteq Routes
  /\ good \subseteq active
  /\ empty \in [Routes -> Nat]

Init ==
  /\ now = 0
  /\ cache = [r \in Routes |-> Absent]
  /\ mutex = Free
  /\ call = [t \in Threads |-> Idle]
  /\ queries = {}
  /\ answer = {}
  /\ active = {}
  /\ due = {}
  /\ good = {}
  /\ empty = [r \in Routes |-> 0]

\* A new map element: nextRefresh is the epoch.
NewPathSet == [nextRefresh |-> -1, pending |-> FALSE, paths |-> {}]

Valid(r) == {p \in cache[r].paths : p > now}

\* makeEmptyPath(): the path inside the local AS never expires.
EmptyPath == Forever

-----------------------------------------------------------------------------
(***************************************************************************)
(* store() and updateNextRefresh()                                         *)
(***************************************************************************)
Accepted(paths) == {p \in paths : p > now + MinAccepted}

\* Fault: paths are refreshed by age only.
NextRefreshByAge(paths) == now + Interval

\* Fault: paths are refreshed before they expire only.
NextRefreshByExpiry(paths) == Min(paths \cup {Forever}) - RefreshAt

\* updateNextRefresh()
NextRefresh(paths) ==
  LET byAge    == now + Interval
      byExpiry == Min(paths \cup {Forever}) - RefreshAt
  IN IF byExpiry < byAge THEN byExpiry ELSE byAge

\* Fault: the flag refreshPending is not reset.
StoreStillPending(r, paths) ==
  /\ cache' = [cache EXCEPT ![r] = [nextRefresh |-> NextRefresh(Accepted(paths)),
                                    pending     |-> cache[r] # Absent /\ cache[r].pending,
                                    paths       |-> Accepted(paths)]]
  /\ good' = IF Accepted(paths) = {} THEN good \ {r} ELSE good \cup ({r} \cap active)
  /\ empty' = [empty EXCEPT ![r] = 0]

\* store(): only paths that live long enough are kept.
Store(r, paths) ==
  /\ cache' = [cache EXCEPT ![r] = [nextRefresh |-> NextRefresh(Accepted(paths)),
                                    pending     |-> FALSE,
                                    paths       |-> Accepted(paths)]]
  /\ good' = IF Accepted(paths) = {} THEN good \ {r} ELSE good \cup ({r} \cap active)
  /\ empty' = [empty EXCEPT ![r] = 0]

-----------------------------------------------------------------------------
(***************************************************************************)
(* lookup() and prefetch()                                                 *)
(***************************************************************************)

\* update() is entered and acquires the mutex.
Begin(t, op, r, refresh) ==
  /\ call[t] = Idle
  /\ mutex = Free
  /\ mutex' = t
  /\ call' = [call EXCEPT ![t] = [pc |-> "update", op |-> op, route |-> r,
                                  refresh |-> refresh, pending |-> FALSE]]
  /\ UNCHANGED <<now, cache, queries, answer, active, due, good, empty>>

\* What a call does after update().
AfterUpdate(op) == IF op = "lookup" THEN "find" ELSE "idle"

Continue(t, pc, c) ==
  call' = [call EXCEPT ![t] = IF pc = "idle" THEN Idle ELSE [c EXCEPT !.pc = pc]]

\* The decision of update() whether paths must be queried.
Decision(s, refresh) == refresh \/ (~s.pending /\ s.nextRefresh < now)

\* The part of update() inside the lock.
Update(t) ==
  LET c       == call[t]
      s       == IF cache[c.route] = Absent THEN NewPathSet ELSE cache[c.route]
      refresh == cache[c.route] = Absent \/ Decision(s, c.refresh)
  IN /\ c.pc = "update"
     /\ cache' = [cache EXCEPT ![c.route] = [s EXCEPT !.pending = refresh]]
     /\ mutex' = Free
     /\ Continue(t, IF refresh THEN "query" ELSE AfterUpdate(c.op), c)
     /\ due' = IF t = Maint THEN due \ {c.route} ELSE due
     /\ UNCHANGED <<now, queries, answer, active, good, empty>>

\* beginPathQuery(): a coroutine is spawned; the provider returns Pending.
StartQuery(t) ==
  LET c == call[t]
  IN /\ c.pc = "query"
     /\ c.route \notin LocalRoutes
     /\ \E q \in Query :
          /\ q.route = c.route
          /\ q.age = 0
          /\ q.slot = Min(1 .. (MaxQueries + 1) \ {p.slot : p \in queries})
          /\ queries' = queries \cup {q}
     /\ Continue(t, AfterUpdate(c.op), [c EXCEPT !.pending = TRUE])
     /\ UNCHANGED <<now, cache, mutex, answer, active, due, good, empty>>

\* Source and destination AS are the same: the empty path is stored.
StoreLocal(t) ==
  LET c == call[t]
  IN /\ c.pc = "query"
     /\ c.route \in LocalRoutes
     /\ mutex = Free
     /\ Store(c.route, {EmptyPath})
     /\ Continue(t, AfterUpdate(c.op), c)
     /\ UNCHANGED <<now, mutex, queries, answer, active, due>>

(***************************************************************************)
(* lookup() searches the map without holding the mutex.  When another      *)
(* thread is inserting an element or replacing the paths of this one, the  *)
(* search may succeed or fail; crashes are left out.                       *)
(***************************************************************************)
Found(t) == cache[call[t].route] # Absent /\ cache[call[t].route].paths # {}

Modifying(r) ==
  \/ mutex \in Threads /\ cache[call[mutex].route] = Absent
  \/ \E q \in answer : q.route = r \/ cache[q.route] = Absent

Find(t) ==
  /\ call[t].pc = "find"
  /\ \E hit \in {Found(t)} \cup (IF Modifying(call[t].route) THEN BOOLEAN ELSE {}) :
       Continue(t, IF hit THEN "copy" ELSE "idle", call[t])
  /\ UNCHANGED <<now, cache, mutex, queries, answer, active, due, good, empty>>

\* lookup() copies the paths that have not expired, under a shared lock.
Copy(t) ==
  /\ call[t].pc = "copy"
  /\ mutex = Free
  /\ Continue(t, "idle", call[t])
  /\ UNCHANGED <<now, cache, mutex, queries, answer, active, due, good, empty>>

\* clear(src, dst)
Clear(t, r) ==
  /\ UserActs
  /\ call[t] = Idle
  /\ mutex = Free
  /\ cache' = [cache EXCEPT ![r] = Absent]
  /\ good' = good \ {r}
  /\ empty' = [empty EXCEPT ![r] = 0]
  /\ UNCHANGED <<now, mutex, call, queries, answer, active, due>>

-----------------------------------------------------------------------------
(***************************************************************************)
(* The daemon's answer arrives; the coroutine locks the cache and stores   *)
(* it.  An error is not looked at: the list of paths is empty then.        *)
(***************************************************************************)
BeginStore(q) ==
  /\ mutex = Free
  /\ mutex' = Daemon
  /\ answer' = {q}
  /\ UNCHANGED <<now, cache, call, queries, active, due, good, empty>>

FinishStore(q, ps) ==
  /\ mutex = Daemon
  /\ answer = {q}
  /\ Store(q.route, ps)
  /\ mutex' = Free
  /\ answer' = {}
  /\ queries' = queries \ {q}
  /\ UNCHANGED <<now, call, active, due>>

\* rpcPathsAsync(): any paths, or none if it fails.
Answers == SUBSET {now + l : l \in Lifetimes}

Tick ==
  /\ now < MaxTime
  /\ mutex = Free
  /\ \A t \in Threads : call[t] = Idle
  /\ due = {}
  /\ \A q \in queries : q.age < MaxDelay
  /\ now' = now + 1
  /\ queries' = {[q EXCEPT !.age = @ + 1] : q \in queries}
  /\ due' = active
  /\ empty' = [r \in Routes |->
       IF cache[r] # Absent /\ r \in active \ good THEN empty[r] + 1 ELSE 0]
  /\ UNCHANGED <<cache, mutex, call, answer, active, good>>

(***************************************************************************)
(* The first flow of type Active to a destination AS is created, the last  *)
(* one is removed.  Maintenance keeps flowMutex until it has prefetched    *)
(* all routes.                                                             *)
(***************************************************************************)
FlowStarts(r) ==
  /\ due = {}
  /\ r \in FlowRoutes \ active
  /\ active' = active \cup {r}
  /\ UNCHANGED <<now, cache, mutex, call, queries, answer, due, good, empty>>

FlowEnds(r) ==
  /\ due = {}
  /\ r \in active
  /\ active' = active \ {r}
  /\ good' = good \ {r}
  /\ empty' = [empty EXCEPT ![r] = 0]
  /\ UNCHANGED <<now, cache, mutex, call, queries, answer, due>>

\* Packets look paths up, ScitraTun::refreshPaths() forces a refresh.
Ops == {<<"lookup", FALSE>>} \cup (IF UserActs THEN {<<"prefetch", TRUE>>} ELSE {})

Work(t) == Update(t) \/ StartQuery(t) \/ StoreLocal(t) \/ Find(t) \/ Copy(t)

Answer(q) == BeginStore(q) \/ \E ps \in Answers : FinishStore(q, ps)

\* Several flows of one route make maintenance prefetch it several times, which
\* amounts to a lookup() by another thread in between.
Prefetch(r) == r \in due /\ Begin(Maint, "prefetch", r, FALSE)

Next ==
  \/ \E r \in Routes : Prefetch(r) \/ FlowStarts(r) \/ FlowEnds(r)
  \/ \E t \in Threads \ {Maint}, r \in Routes :
       Clear(t, r) \/ \E o \in Ops : Begin(t, o[1], r, o[2])
  \/ \E t \in Threads : Work(t)
  \/ \E q \in queries : Answer(q)
  \/ Tick

(***************************************************************************)
(* Threads that are in a call go on, the daemon answers every query, and a *)
(* thread that waits for the mutex gets it eventually, even if others use  *)
(* it in between.                                                          *)
(***************************************************************************)
Fairness ==
  /\ \A t \in Threads : SF_vars(Work(t))
  /\ \A s \in 1 .. MaxQueries : SF_vars(\E q \in queries : q.slot = s /\ Answer(q))

Spec == Init /\ [][Next]_vars /\ Fairness
-----------------------------------------------------------------------------
(***************************************************************************)
(* Properties                                                              *)
(***************************************************************************)

(***************************************************************************)
(* refreshPending is never left set with nobody there to reset it: a query *)
(* for the route is in flight or about to be started by a thread between   *)
(* update()'s critical section and the provider.  Otherwise the route's    *)
(* paths would never be refreshed again.                                   *)
(***************************************************************************)
PendingHasQuery ==
  \A r \in Routes : cache[r] # Absent /\ cache[r].pending =>
    \/ \E q \in queries : q.route = r
    \/ \E t \in Threads : call[t].pc = "query" /\ call[t].route = r

(***************************************************************************)
(* As long as the daemon answers in time and with acceptable paths, a      *)
(* route that an active flow uses never runs out of valid paths after its  *)
(* first answer: the refresh at RefreshAt before the first expiry comes    *)
(* early enough, even if queries overlap or are answered out of order.     *)
(* Other routes are not kept up to date, and do run dry.                   *)
(***************************************************************************)
NeverRunsDry ==
  \A r \in good : Valid(r) # {}

(***************************************************************************)
(* A route that an active flow uses, and whose last answer was an error or *)
(* came before the flow, is asked for again: an answer arrives within      *)
(* refreshInterval plus the daemon's delay.                                *)
(***************************************************************************)
RetriedInTime ==
  \A r \in Routes : empty[r] <= Interval + MaxDelay + 1

(***************************************************************************)
(* Every refresh that needs the daemon comes to an end: refreshPending is  *)
(* reset eventually, whatever other calls do meanwhile.                    *)
(***************************************************************************)
RefreshEnds ==
  \A r \in Routes \ LocalRoutes :
    (cache[r] # Absent /\ cache[r].pending) ~> (cache[r] = Absent \/ ~cache[r].pending)

-----------------------------------------------------------------------------
(***************************************************************************)
(* Statements of the headers that the code does not keep                   *)
(***************************************************************************)

(***************************************************************************)
(* cache.hpp, PathSet: refreshPending is a "flag preventing multiple calls *)
(* to path query callback": at most one query per route is in flight.      *)
(***************************************************************************)
OneQueryPerRoute ==
  \A p, q \in queries : p.route = q.route => p = q

(***************************************************************************)
(* cache.hpp, lookup(): "Paths or ErrorCode::Pending if no paths are in    *)
(* the cache, but a path query is still pending".  A lookup that finds no  *)
(* paths while a query for the route is in flight reports Pending.         *)
(***************************************************************************)
PendingReported ==
  [][\A t \in Threads :
       Find(t) /\ call'[t] = Idle /\ (\E q \in queries : q.route = call[t].route)
         => call[t].pending]_vars

(***************************************************************************)
(* shared_cache.hpp: "A version of PathCache that can be shared between    *)
(* multiple threads": nobody searches the map while it is being modified,  *)
(* nobody uses an iterator to an element that has been erased.             *)
(***************************************************************************)
RaceFree ==
  \A t \in Threads :
    /\ call[t].pc = "find" => ~Modifying(call[t].route)
    /\ call[t].pc = "copy" => cache[call[t].route] # Absent
=============================================================================
