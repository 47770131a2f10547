-------------------------- MODULE PathCache_proofs --------------------------
(***************************************************************************)
(* Proofs about the shared path cache for any number of routes, threads,   *)
(* queries in flight and any lifetimes of paths.                           *)
(***************************************************************************)
EXTENDS PathCache, WellFoundedInduction, TLAPS

\* update() holds the mutex, the daemon's thread while it stores an answer.
LockInv ==
  /\ \A t \in Threads : call[t].pc = "update" <=> mutex = t
  /\ answer # {} => mutex = Daemon

\* The histories describe the elements of the map.
HistoryInv ==
  \A r \in Routes :
    /\ r \in good => cache[r] # Absent /\ cache[r].paths # {} /\ empty[r] = 0
    /\ cache[r] = Absent \/ r \notin active => empty[r] = 0

\* nextRefresh is early enough.
RefreshInv ==
  \A r \in Routes : cache[r] # Absent =>
    /\ r \in good => \A p \in cache[r].paths : cache[r].nextRefresh + RefreshAt <= p
    /\ cache[r].nextRefresh <= now - empty[r] + Interval

\* Paths that were stored or need no refresh live for this long.
Lead == IF RefreshAt <= MinAccepted THEN RefreshAt ELSE MinAccepted + 1

\* The paths of r are in want of a refresh for at most k ticks, if a flow needs any.
Fits(r, k) ==
  /\ r \in good => \A p \in cache[r].paths : now + Lead <= p + k
  /\ r \in active \ good => empty[r] <= Interval + k

\* A query for r was made in time, or is about to be made.
Covered(r) ==
  \/ \E q \in queries : q.route = r /\ Fits(r, 1 + q.age)
  \/ \E t \in Threads : call[t].pc = "query" /\ call[t].route = r /\ Fits(r, 1)

\* The maintenance of a route is at most one tick late.
CoverInv ==
  \A r \in Routes : cache[r] # Absent =>
    /\ Fits(r, IF r \in due THEN 1 ELSE 0) \/ Covered(r)
    /\ cache[r].pending => Covered(r)

IInv == TypeOK /\ LockInv /\ HistoryInv /\ RefreshInv /\ CoverInv

-----------------------------------------------------------------------------
LEMMA Bounds ==
  /\ MinAccepted \in Nat /\ RefreshAt \in Nat /\ Interval \in Nat /\ MaxDelay \in Nat
  /\ MaxQueries \in Nat /\ MaxTime \in Nat /\ Forever \in Nat
  /\ Forever > MaxTime + MinAccepted
  /\ Lead \in Nat /\ Lead <= RefreshAt /\ Lead <= MinAccepted + 1
BY PathCacheAssumption DEF Lead

\* A set of naturals has a least element.
LEMMA MinNat ==
  ASSUME NEW S \in SUBSET Nat, S # {}
  PROVE  Min(S) \in S /\ \A x \in S : Min(S) <= x
<1>1. PICK m \in S : \A y \in S : ~ (<<y, m>> \in OpToRel(<, Nat))
  BY NatLessThanWellFounded, WFMin
<1>2. ASSUME NEW y \in S PROVE m <= y
  <2>1. y \in Nat /\ m \in Nat /\ ~ (<<y, m>> \in OpToRel(<, Nat))
    BY <1>1
  <2>2. ~(y < m)
    BY <2>1 DEF OpToRel
  <2>3. y \in Nat /\ m \in Nat
    OBVIOUS
  <2>4. QED BY <2>2, <2>3
<1>3. \E x \in S : \A y \in S : x <= y
  BY <1>2
<1>4. Min(S) = CHOOSE x \in S : \A y \in S : x <= y
  BY DEF Min
<1>5. QED BY <1>3, <1>4

\* The time of the next refresh: early enough for every path and for a retry.
LEMMA NextRefreshBounds ==
  ASSUME NEW S \in SUBSET Nat, now \in Nat
  PROVE  /\ NextRefresh(S) \in Int
         /\ NextRefresh(S) <= now + Interval
         /\ \A p \in S : NextRefresh(S) + RefreshAt <= p
<1> DEFINE m == Min(S \cup {Forever})
<1>1. m \in S \cup {Forever} /\ \A x \in S \cup {Forever} : m <= x
  <2>1. S \cup {Forever} \in SUBSET Nat /\ S \cup {Forever} # {}
    BY Bounds
  <2>2. QED BY <2>1, MinNat
<1>2. NextRefresh(S) = IF m - RefreshAt < now + Interval THEN m - RefreshAt ELSE now + Interval
  BY DEF NextRefresh
<1> HIDE DEF m
<1>3. m \in Nat
  BY <1>1, Bounds
<1>4. QED BY <1>1, <1>2, <1>3, Bounds

\* A call in progress is told from a thread at rest by its program counter.
LEMMA CallPc ==
  ASSUME NEW c \in Call
  PROVE  /\ c = Idle <=> c.pc = "idle"
         /\ c.pc # "idle" => /\ c.pc \in {"update", "query", "find", "copy"}
                            /\ c.op \in {"lookup", "prefetch"}
                            /\ c.route \in Routes
                            /\ c.refresh \in BOOLEAN
BY DEF Call, Idle

\* A thread goes on.
LEMMA ContinueStep ==
  ASSUME TypeOK, NEW t \in Threads, NEW pc \in {"query", "find", "copy", "idle"},
         call[t].pc # "idle", NEW c, Continue(t, pc, c),
         c = call[t] \/ c = [call[t] EXCEPT !.pending = TRUE]
  PROVE  /\ call' \in [Threads -> Call]
         /\ \A u \in Threads \ {t} : call'[u] = call[u]
         /\ call'[t].pc = pc
         /\ pc # "idle" => call'[t].route = call[t].route
<1> DEFINE d == IF pc = "idle" THEN Idle ELSE [c EXCEPT !.pc = pc]
<1>1. call \in [Threads -> Call] /\ call' = [call EXCEPT ![t] = d]
  BY DEF TypeOK, Continue
<1>2. call[t] \in [pc: {"update", "query", "find", "copy"}, op: {"lookup", "prefetch"},
                   route: Routes, refresh: BOOLEAN, pending: BOOLEAN]
  BY <1>1 DEF Call, Idle
<1>3. /\ c \in [pc: {"update", "query", "find", "copy"}, op: {"lookup", "prefetch"},
                route: Routes, refresh: BOOLEAN, pending: BOOLEAN]
      /\ c.route = call[t].route
  BY <1>2
<1>4. d \in Call /\ d.pc = pc /\ (pc # "idle" => d.route = call[t].route)
  BY <1>3 DEF Call, Idle
<1> HIDE DEF d
<1>5. QED BY <1>1, <1>4

\* A call starts.
LEMMA BeginStep ==
  ASSUME TypeOK, NEW t \in Threads, NEW op \in {"lookup", "prefetch"}, NEW r \in Routes,
         NEW refresh \in BOOLEAN, Begin(t, op, r, refresh)
  PROVE  /\ call' \in [Threads -> Call]
         /\ \A u \in Threads \ {t} : call'[u] = call[u]
         /\ call'[t].pc = "update" /\ call[t].pc = "idle"
<1> DEFINE d == [pc |-> "update", op |-> op, route |-> r, refresh |-> refresh, pending |-> FALSE]
<1>1. call \in [Threads -> Call] /\ call' = [call EXCEPT ![t] = d] /\ call[t] = Idle
  BY DEF TypeOK, Begin
<1>2. d \in Call /\ d.pc = "update" /\ Idle.pc = "idle"
  BY DEF Call, Idle
<1> HIDE DEF d
<1>3. QED BY <1>1, <1>2

\* What store() puts into the map.
LEMMA StoreStep ==
  ASSUME TypeOK, NEW r \in Routes, NEW S \in SUBSET Nat, Store(r, S)
  PROVE  /\ DOMAIN cache' = Routes
         /\ \A e \in Routes \ {r} : cache'[e] = cache[e] /\ empty'[e] = empty[e]
                                 /\ (e \in good' <=> e \in good)
         /\ cache'[r] \in PathSet /\ cache'[r] # Absent /\ cache'[r].pending = FALSE
         /\ cache'[r].paths = Accepted(S)
         /\ cache'[r].nextRefresh = NextRefresh(Accepted(S))
         /\ r \in good' <=> r \in active /\ Accepted(S) # {}
         /\ good' \subseteq active
         /\ empty' \in [Routes -> Nat] /\ empty'[r] = 0
<1> DEFINE s == [nextRefresh |-> NextRefresh(Accepted(S)), pending |-> FALSE, paths |-> Accepted(S)]
<1>0. now \in Nat
  BY Bounds DEF TypeOK
<1>1. Accepted(S) \in SUBSET Nat
  BY DEF Accepted
<1>2. s \in PathSet /\ s.pending = FALSE /\ s.paths = Accepted(S)
      /\ s.nextRefresh = NextRefresh(Accepted(S))
  BY <1>0, <1>1, NextRefreshBounds DEF PathSet
<1>3. cache' = [cache EXCEPT ![r] = s]
  BY DEF Store
<1> HIDE DEF s
<1>4. /\ DOMAIN cache' = Routes /\ cache'[r] = s /\ s # Absent
      /\ \A e \in Routes \ {r} : cache'[e] = cache[e]
  BY <1>2, <1>3, AbsentAssumption DEF TypeOK
<1>5. /\ r \in good' <=> r \in active /\ Accepted(S) # {}
      /\ good' \subseteq active
      /\ \A e \in Routes \ {r} : e \in good' <=> e \in good
  BY DEF Store, TypeOK
<1>6. /\ empty' \in [Routes -> Nat] /\ empty'[r] = 0
      /\ \A e \in Routes \ {r} : empty'[e] = empty[e]
  BY DEF Store, TypeOK
<1>7. QED BY <1>2, <1>4, <1>5, <1>6

\* The decision of update() and what it leaves behind.
LEMMA UpdateStep ==
  ASSUME TypeOK, NEW t \in Threads, Update(t)
  PROVE  \E refresh \in BOOLEAN :
           LET r == call[t].route
           IN /\ r \in Routes /\ call[t].pc = "update"
              /\ DOMAIN cache' = Routes
              /\ \A e \in Routes \ {r} : cache'[e] = cache[e]
              /\ cache'[r] \in PathSet /\ cache'[r] # Absent
              /\ cache'[r].pending = refresh
              /\ cache[r] = Absent => refresh /\ cache'[r].nextRefresh = -1
              /\ cache[r] # Absent => /\ cache'[r].nextRefresh = cache[r].nextRefresh
                                      /\ cache'[r].paths = cache[r].paths
                                      /\ refresh \/ cache[r].pending
                                           \/ ~(cache[r].nextRefresh < now)
              /\ Continue(t, IF refresh THEN "query" ELSE AfterUpdate(call[t].op), call[t])
              /\ (IF refresh THEN "query" ELSE AfterUpdate(call[t].op)) \in {"query", "find", "idle"}
<1> DEFINE r == call[t].route
           s == IF cache[r] = Absent THEN NewPathSet ELSE cache[r]
           refresh == cache[r] = Absent \/ Decision(s, call[t].refresh)
<1>1. call[t].pc = "update" /\ r \in Routes /\ call[t].refresh \in BOOLEAN
  BY CallPc DEF TypeOK, Update
<1>2. s \in PathSet
  BY <1>1 DEF TypeOK, NewPathSet, PathSet
<1>3. refresh \in BOOLEAN
  OBVIOUS
<1>4. /\ cache' = [cache EXCEPT ![r] = [s EXCEPT !.pending = refresh]]
      /\ Continue(t, IF refresh THEN "query" ELSE AfterUpdate(call[t].op), call[t])
  BY DEF Update
<1>5. /\ cache[r] = Absent => refresh /\ s.nextRefresh = -1
      /\ cache[r] # Absent => s = cache[r]
      /\ refresh \/ s.pending \/ ~(s.nextRefresh < now)
  BY DEF NewPathSet, Decision
<1> HIDE DEF s, refresh
<1> DEFINE q == [s EXCEPT !.pending = refresh]
<1>6. q \in PathSet /\ q.pending = refresh /\ q.nextRefresh = s.nextRefresh /\ q.paths = s.paths
  BY <1>2, <1>3 DEF PathSet
<1>7. cache' = [cache EXCEPT ![r] = q] /\ q # Absent
  BY <1>4, <1>6, AbsentAssumption
<1> HIDE DEF q
<1>8. /\ DOMAIN cache' = Routes /\ cache'[r] = q
      /\ \A e \in Routes \ {r} : cache'[e] = cache[e]
  BY <1>1, <1>7 DEF TypeOK
<1>9. (IF refresh THEN "query" ELSE AfterUpdate(call[t].op)) \in {"query", "find", "idle"}
  BY DEF AfterUpdate
<1>10. WITNESS refresh \in BOOLEAN
<1>11. QED BY <1>1, <1>4, <1>5, <1>6, <1>7, <1>8, <1>9

-----------------------------------------------------------------------------
(***************************************************************************)
(* Types and the mutex.                                                    *)
(***************************************************************************)
LEMMA TypeInit == Init => TypeOK /\ LockInv
<1> SUFFICES ASSUME Init PROVE TypeOK /\ LockInv
  OBVIOUS
<1>1. call \in [Threads -> Call] /\ \A t \in Threads : call[t].pc = "idle"
  BY DEF Init, Call, Idle
<1>2. now \in 0 .. MaxTime /\ empty \in [Routes -> Nat]
  BY Bounds DEF Init
<1>3. DOMAIN cache = Routes /\ \A r \in Routes : cache[r] = Absent
  BY DEF Init
<1>4. mutex \in Threads \cup {Free, Daemon} /\ \A t \in Threads : mutex # t
  BY PathCacheAssumption DEF Init
<1>5. queries = {} /\ answer = {} /\ active = {} /\ due = {} /\ good = {}
  BY DEF Init
<1>6. TypeOK
  BY <1>1, <1>2, <1>3, <1>4, <1>5 DEF TypeOK
<1>7. LockInv
  BY <1>1, <1>4, <1>5 DEF LockInv
<1>8. QED BY <1>6, <1>7

\* A thread moves that neither takes nor gives back the mutex.
LEMMA LockKept ==
  ASSUME LockInv, UNCHANGED <<mutex, answer>>, NEW t \in Threads,
         \A u \in Threads \ {t} : call'[u] = call[u],
         call[t].pc # "update", call'[t].pc # "update"
  PROVE  LockInv'
BY DEF LockInv

LEMMA TypeStep == TypeOK /\ LockInv /\ [Next]_vars => TypeOK' /\ LockInv'
<1> SUFFICES ASSUME TypeOK, LockInv, [Next]_vars PROVE TypeOK' /\ LockInv'
  OBVIOUS
<1>0. /\ Free \notin Threads /\ Daemon \notin Threads /\ Free # Daemon /\ Maint \in Threads
      /\ now \in Nat
  BY PathCacheAssumption, Bounds DEF TypeOK
<1>1. ASSUME NEW t \in Threads, NEW op \in {"lookup", "prefetch"}, NEW r \in Routes,
             NEW refresh \in BOOLEAN, Begin(t, op, r, refresh)
      PROVE  TypeOK' /\ LockInv'
  <2>1. /\ call' \in [Threads -> Call] /\ \A u \in Threads \ {t} : call'[u] = call[u]
        /\ call'[t].pc = "update" /\ call[t].pc = "idle"
    BY <1>1, BeginStep
  <2>2. mutex = Free /\ mutex' = t
        /\ UNCHANGED <<now, cache, queries, answer, active, due, good, empty>>
    BY <1>1 DEF Begin
  <2>3. LockInv'
    BY <1>0, <2>1, <2>2 DEF LockInv
  <2>4. QED BY <2>1, <2>2, <2>3 DEF TypeOK
<1>2. ASSUME NEW t \in Threads, Update(t) PROVE TypeOK' /\ LockInv'
  <2> DEFINE r == call[t].route
  <2>1. PICK refresh \in BOOLEAN :
          /\ r \in Routes /\ call[t].pc = "update"
          /\ DOMAIN cache' = Routes /\ \A e \in Routes \ {r} : cache'[e] = cache[e]
          /\ cache'[r] \in PathSet
          /\ Continue(t, IF refresh THEN "query" ELSE AfterUpdate(call[t].op), call[t])
          /\ (IF refresh THEN "query" ELSE AfterUpdate(call[t].op)) \in {"query", "find", "idle"}
    BY <1>2, UpdateStep
  <2>2. PICK pc \in {"query", "find", "idle"} : Continue(t, pc, call[t])
    BY <2>1
  <2>3. /\ call' \in [Threads -> Call]
        /\ \A u \in Threads \ {t} : call'[u] = call[u]
        /\ call'[t].pc = pc
    BY <2>1, <2>2, ContinueStep
  <2>4. /\ mutex' = Free /\ UNCHANGED <<now, queries, answer, active, good, empty>>
        /\ due' \in {due, due \ {r}}
    BY <1>2 DEF Update
  <2>5. TypeOK'
    <3>1. \A e \in Routes : cache'[e] # Absent => cache'[e] \in PathSet
      BY <2>1 DEF TypeOK
    <3>2. due' \subseteq Routes
      BY <2>1, <2>4 DEF TypeOK
    <3>3. QED BY <2>1, <2>3, <2>4, <3>1, <3>2 DEF TypeOK
  <2>6. mutex = t /\ answer = {}
    BY <1>0, <2>1 DEF LockInv
  <2>7. LockInv'
    BY <1>0, <2>3, <2>4, <2>6 DEF LockInv
  <2>8. QED BY <2>5, <2>7
<1>3. ASSUME NEW t \in Threads, StartQuery(t) PROVE TypeOK' /\ LockInv'
  <2>1. call[t].pc = "query" /\ call[t].op \in {"lookup", "prefetch"}
    BY <1>3, CallPc DEF StartQuery, TypeOK
  <2>2. PICK pc \in {"find", "idle"} : Continue(t, pc, [call[t] EXCEPT !.pending = TRUE])
    BY <1>3, <2>1 DEF StartQuery, AfterUpdate
  <2>3. /\ call' \in [Threads -> Call]
        /\ \A u \in Threads \ {t} : call'[u] = call[u]
        /\ call'[t].pc = pc
    BY <2>1, <2>2, ContinueStep
  <2>4. queries' \subseteq Query /\ queries \subseteq queries'
    BY <1>3 DEF StartQuery, TypeOK
  <2>5. UNCHANGED <<now, cache, mutex, answer, active, due, good, empty>>
    BY <1>3 DEF StartQuery
  <2>6. LockInv'
    BY <2>1, <2>3, <2>5, LockKept
  <2>7. QED BY <2>3, <2>4, <2>5, <2>6 DEF TypeOK
<1>4. ASSUME NEW t \in Threads, StoreLocal(t) PROVE TypeOK' /\ LockInv'
  <2>1. call[t].pc = "query" /\ call[t].op \in {"lookup", "prefetch"} /\ call[t].route \in Routes
    BY <1>4, CallPc DEF StoreLocal, TypeOK
  <2>2. PICK pc \in {"find", "idle"} : Continue(t, pc, call[t])
    BY <1>4, <2>1 DEF StoreLocal, AfterUpdate
  <2>3. /\ call' \in [Threads -> Call]
        /\ \A u \in Threads \ {t} : call'[u] = call[u]
        /\ call'[t].pc = pc
    BY <2>1, <2>2, ContinueStep
  <2>4. Store(call[t].route, {EmptyPath}) /\ {EmptyPath} \in SUBSET Nat
    BY <1>4, Bounds DEF StoreLocal, EmptyPath
  <2>5. /\ DOMAIN cache' = Routes /\ good' \subseteq active /\ empty' \in [Routes -> Nat]
        /\ \A r \in Routes : cache'[r] # Absent => cache'[r] \in PathSet
    BY <2>1, <2>4, StoreStep DEF TypeOK
  <2>6. UNCHANGED <<now, mutex, queries, answer, active, due>>
    BY <1>4 DEF StoreLocal
  <2>7. LockInv'
    BY <2>1, <2>3, <2>6, LockKept
  <2>8. QED BY <2>3, <2>5, <2>6, <2>7 DEF TypeOK
<1>5. ASSUME NEW t \in Threads, Find(t) \/ Copy(t) PROVE TypeOK' /\ LockInv'
  <2>1. call[t].pc \in {"find", "copy"}
    BY <1>5 DEF Find, Copy
  <2>2. PICK pc \in {"copy", "idle"} : Continue(t, pc, call[t])
    BY <1>5 DEF Find, Copy
  <2>3. /\ call' \in [Threads -> Call]
        /\ \A u \in Threads \ {t} : call'[u] = call[u]
        /\ call'[t].pc = pc
    BY <2>1, <2>2, ContinueStep
  <2>4. UNCHANGED <<now, cache, mutex, queries, answer, active, due, good, empty>>
    BY <1>5 DEF Find, Copy
  <2>5. LockInv'
    BY <2>1, <2>3, <2>4, LockKept
  <2>6. QED BY <2>3, <2>4, <2>5 DEF TypeOK
<1>6. ASSUME NEW t \in Threads, NEW r \in Routes, Clear(t, r) PROVE TypeOK' /\ LockInv'
  <2>1. DOMAIN cache' = Routes /\ \A e \in Routes : cache'[e] # Absent => cache'[e] \in PathSet
    BY <1>6 DEF Clear, TypeOK
  <2>2. good' \subseteq active /\ empty' \in [Routes -> Nat]
    BY <1>6 DEF Clear, TypeOK
  <2>3. UNCHANGED <<now, mutex, call, queries, answer, active, due>>
    BY <1>6 DEF Clear
  <2>4. QED BY <2>1, <2>2, <2>3 DEF TypeOK, LockInv
<1>7. ASSUME NEW q \in queries, BeginStore(q) PROVE TypeOK' /\ LockInv'
  BY <1>0, <1>7 DEF BeginStore, TypeOK, LockInv
<1>8. ASSUME NEW q \in queries, NEW ps \in Answers, FinishStore(q, ps) PROVE TypeOK' /\ LockInv'
  <2>1. q.route \in Routes /\ ps \in SUBSET Nat
    BY <1>0, PathCacheAssumption DEF TypeOK, Query, Answers
  <2>2. Store(q.route, ps)
    BY <1>8 DEF FinishStore
  <2>3. /\ DOMAIN cache' = Routes /\ good' \subseteq active /\ empty' \in [Routes -> Nat]
        /\ \A r \in Routes : cache'[r] # Absent => cache'[r] \in PathSet
    BY <2>1, <2>2, StoreStep DEF TypeOK
  <2>4. /\ mutex = Daemon /\ mutex' = Free /\ answer' = {} /\ queries' \subseteq queries
        /\ UNCHANGED <<now, call, active, due>>
    BY <1>8 DEF FinishStore
  <2>5. LockInv'
    BY <1>0, <2>4 DEF LockInv
  <2>6. QED BY <2>3, <2>4, <2>5 DEF TypeOK
<1>9. CASE Tick
  <2>1. now' \in 0 .. MaxTime
    BY <1>9, Bounds DEF Tick, TypeOK
  <2>2. queries' \subseteq Query
    <3> SUFFICES ASSUME NEW q \in queries PROVE [q EXCEPT !.age = @ + 1] \in Query
      BY <1>9 DEF Tick
    <3>1. q \in Query /\ q.age < MaxDelay
      BY <1>9 DEF Tick, TypeOK
    <3>2. QED BY <3>1, Bounds DEF Query
  <2>3. answer = {} /\ answer' = {}
    BY <1>0, <1>9 DEF Tick, LockInv
  <2>4. empty' \in [Routes -> Nat] /\ due' = active
    BY <1>9 DEF Tick, TypeOK
  <2>5. UNCHANGED <<cache, mutex, call, active, good>>
    BY <1>9 DEF Tick
  <2>6. QED BY <2>1, <2>2, <2>3, <2>4, <2>5 DEF TypeOK, LockInv
<1>10. CASE UNCHANGED vars
  BY <1>10 DEF vars, TypeOK, LockInv
<1>11. ASSUME NEW r \in Routes, Prefetch(r) PROVE TypeOK' /\ LockInv'
  BY <1>0, <1>1, <1>11 DEF Prefetch
<1>12. ASSUME NEW t \in Threads, NEW r \in Routes, NEW o \in Ops, Begin(t, o[1], r, o[2])
       PROVE  TypeOK' /\ LockInv'
  <2>1. CASE o = <<"lookup", FALSE>>
    <3>1. Begin(t, "lookup", r, FALSE)
      BY <1>12, <2>1
    <3>2. QED BY <1>1, <3>1
  <2>2. CASE o = <<"prefetch", TRUE>>
    <3>1. Begin(t, "prefetch", r, TRUE)
      BY <1>12, <2>2
    <3>2. QED BY <1>1, <3>1
  <2>3. QED BY <2>1, <2>2 DEF Ops
<1>13. ASSUME NEW r \in Routes, FlowStarts(r) \/ FlowEnds(r) PROVE TypeOK' /\ LockInv'
  BY <1>13 DEF FlowStarts, FlowEnds, TypeOK, LockInv
<1>14. QED
  BY <1>2, <1>3, <1>4, <1>5, <1>6, <1>7, <1>8, <1>9, <1>10, <1>11, <1>12, <1>13
     DEF Next, Work, Answer

-----------------------------------------------------------------------------
(***************************************************************************)
(* Refreshes: when they are due, and who takes care of them.               *)
(***************************************************************************)
MapInv == HistoryInv /\ RefreshInv /\ CoverInv

LEMMA MapInit == Init => MapInv
BY DEF Init, MapInv, HistoryInv, RefreshInv, CoverInv

\* A route is in want of a refresh for longer: still at most that long.
LEMMA FitsLonger ==
  ASSUME TypeOK, NEW r \in Routes, cache[r] # Absent, NEW j \in Nat, NEW k \in Nat,
         j <= k, Fits(r, j)
  PROVE  Fits(r, k)
<1>1. cache[r].paths \subseteq Nat /\ now \in Nat /\ Lead \in Nat /\ empty[r] \in Nat
      /\ Interval \in Nat
  BY Bounds DEF TypeOK, PathSet
<1>2. QED BY <1>1 DEF Fits

\* Nothing happens to the map, and whoever was to take care of a route has
\* done so by a query.
LEMMA QuietStep ==
  ASSUME MapInv, UNCHANGED <<now, cache, active, due, good, empty>>,
         queries \subseteq queries',
         \A u \in Threads : call[u].pc = "query" =>
           \/ call'[u] = call[u]
           \/ \E q \in queries' : q.route = call[u].route /\ q.age = 0
  PROVE  MapInv'
<1>1. \A r, k : Fits(r, k)' <=> Fits(r, k)
  BY DEF Fits
<1>2. \A r \in Routes : Covered(r) => Covered(r)'
  <2> SUFFICES ASSUME NEW r \in Routes, Covered(r) PROVE Covered(r)'
    OBVIOUS
  <2>1. CASE \E q \in queries : q.route = r /\ Fits(r, 1 + q.age)
    BY <1>1, <2>1 DEF Covered
  <2>2. CASE \E t \in Threads : call[t].pc = "query" /\ call[t].route = r /\ Fits(r, 1)
    <3>1. PICK t \in Threads : call[t].pc = "query" /\ call[t].route = r /\ Fits(r, 1)
      BY <2>2
    <3>2. CASE call'[t] = call[t]
      BY <1>1, <3>1, <3>2 DEF Covered
    <3>3. CASE \E q \in queries' : q.route = call[t].route /\ q.age = 0
      <4>1. PICK q \in queries' : q.route = r /\ q.age = 0
        BY <3>1, <3>3
      <4>2. 1 + q.age = 1
        BY <4>1
      <4>3. Fits(r, 1 + q.age)'
        BY <1>1, <3>1, <4>2
      <4>4. QED BY <4>1, <4>3 DEF Covered
    <3>4. QED BY <3>1, <3>2, <3>3
  <2>3. QED BY <2>1, <2>2 DEF Covered
<1>3. CoverInv'
  BY <1>1, <1>2 DEF MapInv, CoverInv
<1>4. HistoryInv' /\ RefreshInv'
  BY DEF MapInv, HistoryInv, RefreshInv
<1>5. QED BY <1>3, <1>4 DEF MapInv

\* The element of r changes: everything else is as good as it was.
LEMMA OtherRoutes ==
  ASSUME MapInv, NEW r \in Routes, now' = now,
         \A e \in Routes \ {r} : cache'[e] = cache[e] /\ empty'[e] = empty[e]
                              /\ (e \in good' <=> e \in good) /\ (e \in due' <=> e \in due)
                              /\ (e \in active' <=> e \in active),
         \A q \in queries : q.route # r => q \in queries',
         \A u \in Threads : call[u].pc = "query" /\ call[u].route # r => call'[u] = call[u]
  PROVE  \A e \in Routes \ {r} :
           /\ e \in good' => cache'[e] # Absent /\ cache'[e].paths # {} /\ empty'[e] = 0
           /\ cache'[e] = Absent \/ e \notin active' => empty'[e] = 0
           /\ cache'[e] # Absent =>
                /\ e \in good' => \A p \in cache'[e].paths : cache'[e].nextRefresh + RefreshAt <= p
                /\ cache'[e].nextRefresh <= now' - empty'[e] + Interval
                /\ Fits(e, IF e \in due THEN 1 ELSE 0)' \/ Covered(e)'
                /\ cache'[e].pending => Covered(e)'
<1> SUFFICES ASSUME NEW e \in Routes \ {r}
             PROVE
           /\ e \in good' => cache'[e] # Absent /\ cache'[e].paths # {} /\ empty'[e] = 0
           /\ cache'[e] = Absent \/ e \notin active' => empty'[e] = 0
           /\ cache'[e] # Absent =>
                /\ e \in good' => \A p \in cache'[e].paths : cache'[e].nextRefresh + RefreshAt <= p
                /\ cache'[e].nextRefresh <= now' - empty'[e] + Interval
                /\ Fits(e, IF e \in due THEN 1 ELSE 0)' \/ Covered(e)'
                /\ cache'[e].pending => Covered(e)'
  OBVIOUS
<1>1. \A k : Fits(e, k)' <=> Fits(e, k)
  BY DEF Fits
<1>2. Covered(e) => Covered(e)'
  BY <1>1 DEF Covered
<1>3. Fits(e, IF e \in due THEN 1 ELSE 0) => Fits(e, IF e \in due THEN 1 ELSE 0)'
  BY <1>1
<1>4. QED BY <1>2, <1>3 DEF MapInv, HistoryInv, RefreshInv, CoverInv

\* An answer is stored: nothing is due for r for some time, nothing is pending.
LEMMA StoreMap ==
  ASSUME TypeOK, MapInv, NEW r \in Routes, NEW S \in SUBSET Nat, Store(r, S),
         UNCHANGED <<now, active, due>>,
         \A q \in queries : q.route # r => q \in queries',
         \A u \in Threads : call[u].pc = "query" /\ call[u].route # r => call'[u] = call[u]
  PROVE  MapInv'
<1>1. /\ \A e \in Routes \ {r} : cache'[e] = cache[e] /\ empty'[e] = empty[e]
                              /\ (e \in good' <=> e \in good)
      /\ cache'[r] # Absent /\ cache'[r].pending = FALSE
      /\ cache'[r].paths = Accepted(S)
      /\ cache'[r].nextRefresh = NextRefresh(Accepted(S))
      /\ r \in good' <=> r \in active /\ Accepted(S) # {}
      /\ empty'[r] = 0
  BY StoreStep
<1>2. \A e \in Routes \ {r} :
           /\ e \in good' => cache'[e] # Absent /\ cache'[e].paths # {} /\ empty'[e] = 0
           /\ cache'[e] = Absent \/ e \notin active' => empty'[e] = 0
           /\ cache'[e] # Absent =>
                /\ e \in good' => \A p \in cache'[e].paths : cache'[e].nextRefresh + RefreshAt <= p
                /\ cache'[e].nextRefresh <= now' - empty'[e] + Interval
                /\ Fits(e, IF e \in due THEN 1 ELSE 0)' \/ Covered(e)'
                /\ cache'[e].pending => Covered(e)'
  BY <1>1, OtherRoutes
<1>3. now \in Nat /\ Accepted(S) \in SUBSET Nat /\ \A p \in Accepted(S) : p > now + MinAccepted
  <2>1. now \in Nat
    BY Bounds DEF TypeOK
  <2>2. Accepted(S) \in SUBSET Nat /\ \A p \in Accepted(S) : p > now + MinAccepted
    BY DEF Accepted
  <2>3. QED BY <2>1, <2>2
<1>4. /\ NextRefresh(Accepted(S)) <= now + Interval
      /\ \A p \in Accepted(S) : NextRefresh(Accepted(S)) + RefreshAt <= p
      /\ NextRefresh(Accepted(S)) \in Int
  BY <1>3, NextRefreshBounds
<1>5. Fits(r, IF r \in due THEN 1 ELSE 0)'
  BY <1>1, <1>3, Bounds DEF Fits
<1>6. HistoryInv'
  BY <1>1, <1>2 DEF HistoryInv
<1>7. RefreshInv'
  <2>1. r \in good' => \A p \in cache'[r].paths : cache'[r].nextRefresh + RefreshAt <= p
    BY <1>1, <1>4
  <2>2. cache'[r].nextRefresh <= now' - empty'[r] + Interval
    BY <1>1, <1>3, <1>4, Bounds
  <2>3. QED BY <1>2, <2>1, <2>2 DEF RefreshInv
<1>8. CoverInv'
  BY <1>1, <1>2, <1>5 DEF CoverInv
<1>9. QED BY <1>6, <1>7, <1>8 DEF MapInv

\* update() has decided.
LEMMA UpdateMap ==
  ASSUME TypeOK, MapInv, NEW t \in Threads, Update(t)
  PROVE  MapInv'
<1>0. PICK r \in Routes : r = call[t].route
  BY CallPc DEF TypeOK, Update
<1>1. PICK refresh \in BOOLEAN :
        /\ r \in Routes /\ call[t].pc = "update"
        /\ \A e \in Routes \ {r} : cache'[e] = cache[e]
        /\ cache'[r] # Absent /\ cache'[r].pending = refresh
        /\ cache[r] = Absent => refresh /\ cache'[r].nextRefresh = -1
        /\ cache[r] # Absent => /\ cache'[r].nextRefresh = cache[r].nextRefresh
                                /\ cache'[r].paths = cache[r].paths
                                /\ refresh \/ cache[r].pending
                                     \/ ~(cache[r].nextRefresh < now)
        /\ Continue(t, IF refresh THEN "query" ELSE AfterUpdate(call[t].op), call[t])
        /\ (IF refresh THEN "query" ELSE AfterUpdate(call[t].op)) \in {"query", "find", "idle"}
  BY <1>0, UpdateStep
<1>2. /\ UNCHANGED <<now, queries, active, good, empty>>
      /\ due' \in {due, due \ {r}}
  BY <1>0 DEF Update
<1>3. /\ \A u \in Threads \ {t} : call'[u] = call[u]
      /\ refresh => call'[t].pc = "query" /\ call'[t].route = r
  <2> DEFINE pc == IF refresh THEN "query" ELSE AfterUpdate(call[t].op)
  <2>1. pc \in {"query", "find", "copy", "idle"} /\ Continue(t, pc, call[t])
    BY <1>1
  <2>2. refresh => pc = "query"
    OBVIOUS
  <2> HIDE DEF pc
  <2>3. QED BY <1>0, <1>1, <2>1, <2>2, ContinueStep
<1>4. \A e \in Routes \ {r} :
           /\ e \in good' => cache'[e] # Absent /\ cache'[e].paths # {} /\ empty'[e] = 0
           /\ cache'[e] = Absent \/ e \notin active' => empty'[e] = 0
           /\ cache'[e] # Absent =>
                /\ e \in good' => \A p \in cache'[e].paths : cache'[e].nextRefresh + RefreshAt <= p
                /\ cache'[e].nextRefresh <= now' - empty'[e] + Interval
                /\ Fits(e, IF e \in due THEN 1 ELSE 0)' \/ Covered(e)'
                /\ cache'[e].pending => Covered(e)'
  BY <1>1, <1>2, <1>3, OtherRoutes
<1>5. now \in Nat /\ empty[r] \in Nat /\ Interval \in Nat /\ Lead \in Nat /\ RefreshAt \in Nat
      /\ Lead <= RefreshAt
  BY <1>1, Bounds DEF TypeOK
<1>6. CASE cache[r] = Absent
  <2>1. r \notin good /\ r \notin good' /\ empty'[r] = 0 /\ refresh
        /\ cache'[r].nextRefresh = -1
    BY <1>1, <1>2, <1>6 DEF MapInv, HistoryInv
  <2>2. Fits(r, 1)'
    BY <1>5, <2>1 DEF Fits
  <2>3. Covered(r)'
    BY <1>3, <2>1, <2>2 DEF Covered
  <2>4. cache'[r].nextRefresh <= now' - empty'[r] + Interval
    BY <1>2, <1>5, <2>1
  <2>5. HistoryInv'
    BY <1>1, <1>4, <2>1 DEF HistoryInv
  <2>6. RefreshInv'
    BY <1>4, <2>1, <2>4 DEF RefreshInv
  <2>7. CoverInv'
    BY <1>4, <2>3 DEF CoverInv
  <2>8. QED BY <2>5, <2>6, <2>7 DEF MapInv
<1>7. CASE cache[r] # Absent
  <2>1. cache'[r].nextRefresh = cache[r].nextRefresh /\ cache'[r].paths = cache[r].paths
    BY <1>1, <1>7
  <2>2. cache[r].nextRefresh \in Int /\ cache[r].paths \subseteq Nat
    BY <1>1, <1>7 DEF TypeOK, PathSet
  <2>3. \A k : Fits(r, k)' <=> Fits(r, k)
    BY <1>2, <2>1 DEF Fits
  <2>4. Covered(r) => Covered(r)'
    <3>1. CASE \E q \in queries : q.route = r /\ Fits(r, 1 + q.age)
      BY <1>2, <2>3, <3>1 DEF Covered
    <3>2. CASE \E u \in Threads : call[u].pc = "query" /\ call[u].route = r /\ Fits(r, 1)
      BY <1>0, <1>1, <1>3, <2>3, <3>2 DEF Covered
    <3>3. QED BY <3>1, <3>2 DEF Covered
  <2>5. Covered(r) \/ Fits(r, 1)
    <3>1. CASE r \notin due
      BY <1>1, <1>7, <3>1, FitsLonger DEF MapInv, CoverInv
    <3>2. CASE r \in due
      BY <1>1, <1>7, <3>2 DEF MapInv, CoverInv
    <3>3. QED BY <3>1, <3>2
  <2>6. refresh => Covered(r)'
    <3>1. CASE Covered(r)
      BY <2>4, <3>1
    <3>2. CASE Fits(r, 1)
      BY <1>3, <2>3, <3>2 DEF Covered
    <3>3. QED BY <2>5, <3>1, <3>2
  <2>7. ~refresh => Covered(r) \/ Fits(r, 0)
    <3> SUFFICES ASSUME ~refresh, ~Covered(r) PROVE Fits(r, 0)
      OBVIOUS
    <3>1. ~cache[r].pending
      BY <1>1, <1>7 DEF MapInv, CoverInv
    <3>2. cache[r].nextRefresh >= now
      BY <1>1, <1>5, <1>7, <2>2, <3>1
    <3>3. r \in good => \A p \in cache[r].paths : now + Lead <= p + 0
      BY <1>1, <1>5, <1>7, <2>2, <3>2 DEF MapInv, RefreshInv
    <3>4. r \in active \ good => empty[r] <= Interval + 0
      BY <1>1, <1>5, <1>7, <2>2, <3>2 DEF MapInv, RefreshInv
    <3>5. QED BY <3>3, <3>4 DEF Fits
  <2>8. Fits(r, IF r \in due THEN 1 ELSE 0)' \/ Covered(r)'
    <3>1. CASE refresh
      BY <2>6, <3>1
    <3>2. CASE ~refresh
      <4>1. Covered(r)' \/ Fits(r, 0)'
        BY <2>3, <2>4, <2>7, <3>2
      <4>2. Fits(r, 0)' => Fits(r, 1)'
        BY <1>1, <1>7, <2>3, FitsLonger
      <4>3. QED BY <4>1, <4>2
    <3>3. QED BY <3>1, <3>2
  <2>9. CoverInv'
    BY <1>1, <1>4, <2>6, <2>8 DEF CoverInv
  <2>10. HistoryInv'
    BY <1>1, <1>2, <1>4, <1>7, <2>1 DEF MapInv, HistoryInv
  <2>11. RefreshInv'
    BY <1>1, <1>2, <1>4, <1>7, <2>1 DEF MapInv, RefreshInv
  <2>12. QED BY <2>9, <2>10, <2>11 DEF MapInv
<1>8. QED BY <1>6, <1>7

\* A tick: everything is in want of a refresh one tick longer.
LEMMA TickMap ==
  ASSUME TypeOK, MapInv, Tick
  PROVE  MapInv'
<1>1. /\ now' = now + 1 /\ due = {} /\ due' = active
      /\ UNCHANGED <<cache, call, active, good>>
      /\ \A t \in Threads : call[t] = Idle
      /\ queries' = {[q EXCEPT !.age = @ + 1] : q \in queries}
      /\ empty' = [r \in Routes |-> IF cache[r] # Absent /\ r \in active \ good THEN empty[r] + 1 ELSE 0]
  BY DEF Tick
<1>2. now \in Nat /\ Interval \in Nat /\ Lead \in Nat
  BY Bounds DEF TypeOK
<1>3. \A r \in Routes : /\ empty[r] \in Nat
                        /\ cache[r] # Absent => cache[r].nextRefresh \in Int /\ cache[r].paths \subseteq Nat
                        /\ empty'[r] = IF cache[r] # Absent /\ r \in active \ good THEN empty[r] + 1 ELSE 0
  BY <1>1 DEF TypeOK, PathSet
<1>4. ASSUME NEW r \in Routes, cache[r] # Absent, NEW k \in Nat, Fits(r, k)
      PROVE  Fits(r, k + 1)'
  <2>1. r \in good => \A p \in cache[r].paths : now + 1 + Lead <= p + (k + 1)
    BY <1>2, <1>3, <1>4 DEF Fits
  <2>2. r \in active \ good => empty[r] + 1 <= Interval + (k + 1)
    BY <1>2, <1>3, <1>4 DEF Fits
  <2>3. QED BY <1>1, <1>3, <1>4, <2>1, <2>2 DEF Fits
<1>5. ASSUME NEW r \in Routes, cache[r] # Absent, Covered(r) PROVE Covered(r)'
  <2>1. ~ \E t \in Threads : call[t].pc = "query"
    BY <1>1 DEF Idle
  <2>2. PICK q \in queries : q.route = r /\ Fits(r, 1 + q.age)
    BY <1>5, <2>1 DEF Covered
  <2> DEFINE n == [q EXCEPT !.age = @ + 1]
  <2>3. q \in Query /\ q.age \in Nat
    BY Bounds DEF TypeOK, Query
  <2>4. n \in queries' /\ n.route = r /\ n.age = q.age + 1
    BY <1>1, <2>2, <2>3 DEF Query
  <2> HIDE DEF n
  <2>5. 1 + q.age \in Nat /\ (1 + q.age) + 1 = 1 + n.age
    BY <2>3, <2>4
  <2>6. Fits(r, (1 + q.age) + 1)'
    BY <1>4, <1>5, <2>2, <2>5
  <2>7. Fits(r, 1 + n.age)'
    BY <2>5, <2>6
  <2>8. QED BY <2>4, <2>7 DEF Covered
<1>6. HistoryInv'
  BY <1>1, <1>3 DEF MapInv, HistoryInv
<1>7. RefreshInv'
  <2> SUFFICES ASSUME NEW r \in Routes, cache[r] # Absent
               PROVE  cache[r].nextRefresh <= now' - empty'[r] + Interval
    BY <1>1 DEF MapInv, RefreshInv
  <2>1. cache[r].nextRefresh <= now - empty[r] + Interval
    BY DEF MapInv, RefreshInv
  <2>2. empty'[r] \in {0, empty[r] + 1}
    BY <1>3
  <2>3. QED BY <1>1, <1>2, <1>3, <2>1, <2>2
<1>8. CoverInv'
  <2> SUFFICES ASSUME NEW r \in Routes, cache[r] # Absent
               PROVE  /\ Fits(r, IF r \in due THEN 1 ELSE 0)' \/ Covered(r)'
                      /\ cache[r].pending => Covered(r)'
    BY <1>1 DEF CoverInv
  <2>1. Fits(r, 0) \/ Covered(r)
    BY <1>1 DEF MapInv, CoverInv
  <2>2. Fits(r, 0) => Fits(r, 0 + 1)'
    BY <1>4
  <2>3. cache[r].pending => Covered(r)
    BY DEF MapInv, CoverInv
  <2>4. 0 + 1 = 1
    OBVIOUS
  <2>5. CASE r \in active
    BY <1>1, <1>5, <2>1, <2>2, <2>3, <2>4, <2>5
  <2>6. CASE r \notin active
    <3>1. Fits(r, 0)'
      BY <1>1, <2>6 DEF Fits, TypeOK
    <3>2. QED BY <1>1, <1>5, <2>3, <2>6, <3>1
  <2>7. QED BY <2>5, <2>6
<1>9. QED BY <1>6, <1>7, <1>8 DEF MapInv

\* Active flows of a route come and go: what they need is not due yet.
LEMMA FlowMap ==
  ASSUME TypeOK, MapInv, NEW r \in Routes, FlowStarts(r) \/ FlowEnds(r)
  PROVE  MapInv'
<1>1. /\ now' = now /\ cache' = cache /\ call' = call /\ queries' = queries /\ due' = due
      /\ r \notin good' /\ empty'[r] = 0 /\ Interval \in Nat /\ now \in Nat
      /\ \A e \in Routes \ {r} : /\ (e \in good' <=> e \in good)
                               /\ (e \in active' <=> e \in active)
                               /\ empty'[e] = empty[e]
  BY Bounds DEF FlowStarts, FlowEnds, TypeOK, MapInv, HistoryInv
<1>2. \A e \in Routes \ {r} :
           /\ e \in good' => cache'[e] # Absent /\ cache'[e].paths # {} /\ empty'[e] = 0
           /\ cache'[e] = Absent \/ e \notin active' => empty'[e] = 0
           /\ cache'[e] # Absent =>
                /\ e \in good' => \A p \in cache'[e].paths : cache'[e].nextRefresh + RefreshAt <= p
                /\ cache'[e].nextRefresh <= now' - empty'[e] + Interval
                /\ Fits(e, IF e \in due THEN 1 ELSE 0)' \/ Covered(e)'
                /\ cache'[e].pending => Covered(e)'
  <2>1. /\ now' = now
        /\ \A e \in Routes \ {r} : cache'[e] = cache[e] /\ empty'[e] = empty[e]
                                /\ (e \in good' <=> e \in good) /\ (e \in due' <=> e \in due)
                                /\ (e \in active' <=> e \in active)
        /\ \A q \in queries : q.route # r => q \in queries'
        /\ \A u \in Threads : call[u].pc = "query" /\ call[u].route # r => call'[u] = call[u]
    BY <1>1
  <2>2. QED BY <2>1, OtherRoutes
<1>3. \A k \in Nat : Fits(r, k)'
  BY <1>1 DEF Fits
<1>4. HistoryInv'
  BY <1>1, <1>2 DEF HistoryInv
<1>5. RefreshInv'
  <2>1. ASSUME cache[r] # Absent PROVE cache[r].nextRefresh <= now - 0 + Interval
    <3>1. cache[r].nextRefresh \in Int /\ empty[r] \in Nat
      BY <2>1 DEF TypeOK, PathSet
    <3>2. QED BY <1>1, <2>1, <3>1 DEF MapInv, RefreshInv
  <2>2. QED BY <1>1, <1>2, <2>1 DEF RefreshInv
<1>6. Covered(r) => Covered(r)'
  <2>1. \A q \in queries : 1 + q.age \in Nat
    BY Bounds DEF TypeOK, Query
  <2>2. QED BY <1>1, <1>3, <2>1 DEF Covered
<1>7. CoverInv'
  <2>1. Fits(r, IF r \in due THEN 1 ELSE 0)'
    BY <1>3
  <2>2. cache[r] # Absent /\ cache[r].pending => Covered(r)
    BY DEF MapInv, CoverInv
  <2>3. QED BY <1>1, <1>2, <1>6, <2>1, <2>2 DEF CoverInv
<1>8. QED BY <1>4, <1>5, <1>7 DEF MapInv

LEMMA NextMap == TypeOK /\ LockInv /\ MapInv /\ [Next]_vars => MapInv'
<1> SUFFICES ASSUME TypeOK, LockInv, MapInv, [Next]_vars PROVE MapInv'
  OBVIOUS
<1>1. ASSUME NEW t \in Threads, NEW op, NEW r, NEW refresh, Begin(t, op, r, refresh)
      PROVE  MapInv'
  <2>1. UNCHANGED <<now, cache, queries, active, due, good, empty>> /\ call[t].pc = "idle"
    BY <1>1 DEF Begin, Idle
  <2>2. \A u \in Threads : call[u].pc = "query" => call'[u] = call[u]
    BY <1>1, <2>1 DEF Begin, TypeOK
  <2>3. QED BY <2>1, <2>2, QuietStep
<1>2. ASSUME NEW t \in Threads, Update(t) PROVE MapInv'
  BY <1>2, UpdateMap
<1>3. ASSUME NEW t \in Threads, StartQuery(t) PROVE MapInv'
  <2>1. PICK q \in queries' : q.route = call[t].route /\ q.age = 0
    BY <1>3 DEF StartQuery
  <2>2. queries \subseteq queries' /\ UNCHANGED <<now, cache, active, due, good, empty>>
    BY <1>3 DEF StartQuery
  <2>3. \A u \in Threads \ {t} : call'[u] = call[u]
    BY <1>3 DEF StartQuery, Continue, TypeOK
  <2>4. QED BY <2>1, <2>2, <2>3, QuietStep
<1>4. ASSUME NEW t \in Threads, StoreLocal(t) PROVE MapInv'
  <2>1. PICK r \in Routes : r = call[t].route
    BY <1>4, CallPc DEF StoreLocal, TypeOK
  <2>2. {EmptyPath} \in SUBSET Nat
    BY Bounds DEF EmptyPath
  <2>3. Store(r, {EmptyPath}) /\ UNCHANGED <<now, queries, active, due>>
    BY <1>4, <2>1 DEF StoreLocal
  <2>4. \A u \in Threads : u # t => call'[u] = call[u]
    BY <1>4 DEF StoreLocal, Continue, TypeOK
  <2>5. \A u \in Threads : call[u].pc = "query" /\ call[u].route # r => call'[u] = call[u]
    BY <2>1, <2>4
  <2>6. QED BY <2>2, <2>3, <2>5, StoreMap
<1>5. ASSUME NEW t \in Threads, Find(t) \/ Copy(t) PROVE MapInv'
  <2>1. UNCHANGED <<now, cache, queries, active, due, good, empty>> /\ call[t].pc # "query"
    BY <1>5 DEF Find, Copy
  <2>2. \A u \in Threads \ {t} : call'[u] = call[u]
    BY <1>5 DEF Find, Copy, Continue, TypeOK
  <2>3. QED BY <2>1, <2>2, QuietStep
<1>6. ASSUME NEW t \in Threads, NEW r \in Routes, Clear(t, r) PROVE MapInv'
  <2>1. /\ UNCHANGED <<now, call, queries, active, due>>
        /\ cache' = [cache EXCEPT ![r] = Absent]
        /\ good' = good \ {r} /\ empty' = [empty EXCEPT ![r] = 0]
    BY <1>6 DEF Clear
  <2>2. /\ \A e \in Routes \ {r} : cache'[e] = cache[e] /\ empty'[e] = empty[e]
                                /\ (e \in good' <=> e \in good)
        /\ cache'[r] = Absent /\ r \notin good' /\ empty'[r] = 0
    BY <2>1 DEF TypeOK
  <2>3. \A e \in Routes \ {r} :
           /\ e \in good' => cache'[e] # Absent /\ cache'[e].paths # {} /\ empty'[e] = 0
           /\ cache'[e] = Absent \/ e \notin active' => empty'[e] = 0
           /\ cache'[e] # Absent =>
                /\ e \in good' => \A p \in cache'[e].paths : cache'[e].nextRefresh + RefreshAt <= p
                /\ cache'[e].nextRefresh <= now' - empty'[e] + Interval
                /\ Fits(e, IF e \in due THEN 1 ELSE 0)' \/ Covered(e)'
                /\ cache'[e].pending => Covered(e)'
    BY <2>1, <2>2, OtherRoutes
  <2>4. HistoryInv' /\ RefreshInv'
    BY <2>2, <2>3 DEF HistoryInv, RefreshInv
  <2>5. CoverInv'
    BY <2>2, <2>3 DEF CoverInv
  <2>6. QED BY <2>4, <2>5 DEF MapInv
<1>7. ASSUME NEW q \in queries, BeginStore(q) PROVE MapInv'
  BY <1>7, QuietStep DEF BeginStore
<1>8. ASSUME NEW q \in queries, NEW ps \in Answers, FinishStore(q, ps) PROVE MapInv'
  <2>1. PICK r \in Routes : r = q.route
    BY DEF TypeOK, Query
  <2>2. now \in Nat /\ ps \in SUBSET Nat
    BY PathCacheAssumption, Bounds DEF TypeOK, Answers
  <2>3. Store(r, ps) /\ UNCHANGED <<now, call, active, due>> /\ queries' = queries \ {q}
    BY <1>8, <2>1 DEF FinishStore
  <2>4. \A p \in queries : p.route # r => p \in queries'
    BY <2>1, <2>3
  <2>5. QED BY <2>2, <2>3, <2>4, StoreMap
<1>9. CASE Tick
  BY <1>9, TickMap
<1>10. CASE UNCHANGED vars
  BY <1>10, QuietStep DEF vars
<1>11. ASSUME NEW r \in Routes, Prefetch(r) PROVE MapInv'
  <2>1. Maint \in Threads /\ Begin(Maint, "prefetch", r, FALSE)
    BY <1>11, PathCacheAssumption DEF Prefetch
  <2>2. QED BY <1>1, <2>1
<1>12. ASSUME NEW t \in Threads, NEW r \in Routes, NEW o \in Ops, Begin(t, o[1], r, o[2])
       PROVE  MapInv'
  BY <1>1, <1>12
<1>13. ASSUME NEW r \in Routes, FlowStarts(r) \/ FlowEnds(r) PROVE MapInv'
  BY <1>13, FlowMap
<1>14. QED
  BY <1>2, <1>3, <1>4, <1>5, <1>6, <1>7, <1>8, <1>9, <1>10, <1>11, <1>12, <1>13
     DEF Next, Work, Answer

-----------------------------------------------------------------------------
(***************************************************************************)
(* Theorems                                                                *)
(***************************************************************************)

\* The inductive invariant: types, the mutex, and for every route when its
\* next refresh is due and which query or thread takes care of it.
THEOREM Invariance == Spec => []IInv
<1>1. Init => IInv
  BY TypeInit, MapInit DEF IInv, MapInv
<1>2. IInv /\ [Next]_vars => IInv'
  BY TypeStep, NextMap DEF IInv, MapInv
<1>3. QED BY <1>1, <1>2, PTL DEF Spec

\* Types are preserved by every call of the cache and every answer.
THEOREM TypeCorrect == Spec => []TypeOK
<1>1. IInv => TypeOK
  BY DEF IInv
<1>2. QED BY <1>1, Invariance, PTL

\* refreshPending is never left set with nobody there to reset it, whatever
\* the threads, the provider and the daemon's answers do in between.
THEOREM PendingIsQueried == Spec => []PendingHasQuery
<1>1. IInv => PendingHasQuery
  BY DEF IInv, CoverInv, Covered, PendingHasQuery
<1>2. QED BY <1>1, Invariance, PTL

\* A route that an active flow uses, and whose last answer was empty, gets another
\* one in time: refreshInterval is respected however many queries overlap.
THEOREM RetryInTime == Spec => []RetriedInTime
<1>1. ASSUME IInv PROVE RetriedInTime
  <2> SUFFICES ASSUME NEW r \in Routes PROVE empty[r] <= Interval + MaxDelay + 1
    BY DEF RetriedInTime
  <2>1. empty[r] \in Nat /\ Interval \in Nat /\ MaxDelay \in Nat
    BY <1>1, Bounds DEF IInv, TypeOK
  <2>2. CASE cache[r] = Absent \/ r \in good \/ r \notin active
    BY <1>1, <2>1, <2>2 DEF IInv, HistoryInv
  <2>3. CASE cache[r] # Absent /\ r \in active \ good
    <3>1. Covered(r) \/ Fits(r, 0) \/ Fits(r, 1)
      BY <1>1, <2>3 DEF IInv, CoverInv
    <3>2. ASSUME NEW q \in queries, Fits(r, 1 + q.age)
          PROVE  empty[r] <= Interval + MaxDelay + 1
      <4>1. q.age \in 0 .. MaxDelay
        BY <1>1 DEF IInv, TypeOK, Query
      <4>2. empty[r] <= Interval + (1 + q.age)
        BY <2>3, <3>2 DEF Fits
      <4>3. QED BY <2>1, <4>1, <4>2
    <3>3. ASSUME Fits(r, 0) \/ Fits(r, 1) PROVE empty[r] <= Interval + MaxDelay + 1
      BY <2>1, <2>3, <3>3 DEF Fits
    <3>4. QED BY <3>1, <3>2, <3>3 DEF Covered
  <2>4. QED BY <2>2, <2>3
<1>2. QED BY <1>1, Invariance, PTL

\* A route that an active flow uses does not run out of valid paths while the daemon
\* answers in time with acceptable ones.  Paths must be refreshed, and be accepted, only if
\* they live longer than the daemon takes to answer (and one tick): Scitra-TUN
\* refreshes 10 minutes before the expiry and asks for 5 minutes of lifetime.
THEOREM PathsNeverRunDry ==
  ASSUME RefreshAt > MaxDelay + 1, MinAccepted > MaxDelay
  PROVE  Spec => []NeverRunsDry
<1>1. ASSUME IInv PROVE NeverRunsDry
  <2> SUFFICES ASSUME NEW r \in good PROVE \E p \in cache[r].paths : p > now
    BY DEF NeverRunsDry, Valid
  <2>1. r \in Routes /\ cache[r] # Absent /\ cache[r].paths # {}
    BY <1>1 DEF IInv, TypeOK, HistoryInv
  <2>2. cache[r].paths \subseteq Nat /\ now \in Nat /\ MaxDelay \in Nat
    BY <1>1, <2>1, Bounds DEF IInv, TypeOK, PathSet
  <2>3. PICK p \in cache[r].paths : TRUE
    BY <2>1
  <2>4. Lead \in Nat /\ Lead > MaxDelay + 1
    BY Bounds DEF Lead
  <2>5. Covered(r) \/ Fits(r, 0) \/ Fits(r, 1)
    BY <1>1, <2>1 DEF IInv, CoverInv
  <2>6. ASSUME NEW q \in queries, Fits(r, 1 + q.age) PROVE p > now
    <3>1. q.age \in 0 .. MaxDelay
      BY <1>1 DEF IInv, TypeOK, Query
    <3>2. now + Lead <= p + (1 + q.age)
      BY <2>6 DEF Fits
    <3>3. QED BY <2>2, <2>4, <3>1, <3>2
  <2>7. ASSUME Fits(r, 0) \/ Fits(r, 1) PROVE p > now
    BY <2>2, <2>4, <2>7 DEF Fits
  <2>8. QED BY <2>5, <2>6, <2>7 DEF Covered
<1>2. QED BY <1>1, Invariance, PTL
=============================================================================
