------------------------- MODULE ScitraLocks_proofs -------------------------
(***************************************************************************)
(* Proofs about the lock order of Scitra-TUN for any number of egress      *)
(* threads and workers.                                                    *)
(***************************************************************************)
EXTENDS ScitraLocks, SequenceTheorems, TLAPS

Steps == [op : {"lock", "unlock"}, locks : SUBSET Locks]

\* The order in which a thread takes mutexes that it holds at the same time.
Rank(m) == CASE m \in {"socket", "flow"} -> 1 [] m = "lead" -> 2 [] m \in {"sub", "cache"} -> 3

\* The mutexes of S can be locked while h is held.  Who rejects a subflow does
\* not keep the order, but takes no mutex twice.
Above(S, h) ==
  \A l \in h : l[1] \notin S /\ (Rejects = FALSE => \A m \in S : Rank(l[1]) < Rank(m))

InOrder(step, h) ==
  Rejects = FALSE /\ step.op = "lock" => \A a \in step.locks, b \in h : Rank(b[1]) < Rank(a[1])

After(step, h) == IF step.op = "lock" THEN h \cup step.locks ELSE h \ step.locks

\* Steps that are left and locks that are held: whatever is locked is of a
\* higher rank than what is held, and in the end nothing is held.
Closed(R) ==
  \A p \in R :
    IF p[1] = << >> THEN p[2] = {}
    ELSE InOrder(Head(p[1]), p[2]) /\ <<Tail(p[1]), After(Head(p[1]), p[2])>> \in R

Ordered(s, h) ==
  \E R \in SUBSET (Seq(Steps) \X SUBSET Locks) : Closed(R) /\ <<s, h>> \in R

TaskNames == {"none"} \cup {k[1] : k \in UNION {Tasks(t) : t \in Threads}}

IInv ==
  /\ todo \in [Threads -> Seq(Steps)]
  /\ task \in [Threads -> TaskNames]
  /\ held \in [Threads -> SUBSET Locks]
  /\ \A t \in Threads : Ordered(todo[t], held[t])

\* A part of a task: what goes on with k held can go on after f with h held.
Leads(h, f, k) ==
  /\ f \in Seq(Steps)
  /\ \A s \in Seq(Steps) : Ordered(s, k) => Ordered(f \o s, h)

-----------------------------------------------------------------------------
(***************************************************************************)
(* Tasks keep the order.                                                   *)
(***************************************************************************)
LEMMA NothingLeft == Ordered(<< >>, {})
<1>1. PICK s \in Seq(Steps), h \in SUBSET Locks : s = << >> /\ h = {}
  <2>1. << >> \in Seq(Steps) /\ {} \in SUBSET Locks
    OBVIOUS
  <2>2. QED BY <2>1
<1>2. <<s, h>> \in Seq(Steps) \X SUBSET Locks /\ <<s, h>>[1] = s /\ <<s, h>>[2] = h
  BY <1>1
<1>3. Closed({<<s, h>>})
  BY <1>1, <1>2 DEF Closed
<1>4. Ordered(s, h)
  BY <1>2, <1>3 DEF Ordered
<1>5. QED BY <1>1, <1>4

\* One more step in front.
LEMMA StepBefore ==
  ASSUME NEW step \in Steps, NEW s \in Seq(Steps), NEW h \in SUBSET Locks,
         InOrder(step, h), Ordered(s, After(step, h))
  PROVE  Ordered(<<step>> \o s, h)
<1>1. PICK R \in SUBSET (Seq(Steps) \X SUBSET Locks) :
        Closed(R) /\ <<s, After(step, h)>> \in R
  BY DEF Ordered
<1> DEFINE f == <<step>> \o s
           p == <<f, h>>
<1>2. f \in Seq(Steps) /\ f # << >> /\ Head(f) = step /\ Tail(f) = s
  OBVIOUS
<1> HIDE DEF f
<1>3. p[1] = f /\ p[2] = h /\ p \in Seq(Steps) \X SUBSET Locks
  BY <1>2
<1> HIDE DEF p
<1>4. Closed(R \cup {p})
  <2>1. ASSUME NEW q \in R
        PROVE  IF q[1] = << >> THEN q[2] = {}
               ELSE /\ InOrder(Head(q[1]), q[2])
                    /\ <<Tail(q[1]), After(Head(q[1]), q[2])>> \in R \cup {p}
    BY <1>1 DEF Closed
  <2>2. /\ p[1] # << >> /\ InOrder(Head(p[1]), p[2])
        /\ <<Tail(p[1]), After(Head(p[1]), p[2])>> \in R \cup {p}
    BY <1>1, <1>2, <1>3
  <2>3. QED BY <2>1, <2>2 DEF Closed
<1>5. R \cup {p} \in SUBSET (Seq(Steps) \X SUBSET Locks) /\ <<f, h>> \in R \cup {p}
  BY <1>1, <1>3 DEF p
<1>6. Ordered(f, h)
  BY <1>4, <1>5 DEF Ordered
<1>7. QED BY <1>6 DEF f

LEMMA Sequel ==
  ASSUME NEW h, NEW f, NEW k, NEW g, NEW l, Leads(h, f, k), Leads(k, g, l)
  PROVE  Leads(h, f \o g, l)
<1>1. f \in Seq(Steps) /\ g \in Seq(Steps) /\ f \o g \in Seq(Steps)
  BY DEF Leads
<1>2. ASSUME NEW s \in Seq(Steps), Ordered(s, l) PROVE Ordered((f \o g) \o s, h)
  <2>1. g \o s \in Seq(Steps)
    BY <1>1
  <2>2. Ordered(g \o s, k)
    BY <1>2 DEF Leads
  <2>3. Ordered(f \o (g \o s), h)
    BY <2>1, <2>2 DEF Leads
  <2>4. (f \o g) \o s = f \o (g \o s)
    BY <1>1, ConcatAssociative
  <2>5. QED BY <2>3, <2>4
<1>3. QED BY <1>1, <1>2 DEF Leads

LEMMA OneStep ==
  ASSUME NEW step \in Steps, NEW h \in SUBSET Locks, InOrder(step, h)
  PROVE  Leads(h, <<step>>, After(step, h))
<1>1. <<step>> \in Seq(Steps)
  OBVIOUS
<1>2. ASSUME NEW s \in Seq(Steps), Ordered(s, After(step, h)) PROVE Ordered(<<step>> \o s, h)
  BY <1>2, StepBefore
<1>3. QED BY <1>1, <1>2 DEF Leads

LEMMA Ranks ==
  /\ Rank("socket") = 1 /\ Rank("flow") = 1 /\ Rank("lead") = 2
  /\ Rank("sub") = 3 /\ Rank("cache") = 3
  /\ \A m \in Mutexes : Rank(m) \in 1..3
<1>1. \A m \in {"socket", "flow", "lead", "sub", "cache"} : Rank(m) \in 1..3
  BY DEF Rank
<1>2. QED BY <1>1 DEF Rank, Mutexes

\* The mutexes of S are locked.
LEMMA Locking ==
  ASSUME NEW S \in SUBSET Mutexes, NEW mode \in {"unique", "shared"}, NEW h \in SUBSET Locks,
         Above(S, h), NEW lock, lock = [op |-> "lock", locks |-> S \X {mode}]
  PROVE  Leads(h, <<lock>>, h \cup (S \X {mode}))
<1>1. lock \in Steps /\ lock.op = "lock" /\ lock.locks = S \X {mode}
  BY DEF Steps, Locks
<1>2. After(lock, h) = h \cup (S \X {mode})
  BY <1>1 DEF After
<1>3. InOrder(lock, h)
  BY <1>1 DEF Above, InOrder
<1>4. Leads(h, <<lock>>, After(lock, h))
  BY <1>1, <1>3, OneStep
<1>5. QED BY <1>2, <1>4

\* They are unlocked; what was held before is of a lower rank.
LEMMA Unlocking ==
  ASSUME NEW S \in SUBSET Mutexes, NEW mode \in {"unique", "shared"}, NEW h \in SUBSET Locks,
         Above(S, h)
  PROVE  Leads(h \cup (S \X {mode}), <<Unlock(S)>>, h)
<1>1. PICK unlock \in Steps :
        unlock = Unlock(S) /\ unlock.op = "unlock" /\ unlock.locks = S \X {"unique", "shared"}
  <2>1. Unlock(S) \in Steps
    BY DEF Steps, Locks, Unlock
  <2>2. Unlock(S).op = "unlock" /\ Unlock(S).locks = S \X {"unique", "shared"}
    BY DEF Unlock
  <2>3. QED BY <2>1, <2>2
<1>2. PICK k \in SUBSET Locks : k = h \cup (S \X {mode})
  BY DEF Locks
<1>3. After(unlock, k) = h
  <2> DEFINE A == S \X {mode}
             B == S \X {"unique", "shared"}
  <2>1. ASSUME NEW l \in h PROVE l[1] \notin S
    BY DEF Above
  <2>2. h \cap B = {}
    BY <2>1
  <2>3. A \subseteq B
    OBVIOUS
  <2>4. After(unlock, k) = (h \cup A) \ B
    BY <1>1, <1>2 DEF After
  <2> HIDE DEF A, B
  <2>5. QED BY <2>2, <2>3, <2>4
<1>4. Leads(k, <<unlock>>, h)
  <2>1. InOrder(unlock, k)
    BY <1>1 DEF InOrder
  <2>2. QED BY <1>1, <1>3, <2>1, OneStep
<1>5. QED BY <1>1, <1>2, <1>4

LEMMA AboveNothing ==
  ASSUME NEW S
  PROVE  Above(S, {})
BY DEF Above

LEMMA AboveMore ==
  ASSUME NEW S \in SUBSET Mutexes, NEW T, NEW h, Above(S, h),
         S \cap T = {}, Rejects = FALSE => \A m \in S, n \in T : Rank(n) < Rank(m)
  PROVE  Above(S, h \cup (T \X {"unique"}))
<1>1. ASSUME NEW l \in T \X {"unique"} PROVE l[1] \in T
  OBVIOUS
<1>2. QED BY <1>1 DEF Above

LEMMA Pair ==
  ASSUME NEW S, NEW a \in S, NEW b \in S
  PROVE  <<a>> \o <<b>> = <<a, b>>
<1> DEFINE l == <<a>> \o <<b>>
           r == <<a, b>>
<1>1. l \in Seq(S) /\ Len(l) = 2 /\ l[1] = a /\ l[2] = b
  OBVIOUS
<1>2. r \in Seq(S) /\ Len(r) = 2 /\ r[1] = a /\ r[2] = b
  OBVIOUS
<1> HIDE DEF l, r
<1>3. \A i \in 1..2 : l[i] = r[i]
  BY <1>1, <1>2
<1>4. l = r
  BY <1>1, <1>2, <1>3, SeqEqual
<1>5. QED BY <1>4 DEF l, r

\* A section in which nothing else is locked.
LEMMA ShortSection ==
  ASSUME NEW S \in SUBSET Mutexes, NEW mode \in {"unique", "shared"}, NEW h \in SUBSET Locks,
         Above(S, h), NEW lock, lock = [op |-> "lock", locks |-> S \X {mode}]
  PROVE  Leads(h, <<lock, Unlock(S)>>, h)
<1>1. PICK u : u = Unlock(S)
  OBVIOUS
<1>2. lock \in Steps /\ u \in Steps
  BY <1>1 DEF Steps, Locks, Unlock
<1>3. PICK k : k = h \cup (S \X {mode})
  OBVIOUS
<1>4. Leads(h, <<lock>>, k) /\ Leads(k, <<u>>, h)
  BY <1>1, <1>3, Locking, Unlocking
<1>5. Leads(h, <<lock>> \o <<u>>, h)
  BY <1>4, Sequel
<1>6. <<lock>> \o <<u>> = <<lock, u>>
  BY <1>2, Pair
<1>7. QED BY <1>1, <1>5, <1>6

-----------------------------------------------------------------------------
(***************************************************************************)
(* Fragments of tasks.                                                     *)
(***************************************************************************)
LEMMA UniqueSection ==
  ASSUME NEW S \in SUBSET Mutexes, NEW h \in SUBSET Locks, Above(S, h)
  PROVE  LET k == h \cup (S \X {"unique"})
         IN  /\ k \in SUBSET Locks
             /\ Leads(h, <<Unique(S)>>, k) /\ Leads(k, <<Unlock(S)>>, h)
             /\ Leads(h, <<Unique(S), Unlock(S)>>, h)
<1>1. PICK mode \in {"unique", "shared"} : mode = "unique"
  OBVIOUS
<1>2. PICK lock : lock = [op |-> "lock", locks |-> S \X {mode}]
  OBVIOUS
<1>3. lock = Unique(S)
  BY <1>1, <1>2 DEF Unique
<1>4. PICK k : k = h \cup (S \X {mode})
  OBVIOUS
<1>5. k \in SUBSET Locks /\ Leads(h, <<lock>>, k)
  <2>1. k \in SUBSET Locks
    BY <1>4 DEF Locks
  <2>2. Leads(h, <<lock>>, k)
    BY <1>2, <1>4, Locking
  <2>3. QED BY <2>1, <2>2
<1>6. Leads(k, <<Unlock(S)>>, h)
  BY <1>4, Unlocking
<1>7. Leads(h, <<lock, Unlock(S)>>, h)
  BY <1>2, ShortSection
<1>8. k = h \cup (S \X {"unique"})
  BY <1>1, <1>4
<1>9. Leads(h, <<Unique(S)>>, k) /\ Leads(h, <<Unique(S), Unlock(S)>>, h)
  BY <1>3, <1>5, <1>7
<1>10. QED BY <1>5, <1>6, <1>8, <1>9

\* A mutex is locked while mutexes of lower ranks are held.
LEMMA TouchLeads ==
  ASSUME NEW m \in Mutexes, NEW h \in SUBSET Locks, Above({m}, h)
  PROVE  Leads(h, Touch(m), h)
<1>1. PICK S \in SUBSET Mutexes : S = {m}
  OBVIOUS
<1>2. Leads(h, <<Unique(S), Unlock(S)>>, h)
  BY <1>1, UniqueSection
<1>3. QED BY <1>1, <1>2 DEF Touch

LEMMA InsideLeads ==
  ASSUME NEW m \in Mutexes, NEW n \in Mutexes, Rank(m) < Rank(n),
         NEW h \in SUBSET Locks, Above({m}, h), Above({n}, h)
  PROVE  Leads(h, Inside(m, n), h)
<1>1. PICK S \in SUBSET Mutexes : S = {m}
  OBVIOUS
<1>2. PICK k : k = h \cup (S \X {"unique"})
  OBVIOUS
<1>3. k \in SUBSET Locks /\ Leads(h, <<Unique(S)>>, k) /\ Leads(k, <<Unlock(S)>>, h)
  BY <1>1, <1>2, UniqueSection
<1>4. Above({n}, k)
  <2>1. m # n
    BY Ranks
  <2>2. PICK T \in SUBSET Mutexes : T = {n}
    OBVIOUS
  <2>3. T \cap S = {} /\ \A x \in T, y \in S : Rank(y) < Rank(x)
    BY <1>1, <2>1, <2>2
  <2>4. Above(T, h)
    BY <2>2
  <2>5. Above(T, k)
    BY <1>2, <2>3, <2>4, AboveMore
  <2>6. QED BY <2>2, <2>5
<1>5. Leads(k, Touch(n), k)
  BY <1>3, <1>4, TouchLeads
<1>6. Leads(h, <<Unique(S)>> \o Touch(n), k)
  BY <1>3, <1>5, Sequel
<1>7. Leads(h, <<Unique(S)>> \o Touch(n) \o <<Unlock(S)>>, h)
  BY <1>3, <1>6, Sequel
<1>8. QED BY <1>1, <1>7 DEF Inside

LEMMA GetSocketLeads ==
  ASSUME NEW h \in SUBSET Locks, Above({"socket"}, h)
  PROVE  Leads(h, GetSocket, h)
<1>1. PICK S \in SUBSET Mutexes : S = {"socket"}
  BY DEF Mutexes
<1>2. PICK lock : lock = [op |-> "lock", locks |-> S \X {"shared"}]
  OBVIOUS
<1>3. S \X {"shared"} = {<<"socket", "shared">>}
  BY <1>1
<1>4. lock = Shared("socket")
  BY <1>2, <1>3 DEF Shared
<1>5. Leads(h, <<lock, Unlock(S)>>, h)
  BY <1>1, <1>2, ShortSection
<1>6. QED BY <1>1, <1>4, <1>5 DEF GetSocket

\* With nothing held, any mutex can be locked.
LEMMA Fragments ==
  /\ \A m \in Mutexes : Leads({}, Touch(m), {})
  /\ Leads({}, Inside("flow", "lead"), {})
  /\ Leads({}, GetSocket, {}) /\ Leads({}, OpenSocket, {})
  /\ Leads({}, SelectPathMulti, {})
<1>1. \A m \in Mutexes : Leads({}, Touch(m), {})
  BY AboveNothing, TouchLeads
<1>2. "flow" \in Mutexes /\ "lead" \in Mutexes /\ "socket" \in Mutexes
      /\ "sub" \in Mutexes /\ "cache" \in Mutexes
  BY DEF Mutexes
<1>3. Leads({}, Inside("flow", "lead"), {})
  <2>1. Above({"flow"}, {}) /\ Above({"lead"}, {}) /\ Rank("flow") < Rank("lead")
    BY Ranks, AboveNothing
  <2>2. QED BY <1>2, <2>1, InsideLeads
<1>4. Leads({}, GetSocket, {})
  BY <1>2, AboveNothing, GetSocketLeads
<1>5. Leads({}, OpenSocket, {})
  <2>1. Leads({}, Touch("socket"), {})
    BY <1>1, <1>2
  <2>2. Leads({}, GetSocket \o Touch("socket"), {})
    BY <1>4, <2>1, Sequel
  <2>3. QED BY <2>2 DEF OpenSocket
<1>6. Leads({}, SelectPathMulti, {})
  <2>1. PICK S \in SUBSET Mutexes : S = {"lead"}
    BY <1>2
  <2>2. PICK k : k = {} \cup (S \X {"unique"})
    OBVIOUS
  <2>3. k \in SUBSET Locks /\ Leads({}, <<Unique(S)>>, k) /\ Leads(k, <<Unlock(S)>>, {})
    BY <2>2, AboveNothing, UniqueSection
  <2>4. ASSUME NEW m \in {"sub", "cache"} PROVE Leads(k, Touch(m), k)
    <3>1. \A x \in {m}, n \in S : Rank(n) < Rank(x)
      BY <2>1, Ranks
    <3>2. m \in Mutexes /\ {m} \cap S = {}
      BY <1>2, <2>1
    <3>3. Above({m}, k)
      BY <2>2, <3>1, <3>2, AboveNothing, AboveMore
    <3>4. QED BY <2>3, <3>2, <3>3, TouchLeads
  <2>5. Leads({}, <<Unique(S)>> \o Touch("sub"), k)
    BY <2>3, <2>4, Sequel
  <2>6. Leads({}, <<Unique(S)>> \o Touch("sub") \o Touch("cache"), k)
    BY <2>4, <2>5, Sequel
  <2>7. Leads({}, <<Unique(S)>> \o Touch("sub") \o Touch("cache") \o <<Unlock(S)>>, {})
    BY <2>3, <2>6, Sequel
  <2>8. QED BY <2>1, <2>7 DEF SelectPathMulti
<1>7. QED BY <1>1, <1>3, <1>4, <1>5, <1>6
\* What is done with the socket and the flow table locked.
LEMMA Maintenance ==
  \E k : LET S == {"socket", "flow"}
         IN  /\ Leads({}, <<Unique(S)>>, k) /\ Leads(k, <<Unlock(S)>>, {})
             /\ Leads(k, Inside("lead", "sub"), k)
             /\ Leads(k, Touch("lead"), k) /\ Leads(k, Touch("cache"), k)
<1>1. PICK S \in SUBSET Mutexes : S = {"socket", "flow"}
  BY DEF Mutexes
<1>2. PICK k : k = {} \cup (S \X {"unique"})
  OBVIOUS
<1>3. k \in SUBSET Locks /\ Leads({}, <<Unique(S)>>, k) /\ Leads(k, <<Unlock(S)>>, {})
  BY <1>2, AboveNothing, UniqueSection
<1>4. ASSUME NEW m \in {"lead", "sub", "cache"} PROVE m \in Mutexes /\ Above({m}, k)
  <2>1. \A x \in {m}, n \in S : Rank(n) < Rank(x)
    BY <1>1, Ranks
  <2>2. m \in Mutexes /\ {m} \cap S = {}
    BY <1>1 DEF Mutexes
  <2>3. QED BY <1>2, <2>1, <2>2, AboveNothing, AboveMore
<1>5. Leads(k, Touch("lead"), k) /\ Leads(k, Touch("cache"), k)
  BY <1>3, <1>4, TouchLeads
<1>6. Leads(k, Inside("lead", "sub"), k)
  <2>1. Rank("lead") < Rank("sub")
    BY Ranks
  <2>2. QED BY <1>3, <1>4, <2>1, InsideLeads
<1>7. QED BY <1>1, <1>3, <1>5, <1>6

-----------------------------------------------------------------------------
(***************************************************************************)
(* Tasks.                                                                  *)
(***************************************************************************)
LEMMA EgressTasks == Leads({}, EgressSyn, {}) /\ Leads({}, EgressData, {})
<1>1. /\ Leads({}, GetFlowEgress, {}) /\ Leads({}, FindFlow, {}) /\ Leads({}, GetSocket, {})
      /\ Leads({}, OpenSocket, {}) /\ Leads({}, SelectPathMulti, {})
      /\ Leads({}, Touch("lead"), {}) /\ Leads({}, Touch("sub"), {})
  BY Fragments DEF GetFlowEgress, FindFlow, Mutexes
<1>2. Leads({}, GetFlowEgress \o Touch("lead") \o Touch("sub"), {})
  <2>1. Leads({}, GetFlowEgress \o Touch("lead"), {})
    BY <1>1, Sequel
  <2>2. QED BY <1>1, <2>1, Sequel
<1>3. Leads({}, EgressSyn, {})
  <2>1. Leads({}, GetFlowEgress \o Touch("lead") \o Touch("sub") \o FindFlow, {})
    BY <1>1, <1>2, Sequel
  <2>2. Leads({}, GetFlowEgress \o Touch("lead") \o Touch("sub") \o FindFlow
                  \o SelectPathMulti, {})
    BY <1>1, <2>1, Sequel
  <2>3. Leads({}, GetFlowEgress \o Touch("lead") \o Touch("sub") \o FindFlow
                  \o SelectPathMulti \o Touch("sub"), {})
    BY <1>1, <2>2, Sequel
  <2>4. Leads({}, GetFlowEgress \o Touch("lead") \o Touch("sub") \o FindFlow
                  \o SelectPathMulti \o Touch("sub") \o OpenSocket, {})
    BY <1>1, <2>3, Sequel
  <2>5. Leads({}, GetFlowEgress \o Touch("lead") \o Touch("sub") \o FindFlow
                  \o SelectPathMulti \o Touch("sub") \o OpenSocket \o Touch("sub"), {})
    BY <1>1, <2>4, Sequel
  <2>6. QED BY <2>5 DEF EgressSyn
<1>4. Leads({}, EgressData, {})
  <2>1. Leads({}, GetFlowEgress \o Touch("lead") \o Touch("sub") \o Touch("sub"), {})
    BY <1>1, <1>2, Sequel
  <2>2. Leads({}, GetFlowEgress \o Touch("lead") \o Touch("sub") \o Touch("sub")
                  \o GetSocket, {})
    BY <1>1, <2>1, Sequel
  <2>3. Leads({}, GetFlowEgress \o Touch("lead") \o Touch("sub") \o Touch("sub")
                  \o GetSocket \o Touch("sub"), {})
    BY <1>1, <2>2, Sequel
  <2>4. QED BY <2>3 DEF EgressData
<1>5. QED BY <1>3, <1>4

LEMMA IngressTask == Leads({}, IngressData, {})
<1>1. /\ Leads({}, Touch("cache"), {}) /\ Leads({}, FindFlow, {}) /\ Leads({}, Touch("lead"), {})
      /\ Leads({}, Inside("flow", "lead"), {}) /\ Leads({}, Touch("sub"), {})
  BY Fragments DEF FindFlow, Mutexes
<1>2. Leads({}, Touch("cache") \o FindFlow, {})
  BY <1>1, Sequel
<1>3. Leads({}, Touch("cache") \o FindFlow \o Touch("lead"), {})
  BY <1>1, <1>2, Sequel
<1>4. Leads({}, Touch("cache") \o FindFlow \o Touch("lead") \o Inside("flow", "lead"), {})
  BY <1>1, <1>3, Sequel
<1>5. Leads({}, Touch("cache") \o FindFlow \o Touch("lead") \o Inside("flow", "lead")
                \o Touch("sub"), {})
  BY <1>1, <1>4, Sequel
<1>6. QED BY <1>5 DEF IngressData

LEMMA RejectTask ==
  ASSUME Rejects = TRUE
  PROVE  Leads({}, IngressReject, {})
<1>1. PICK S \in SUBSET Mutexes : S = {"lead"}
  BY DEF Mutexes
<1>2. PICK T \in SUBSET Mutexes : T = {"socket"} /\ S \cap T = {}
  <2>1. {"socket"} \in SUBSET Mutexes /\ S \cap {"socket"} = {}
    BY <1>1 DEF Mutexes
  <2>2. QED BY <2>1
<1>3. PICK k : k = {} \cup (S \X {"unique"})
  OBVIOUS
<1>4. k \in SUBSET Locks /\ Leads({}, <<Unique(S)>>, k) /\ Leads(k, <<Unlock(S)>>, {})
  BY <1>3, AboveNothing, UniqueSection
<1>5. Above(T, k)
  BY <1>2, <1>3, AboveNothing, AboveMore
<1>6. Leads(k, OpenSocket, k)
  <2>1. Leads(k, GetSocket, k)
    BY <1>2, <1>4, <1>5, GetSocketLeads
  <2>2. Leads(k, Touch("socket"), k)
    BY <1>2, <1>4, <1>5, TouchLeads
  <2>3. QED BY <2>1, <2>2, Sequel DEF OpenSocket
<1>7. Leads({}, FindFlow, {}) /\ Leads({}, Touch("lead"), {})
  BY Fragments DEF FindFlow, Mutexes
<1>8. Leads({}, FindFlow \o Touch("lead"), {})
  BY <1>7, Sequel
<1>9. Leads({}, FindFlow \o Touch("lead") \o <<Unique(S)>>, k)
  BY <1>4, <1>8, Sequel
<1>10. Leads({}, FindFlow \o Touch("lead") \o <<Unique(S)>> \o OpenSocket, k)
  BY <1>6, <1>9, Sequel
<1>11. Leads({}, FindFlow \o Touch("lead") \o <<Unique(S)>> \o OpenSocket \o <<Unlock(S)>>, {})
  BY <1>4, <1>10, Sequel
<1>12. QED BY <1>1, <1>11 DEF IngressReject

LEMMA TimerTask == Leads({}, MaintainFlows, {})
<1> DEFINE S == {"socket", "flow"}
<1>1. PICK k : /\ Leads({}, <<Unique(S)>>, k) /\ Leads(k, <<Unlock(S)>>, {})
               /\ Leads(k, Inside("lead", "sub"), k)
               /\ Leads(k, Touch("lead"), k) /\ Leads(k, Touch("cache"), k)
  BY Maintenance
<1>2. Leads({}, <<Unique(S)>> \o Inside("lead", "sub"), k)
  BY <1>1, Sequel
<1>3. Leads({}, <<Unique(S)>> \o Inside("lead", "sub") \o Touch("lead"), k)
  BY <1>1, <1>2, Sequel
<1>4. Leads({}, <<Unique(S)>> \o Inside("lead", "sub") \o Touch("lead") \o Touch("cache"), k)
  BY <1>1, <1>3, Sequel
<1>5. Leads({}, <<Unique(S)>> \o Inside("lead", "sub") \o Touch("lead") \o Touch("cache")
                \o Inside("lead", "sub"), k)
  BY <1>1, <1>4, Sequel
<1>6. Leads({}, <<Unique(S)>> \o Inside("lead", "sub") \o Touch("lead") \o Touch("cache")
                \o Inside("lead", "sub") \o <<Unlock(S)>>, {})
  BY <1>1, <1>5, Sequel
<1>7. QED BY <1>6 DEF MaintainFlows

LEMMA UiTasks ==
  Leads({}, ExportFlows, {}) /\ Leads({}, OverrideFlowPath, {}) /\ Leads({}, Stop, {})
<1> DEFINE S == {"socket", "flow"}
<1>1. Leads({}, ExportFlows, {})
  <2>1. PICK k : /\ Leads({}, <<Unique(S)>>, k) /\ Leads(k, <<Unlock(S)>>, {})
                 /\ Leads(k, Inside("lead", "sub"), k)
    BY Maintenance
  <2>2. Leads({}, <<Unique(S)>> \o Inside("lead", "sub"), k)
    BY <2>1, Sequel
  <2>3. Leads({}, <<Unique(S)>> \o Inside("lead", "sub") \o <<Unlock(S)>>, {})
    BY <2>1, <2>2, Sequel
  <2>4. QED BY <2>3 DEF ExportFlows
<1>2. QED BY <1>1, Fragments DEF OverrideFlowPath, Stop, Mutexes
LEMMA WholeTask ==
  ASSUME NEW f, Leads({}, f, {})
  PROVE  f \in Seq(Steps) /\ Ordered(f, {})
<1>1. f \in Seq(Steps) /\ << >> \in Seq(Steps)
  BY DEF Leads
<1>2. Ordered(f \o << >>, {})
  BY <1>1, NothingLeft DEF Leads
<1>3. f \o << >> = f
  BY <1>1, ConcatEmptySeq
<1>4. QED BY <1>1, <1>2, <1>3

LEMMA TasksOrdered ==
  ASSUME NEW t \in Threads, NEW k \in Tasks(t)
  PROVE  k[2] \in Seq(Steps) /\ Ordered(k[2], {})
<1>1. \/ k[2] \in {EgressSyn, EgressData, IngressData, MaintainFlows, ExportFlows,
                    OverrideFlowPath, Stop}
      \/ Rejects = TRUE /\ k[2] = IngressReject
  BY ScitraLocksAssumption DEF Tasks, Threads
<1>2. Leads({}, k[2], {})
  BY <1>1, EgressTasks, IngressTask, RejectTask, TimerTask, UiTasks
<1>3. QED BY <1>2, WholeTask

-----------------------------------------------------------------------------
(***************************************************************************)
(* The invariant.                                                          *)
(***************************************************************************)
LEMMA OneStepDone ==
  ASSUME NEW s, NEW h, Ordered(s, h)
  PROVE  IF s = << >> THEN h = {}
         ELSE InOrder(Head(s), h) /\ Ordered(Tail(s), After(Head(s), h))
<1>1. PICK R \in SUBSET (Seq(Steps) \X SUBSET Locks) : Closed(R) /\ <<s, h>> \in R
  BY DEF Ordered
<1>2. PICK p \in R : p = <<s, h>>
  BY <1>1
<1>3. p[1] = s /\ p[2] = h
  BY <1>2
<1>4. IF p[1] = << >> THEN p[2] = {}
      ELSE InOrder(Head(p[1]), p[2]) /\ <<Tail(p[1]), After(Head(p[1]), p[2])>> \in R
  BY <1>1 DEF Closed
<1>5. s # << >> => Ordered(Tail(s), After(Head(s), h))
  BY <1>1, <1>3, <1>4 DEF Ordered
<1>6. QED BY <1>3, <1>4, <1>5

LEMMA InitInv == Init => IInv
<1> SUFFICES ASSUME Init PROVE IInv
  OBVIOUS
<1>1. << >> \in Seq(Steps)
  OBVIOUS
<1>2. \A t \in Threads : Ordered(todo[t], held[t])
  BY NothingLeft DEF Init
<1>3. task \in [Threads -> TaskNames]
  BY DEF Init, TaskNames
<1>4. QED BY <1>1, <1>2, <1>3 DEF Init, IInv

LEMMA BeginInv ==
  ASSUME IInv, NEW t \in Threads, NEW k \in Tasks(t), Begin(t, k)
  PROVE  IInv'
<1>1. k[2] \in Seq(Steps) /\ Ordered(k[2], {})
  BY TasksOrdered
<1>2. /\ todo[t] = << >> /\ todo' = [todo EXCEPT ![t] = k[2]] /\ held' = held
      /\ todo \in [Threads -> Seq(Steps)] /\ held \in [Threads -> SUBSET Locks]
      /\ \A u \in Threads : Ordered(todo[u], held[u])
  BY DEF Begin, IInv
<1>3. held[t] = {}
  BY <1>2, OneStepDone
<1>4. todo' \in [Threads -> Seq(Steps)] /\ todo'[t] = k[2]
      /\ \A u \in Threads \ {t} : todo'[u] = todo[u]
  BY <1>1, <1>2
<1>5. ASSUME NEW u \in Threads PROVE Ordered(todo'[u], held'[u])
  BY <1>1, <1>2, <1>3, <1>4
<1>6. task' \in [Threads -> TaskNames]
  <2>1. k[1] \in TaskNames
    BY DEF TaskNames
  <2>2. task' = [task EXCEPT ![t] = k[1]] /\ task \in [Threads -> TaskNames]
    BY DEF Begin, IInv
  <2>3. QED BY <2>1, <2>2
<1>7. QED BY <1>2, <1>4, <1>5, <1>6 DEF IInv

LEMMA StepInv ==
  ASSUME IInv, NEW t \in Threads, Step(t)
  PROVE  IInv'
<1> DEFINE s == Head(todo[t])
<1>1. /\ todo \in [Threads -> Seq(Steps)] /\ held \in [Threads -> SUBSET Locks]
      /\ \A u \in Threads : Ordered(todo[u], held[u])
  BY DEF IInv
<1>2. /\ todo[t] # << >> /\ todo' = [todo EXCEPT ![t] = Tail(@)]
      /\ held' = [held EXCEPT ![t] = After(s, @)]
  BY DEF Step, After
<1>3. s \in Steps /\ Tail(todo[t]) \in Seq(Steps)
  BY <1>1, <1>2
<1>4. After(s, held[t]) \in SUBSET Locks
  BY <1>1, <1>3 DEF After, Steps
<1>5. Ordered(Tail(todo[t]), After(s, held[t]))
  BY <1>1, <1>2, OneStepDone
<1> HIDE DEF s
<1>6. /\ todo' \in [Threads -> Seq(Steps)] /\ todo'[t] = Tail(todo[t])
      /\ held' \in [Threads -> SUBSET Locks] /\ held'[t] = After(s, held[t])
      /\ \A u \in Threads \ {t} : todo'[u] = todo[u] /\ held'[u] = held[u]
  BY <1>1, <1>2, <1>3, <1>4
<1>7. ASSUME NEW u \in Threads PROVE Ordered(todo'[u], held'[u])
  BY <1>1, <1>5, <1>6
<1>8. task' = task
  BY DEF Step
<1>9. QED BY <1>6, <1>7, <1>8 DEF IInv

LEMMA NextInv ==
  ASSUME IInv, [Next]_vars
  PROVE  IInv'
<1>1. CASE Next
  <2>1. PICK t \in Threads : Step(t) \/ \E k \in Tasks(t) : Begin(t, k)
    BY <1>1 DEF Next
  <2>2. QED BY <2>1, StepInv, BeginInv
<1>2. CASE UNCHANGED vars
  BY <1>2 DEF IInv, vars
<1>3. QED BY <1>1, <1>2

\* Who holds a lock of the highest rank waits for nobody.
LEMMA HighestRuns ==
  ASSUME Rejects = FALSE, IInv, NEW S \in SUBSET Threads, NEW t \in S, NEW r \in 0..3,
         r = 0 \/ \E b \in held[t] : Rank(b[1]) = r,
         \A u \in S : \A b \in held[u] : Rank(b[1]) <= r
  PROVE  WaitsFor(t) \cap S = {}
<1> SUFFICES ASSUME NEW u \in S, u \in WaitsFor(t) PROVE FALSE
  OBVIOUS
<1>1. /\ todo[t] # << >> /\ Head(todo[t]).op # "unlock"
      /\ \E a \in Head(todo[t]).locks, b \in held[u] : Conflict(a, b)
  BY DEF WaitsFor
<1>2. PICK a \in Head(todo[t]).locks, b \in held[u] : a[1] = b[1]
  BY <1>1 DEF Conflict
<1>3. Head(todo[t]) \in Steps /\ Ordered(todo[t], held[t]) /\ u \in Threads
      /\ held[t] \in SUBSET Locks /\ held[u] \in SUBSET Locks
  BY <1>1 DEF IInv
<1>4. Head(todo[t]).op = "lock"
  BY <1>1, <1>3 DEF Steps
<1>5. \A c \in held[t] : Rank(c[1]) < Rank(a[1])
  <2>1. InOrder(Head(todo[t]), held[t])
    BY <1>1, <1>3, OneStepDone
  <2>2. QED BY <1>4, <2>1 DEF InOrder
<1>6. \A l \in Locks : Rank(l[1]) \in 1..3
  BY Ranks DEF Locks
<1>7. Rank(b[1]) <= r /\ Rank(b[1]) \in 1..3 /\ Rank(a[1]) = Rank(b[1])
  BY <1>2, <1>3, <1>6
<1>8. r # 0 => r < Rank(a[1])
  BY <1>5
<1>9. QED BY <1>7, <1>8

LEMMA SomeoneRuns == Rejects = FALSE /\ IInv => NoDeadlock
<1> SUFFICES ASSUME Rejects = FALSE, IInv, NEW S \in SUBSET Threads, S # {}
             PROVE  \E t \in S : WaitsFor(t) \cap S = {}
  BY DEF NoDeadlock
<1> DEFINE Holds(r) == \E t \in S : \E b \in held[t] : Rank(b[1]) = r
<1>1. \A u \in S : \A b \in held[u] : Rank(b[1]) \in 1..3
  BY Ranks DEF IInv, Locks
<1>2. PICK r \in 0..3 : (r = 0 \/ Holds(r)) /\ \A q \in 1..3 : Holds(q) => q <= r
  <2> HIDE DEF Holds
  <2>1. CASE Holds(3)
    BY <2>1
  <2>2. CASE ~Holds(3) /\ Holds(2)
    BY <2>2
  <2>3. CASE ~Holds(3) /\ ~Holds(2) /\ Holds(1)
    BY <2>3
  <2>4. CASE ~Holds(3) /\ ~Holds(2) /\ ~Holds(1)
    BY <2>4
  <2>5. QED BY <2>1, <2>2, <2>3, <2>4
<1>3. \A u \in S : \A b \in held[u] : Rank(b[1]) <= r
  BY <1>1, <1>2
<1>4. PICK t \in S : r = 0 \/ \E b \in held[t] : Rank(b[1]) = r
  BY <1>2
<1>5. QED BY <1>3, <1>4, HighestRuns

LEMMA Invariant == Spec => []IInv
<1>1. Init => IInv
  BY InitInv
<1>2. IInv /\ [Next]_vars => IInv'
  BY NextInv
<1>3. QED BY <1>1, <1>2, PTL DEF Spec

(***************************************************************************)
(* Every function of Scitra-TUN has released what it locked when it        *)
(* returns, that which rejects a subflow too.                              *)
(***************************************************************************)
THEOREM LocksReleased == Spec => []TypeOK
<1>1. IInv => TypeOK
  <2> SUFFICES ASSUME IInv PROVE TypeOK
    OBVIOUS
  <2>1. \A t \in Threads : todo[t] = << >> => held[t] = {}
    BY OneStepDone DEF IInv
  <2>2. Seq(Steps) = Seq([op : {"lock", "unlock"}, locks : SUBSET Locks])
    BY DEF Steps
  <2>3. QED BY <2>1, <2>2 DEF IInv, TypeOK, TaskNames
<1>2. QED BY <1>1, Invariant, PTL

(***************************************************************************)
(* No circle of threads wait for each other, however many egress threads   *)
(* and workers there are: every function locks the flow table or the       *)
(* sockets before a lead flow, and a lead flow before a subflow or the     *)
(* path cache.  (A worker that rejects a subflow locks the sockets with a  *)
(* lead flow locked, against this order.)                                  *)
(***************************************************************************)
THEOREM NoCircularWait ==
  ASSUME Rejects = FALSE
  PROVE  Spec => []NoDeadlock
<1>1. IInv => NoDeadlock
  BY SomeoneRuns
<1>2. QED BY <1>1, Invariant, PTL
=============================================================================
