---------------------------- MODULE ScitraLocks ----------------------------
(***************************************************************************)
(* The mutexes of Scitra-TUN and the order in which its threads take them  *)
(* (scitra/src/scitra-tun/scitra_tun.cpp): socketMutex, flowMutex, the     *)
(* mutex of a lead flow, that of one of its subflows and the mutex of the  *)
(* path cache.                                                             *)
(*                                                                         *)
(* A task is the sequence of lock and unlock steps a function makes; what  *)
(* it does in between is left out.                                         *)
(***************************************************************************)
EXTENDS Naturals, Sequences, FiniteSets

CONSTANTS
  Egress,       \* threads that run translateIPtoScion()
  Ingress,      \* workers that run translateScionToIP()
  Timer,        \* the worker that runs tick()
  Ui,           \* the thread of the user interface
  Rejects       \* TRUE if remote hosts open more subflows than there are addresses

ASSUME ScitraLocksAssumption == Rejects \in BOOLEAN

Threads == Egress \cup Ingress \cup {Timer, Ui}

Mutexes == {"socket", "flow", "lead", "sub", "cache"}

VARIABLES
  todo,     \* [Threads -> the steps that are left of the task]
  task,     \* [Threads -> the name of the task]
  held      \* [Threads -> locks held, <<mutex, mode>>]

vars == <<todo, task, held>>

Locks == Mutexes \X {"unique", "shared"}

-----------------------------------------------------------------------------
(***************************************************************************)
(* Tasks                                                                   *)
(***************************************************************************)
Unique(S) == [op |-> "lock", locks |-> S \X {"unique"}]
Shared(m) == [op |-> "lock", locks |-> {<<m, "shared">>}]
Unlock(S) == [op |-> "unlock", locks |-> S \X {"unique", "shared"}]

\* A short critical section.
Touch(m) == <<Unique({m}), Unlock({m})>>

\* A critical section of n inside one of m.
Inside(m, n) == <<Unique({m})>> \o Touch(n) \o <<Unlock({m})>>

\* Fault: the flow is locked before the table it is looked up in.
GetFlowSwapped == Inside("lead", "flow")

\* getFlowEgress(): the token is written to the flow.
GetFlowEgress == Inside("flow", "lead")

FindFlow == Touch("flow")

\* getSocket(): the socket is found.
GetSocket == <<Shared("socket"), Unlock({"socket"})>>

\* getSocket(): the shared lock is released before openSocket() is called.
OpenSocket == GetSocket \o Touch("socket")

\* getAllPaths() and selectPathMulti() with the lead flow locked.
SelectPathMulti == <<Unique({"lead"})>> \o Touch("sub") \o Touch("cache") \o <<Unlock({"lead"})>>

\* translateIPtoScion(): the SYN of a new subflow.
EgressSyn ==
  GetFlowEgress \o Touch("lead") \o Touch("sub") \o FindFlow \o SelectPathMulti
    \o Touch("sub") \o OpenSocket \o Touch("sub")

\* translateIPtoScion(): a packet of an existing subflow.
EgressData == GetFlowEgress \o Touch("lead") \o Touch("sub") \o Touch("sub") \o GetSocket \o Touch("sub")

\* translateScionToIP(): SCMP goes to the path cache, a token is learned.
IngressData == Touch("cache") \o FindFlow \o Touch("lead") \o Inside("flow", "lead") \o Touch("sub")

\* rejectMptcpSubflow() looks for the socket while it holds the flow.
IngressReject ==
  FindFlow \o Touch("lead") \o <<Unique({"lead"})>> \o OpenSocket \o <<Unlock({"lead"})>>

\* maintainFlowsAndSockets(): flows are advanced, paths prefetched, flows closed.
MaintainFlows ==
  <<Unique({"socket", "flow"})>> \o Inside("lead", "sub") \o Touch("lead") \o Touch("cache")
    \o Inside("lead", "sub") \o <<Unlock({"socket", "flow"})>>

ExportFlows ==
  <<Unique({"socket", "flow"})>> \o Inside("lead", "sub") \o <<Unlock({"socket", "flow"})>>

OverrideFlowPath == Inside("flow", "lead")

\* stop() closes the sockets.
Stop == Touch("socket")

Tasks(t) ==
  CASE t \in Egress -> {<<"syn", EgressSyn>>, <<"data", EgressData>>}
    [] t \in Ingress -> {<<"data", IngressData>>}
                          \cup (IF Rejects THEN {<<"reject", IngressReject>>} ELSE {})
    [] t = Timer -> {<<"maintain", MaintainFlows>>}
    [] t = Ui -> {<<"export", ExportFlows>>, <<"override", OverrideFlowPath>>, <<"stop", Stop>>}

-----------------------------------------------------------------------------
TypeOK ==
  /\ todo \in [Threads -> Seq([op: {"lock", "unlock"}, locks: SUBSET Locks])]
  /\ task \in [Threads -> {"none"} \cup {k[1] : k \in UNION {Tasks(t) : t \in Threads}}]
  /\ held \in [Threads -> SUBSET Locks]
  /\ \A t \in Threads : todo[t] = << >> => held[t] = {}

Init ==
  /\ todo = [t \in Threads |-> << >>]
  /\ task = [t \in Threads |-> "none"]
  /\ held = [t \in Threads |-> {}]

Begin(t, k) ==
  /\ todo[t] = << >>
  /\ todo' = [todo EXCEPT ![t] = k[2]]
  /\ task' = [task EXCEPT ![t] = k[1]]
  /\ UNCHANGED held

\* A mutex excludes everybody, the owner too; a shared lock excludes unique ones.
Conflict(a, b) == a[1] = b[1] /\ "unique" \in {a[2], b[2]}

\* Threads that t waits for.
WaitsFor(t) ==
  IF todo[t] = << >> \/ Head(todo[t]).op = "unlock" THEN {}
  ELSE {u \in Threads : \E a \in Head(todo[t]).locks, b \in held[u] : Conflict(a, b)}

\* std::scoped_lock takes all mutexes or none; waiting, it holds none.
Step(t) ==
  /\ todo[t] # << >>
  /\ WaitsFor(t) = {}
  /\ todo' = [todo EXCEPT ![t] = Tail(@)]
  /\ held' = [held EXCEPT ![t] = IF Head(todo[t]).op = "lock" THEN @ \cup Head(todo[t]).locks
                                 ELSE @ \ Head(todo[t]).locks]
  /\ UNCHANGED task

Next == \E t \in Threads : Step(t) \/ \E k \in Tasks(t) : Begin(t, k)

(***************************************************************************)
(* A thread that runs goes on; one that waits for a mutex that is released *)
(* again and again gets it eventually.                                     *)
(***************************************************************************)
Spec == Init /\ [][Next]_vars /\ \A t \in Threads : SF_vars(Step(t))
-----------------------------------------------------------------------------
(***************************************************************************)
(* Properties                                                              *)
(***************************************************************************)

(***************************************************************************)
(* No circle of threads wait for each other's mutexes: the orders in which *)
(* egress threads, workers, maintenance and the user interface take them   *)
(* are compatible.                                                         *)
(***************************************************************************)
NoDeadlock ==
  \A S \in SUBSET Threads : S # {} => \E t \in S : WaitsFor(t) \cap S = {}

(***************************************************************************)
(* The translation of a packet comes to an end in either direction, even   *)
(* if maintenance and the user interface are always busy.  (Maintenance    *)
(* needs two mutexes at once and may starve in theory.)                    *)
(***************************************************************************)
PacketsProcessed ==
  \A t \in Egress \cup Ingress : todo[t] # << >> ~> todo[t] = << >>

(***************************************************************************)
(* scion-mptcp.md, more subflows than surrogate addresses: "In case (2), a *)
(* RST is send back to the remote host."  A worker that rejects a subflow  *)
(* finishes doing so.                                                      *)
(***************************************************************************)
SubflowRejected ==
  \A t \in Ingress : task[t] = "reject" ~> todo[t] = << >>
=============================================================================
