---------------------------- MODULE ScitraFlows ----------------------------
(***************************************************************************)
(* The flow table of Scitra-TUN (scitra/src/scitra-tun/scitra_tun.cpp and  *)
(* flow.hpp) and the threads that share it: one egress thread per queue of *)
(* the TUN device (translateIPtoScion), one ingress coroutine per socket   *)
(* (translateScionToIP), the maintenance timer (maintainFlowsAndSockets)   *)
(* and the terminal user interface.                                        *)
(*                                                                         *)
(* Every critical section (flowMutex or the mutex of a flow) is one action *)
(* and the threads interleave between them; maintenance and the user       *)
(* interface hold flowMutex over several actions.                          *)
(*                                                                         *)
(* All flows are TCP connections with one remote endpoint, so that the     *)
(* local port of the SCION side identifies a flow.  The path cache is      *)
(* abstracted: at any time a path may have to be replaced, any path may be *)
(* available.  An MPTCP connection has one token.                          *)
(***************************************************************************)
EXTENDS Flow, SequencesExt

CONSTANTS
  TunIP,        \* tunIP
  ExtraIPs,     \* extraIPs, a sequence
  Ports,        \* local TCP ports
  LocalEps,     \* endpoints the local host sends from
  Paths,        \* SCION paths, told apart by their hops
  NoPath,       \* null pointer
  None,         \* no flow, nobody
  Queues,       \* egress threads
  Ui,           \* the thread of the user interface
  Maint,        \* the thread that runs the maintenance timer
  EgressPkts,   \* packets of local applications
  IngressPkts,  \* packets of the remote host
  MaxFlows,     \* bound on Flow objects
  MaxPackets,   \* bound on packets and actions of the user
  Reaping       \* TRUE if maintenance may find a socket without a user

IPs == {TunIP} \cup ToSet(ExtraIPs)
Objs == 1 .. MaxFlows
EndPoints == IPs \X Ports

\* A packet and whether an MP_CAPABLE option carries the receiver's key.
PacketType == [tcp: BOOLEAN, flags: SUBSET {"SYN", "ACK", "FIN", "RST"},
               opts: SUBSET {"capable", "join", "signal"}, key: BOOLEAN]

ASSUME ScitraFlowsAssumption ==
  /\ NoPath \notin Paths
  /\ None \notin Objs \cup Queues \cup Ports \cup {Ui, Maint}
  /\ Ui # Maint
  /\ {MaxFlows, MaxPackets} \subseteq Nat
  /\ EgressPkts \cup IngressPkts \subseteq PacketType
  /\ Reaping \in BOOLEAN
  /\ ExtraIPs # << >>
  /\ LocalEps \subseteq EndPoints
  /\ \A i \in DOMAIN ExtraIPs : ExtraIPs[i] # TunIP

VARIABLES
  flows,        \* flows: [Ports -> Objs or None]
  obj,          \* the Flow objects
  tokenMap,     \* mpTokenMap for the one token: Objs or None
  portRemap,    \* mpPortRemap: [EndPoints -> Ports or None]
  flowMutex,    \* holder of flowMutex, if it is held between actions
  egress,       \* [Queues -> state of the egress thread]
  ingress,      \* [Ports -> state of the ingress coroutine]
  maint,        \* progress of maintenance
  ui,           \* the flow that overrideFlowPath() is about to change
  packets       \* packets and actions of the user so far

table == <<flows, obj, tokenMap, portRemap>>
vars == <<flows, obj, tokenMap, portRemap, flowMutex, egress, ingress, maint, ui, packets>>

Flow == [ip: IPs, port: Ports, type: {"Active", "Passive"}, multipath: BOOLEAN,
         state: FlowStates, path: Paths \cup {NoPath}, token: BOOLEAN,
         unused: BOOLEAN, subflows: Seq(Objs)]

Ready == [pc |-> "ready"]

\* Ports whose flow is still to be visited and the one being visited.
Rest == [pc |-> "ready", todo |-> {}, port |-> None]

Egress == {Ready} \cup
  [pc: {"sub", "path", "select", "lead", "multi", "set", "send"}, pkt: EgressPkts,
   ep: EndPoints, sport: Ports, flow: Objs, lead: Objs \cup {None}, path: Paths \cup {NoPath}]

Ingress == {Ready} \cup
  [pc: {"bypath", "create", "token", "update"}, pkt: IngressPkts, path: Paths,
   flow: Objs \cup {None}]

TypeOK ==
  /\ flows \in [Ports -> Objs \cup {None}]
  /\ \A q \in Ports : flows[q] # None => obj[flows[q]] \in Flow
  /\ DOMAIN obj = Objs
  /\ tokenMap \in Objs \cup {None}
  /\ portRemap \in [EndPoints -> Ports \cup {None}]
  /\ flowMutex \in {None, Ui, Maint}
  /\ egress \in [Queues -> Egress]
  /\ ingress \in [Ports -> Ingress]
  /\ maint \in [pc: {"ready", "subflows", "lead"}, todo: SUBSET Ports, port: Ports \cup {None}]
  /\ ui \in Objs \cup {None}
  /\ packets \in 0 .. MaxPackets

Init ==
  /\ flows = [q \in Ports |-> None]
  /\ obj = [o \in Objs |-> None]
  /\ tokenMap = None
  /\ portRemap = [e \in EndPoints |-> None]
  /\ flowMutex = None
  /\ egress = [t \in Queues |-> Ready]
  /\ ingress = [q \in Ports |-> Ready]
  /\ maint = Rest
  /\ ui = None
  /\ packets = 0

AllReady ==
  /\ \A t \in Queues : egress[t] = Ready
  /\ \A q \in Ports : ingress[q] = Ready
  /\ flowMutex = None

-----------------------------------------------------------------------------
(***************************************************************************)
(* Flow objects                                                            *)
(***************************************************************************)
\* A flow that has just been created has not been used since the clock's epoch.
NewFlow(ep, type, multipath, token) ==
  [ip |-> ep[1], port |-> ep[2], type |-> type, multipath |-> multipath,
   state |-> "OPEN", path |-> NoPath, token |-> token, unused |-> TRUE, subflows |-> << >>]

\* A packet of the flow leaves or arrives: updateStateEgress(), updateStateIngress().
Sent(f, p) ==
  [f EXCEPT !.state = StateEgress(@, p), !.unused = FALSE,
            !.multipath = @ \/ MultipathEgress(f.state, p)]

Received(f, p) ==
  [f EXCEPT !.state = StateIngress(@, p), !.unused = FALSE,
            !.multipath = @ \/ MultipathIngress(f.state, p)]

Reset == [tcp |-> TRUE, flags |-> {"RST", "ACK"}, opts |-> {}]

\* rejectMptcpSubflow(): f is the lead flow; it sees the SYN and the reply to it.
Rejected(f, p) == Sent(Received(f, p), Reset)

Subflows(o) == ToSet(obj[o].subflows)

EndPoint(o) == <<obj[o].ip, obj[o].port>>

\* The lead flow o or the first of its subflows that is in S.
FirstOf(o, S) ==
  IF o \in S THEN o
  ELSE obj[o].subflows[SelectInSeq(obj[o].subflows, LAMBDA s : s \in S)]

\* Objects that some shared_ptr refers to.
Referenced ==
  LET direct == (ToSet(<<tokenMap, ui>>) \cup {flows[q] : q \in Ports}
                  \cup {egress[t].flow : t \in {u \in Queues : egress[u] # Ready}}
                  \cup {egress[t].lead : t \in {u \in Queues : egress[u] # Ready}}
                  \cup {ingress[q].flow : q \in {u \in Ports : ingress[u] # Ready}}) \ {None}
      below(S) == S \cup UNION {Subflows(o) : o \in S}
  IN below(below(direct))

\* The object that the next make_shared<Flow>() returns.
Unreferenced(o) == o \notin Referenced /\ \A p \in Objs : p < o => p \in Referenced

-----------------------------------------------------------------------------
(***************************************************************************)
(* Egress: translateIPtoScion()                                            *)
(***************************************************************************)

\* A SYN that opens an additional subflow of an MPTCP connection.
IsSubflowSyn(p) == "join" \in p.opts /\ p.flags = {"SYN"}

LearnsToken(p) == "capable" \in p.opts /\ p.key

\* The source port on the SCION side.
SourcePort(p, ep) ==
  IF IsSubflowSyn(p)
  THEN (IF tokenMap # None THEN obj[tokenMap].port ELSE ep[2])
  ELSE IF ep[1] # TunIP /\ portRemap[ep] # None THEN portRemap[ep] ELSE ep[2]

\* A packet is read and getFlowEgress() finds or creates its flow.
EgressFlow(t, p, ep) ==
  LET sport == SourcePort(p, ep)
      known == IF IsSubflowSyn(p) /\ tokenMap # None THEN tokenMap ELSE flows[sport]
      learn == IsSubflowSyn(p) \/ LearnsToken(p)
  IN /\ egress[t] = Ready
     /\ flowMutex = None
     /\ packets < MaxPackets
     /\ packets' = packets + 1
     /\ \E o \in Objs :
          /\ IF known # None THEN o = known ELSE Unreferenced(o)
          /\ LET f == IF known # None THEN obj[o] ELSE NewFlow(ep, "Active", FALSE, FALSE)
             IN obj' = [obj EXCEPT ![o] = [f EXCEPT !.token = @ \/ learn]]
          /\ flows' = IF known # None THEN flows ELSE [flows EXCEPT ![sport] = o]
          /\ tokenMap' = IF learn THEN o ELSE tokenMap
          /\ egress' = [egress EXCEPT ![t] =
               [pc |-> "sub", pkt |-> p, ep |-> ep, sport |-> sport, flow |-> o,
                lead |-> None, path |-> NoPath]]
     /\ portRemap' = IF IsSubflowSyn(p) /\ tokenMap # None
                     THEN [portRemap EXCEPT ![ep] = sport] ELSE portRemap
     /\ UNCHANGED <<flowMutex, ingress, maint, ui>>

Goto(t, pc) == egress' = [egress EXCEPT ![t].pc = pc]
Done(t) == egress' = [egress EXCEPT ![t] = Ready]
KeepsShared == UNCHANGED <<flows, tokenMap, portRemap, flowMutex, ingress, maint, ui, packets>>

\* getSubflowByAddr(): the lead flow or one of its subflows, found or created.
EgressSubflow(t) ==
  LET o     == egress[t].flow
      ep    == egress[t].ep
      match == {s \in {o} \cup Subflows(o) : EndPoint(s) = ep}
  IN /\ egress[t].pc = "sub"
     /\ \/ /\ ~obj[o].multipath
           /\ Goto(t, "path")
           /\ UNCHANGED obj
        \/ /\ obj[o].multipath
           /\ match # {}
           /\ egress' = [egress EXCEPT ![t].pc = "path",
                                       ![t].flow = FirstOf(o, match)]
           /\ UNCHANGED obj
        \/ /\ obj[o].multipath
           /\ match = {}
           /\ \E s \in Objs :
                /\ Unreferenced(s)
                /\ obj' = [obj EXCEPT ![s] = NewFlow(ep, "Active", TRUE, obj[o].token),
                                      ![o].subflows = Append(@, s)]
                /\ egress' = [egress EXCEPT ![t].pc = "path", ![t].flow = s]
     /\ KeepsShared

EgressGetPath(t) ==
  /\ egress[t].pc = "path"
  /\ egress' = [egress EXCEPT ![t].pc = "select", ![t].path = obj[egress[t].flow].path]
  /\ UNCHANGED obj
  /\ KeepsShared

\* Fault: a subflow whose path is broken selects another one.
EgressSelectAgain(t) ==
  LET e     == egress[t]
      multi == e.path = NoPath /\ (obj[e.flow].multipath \/ "join" \in e.pkt.opts)
  IN /\ e.pc = "select"
     /\ \/ e.path # NoPath /\ Goto(t, "set")
        \/ e.path = NoPath /\ multi /\ Goto(t, "lead")
        \/ /\ ~multi
           /\ \/ Done(t)
              \/ \E p \in Paths : egress' = [egress EXCEPT ![t].pc = "set", ![t].path = p]
     /\ UNCHANGED obj
     /\ KeepsShared

(***************************************************************************)
(* The path is kept, refreshed or replaced.  A packet is dropped if no     *)
(* path is available yet or a subflow's path cannot be refreshed.          *)
(***************************************************************************)
EgressSelect(t) ==
  LET e     == egress[t]
      multi == obj[e.flow].multipath \/ "join" \in e.pkt.opts
  IN /\ e.pc = "select"
     /\ \/ e.path # NoPath /\ Goto(t, "set")
        \/ e.path = NoPath /\ multi /\ Goto(t, "lead")
        \/ e.path # NoPath /\ multi /\ Done(t)
        \/ /\ ~multi
           /\ \/ Done(t)
              \/ \E p \in Paths : egress' = [egress EXCEPT ![t].pc = "set", ![t].path = p]
     /\ UNCHANGED obj
     /\ KeepsShared

\* findFlow() looks for the lead flow of a new subflow.
EgressFindLead(t) ==
  /\ egress[t].pc = "lead"
  /\ flowMutex = None
  /\ IF flows[egress[t].sport] = None THEN Done(t)
     ELSE egress' = [egress EXCEPT ![t].pc = "multi", ![t].lead = flows[egress[t].sport]]
  /\ UNCHANGED obj
  /\ KeepsShared

\* getAllPaths()
PathsOf(o) == {obj[s].path : s \in {o} \cup Subflows(o)} \ {NoPath}

\* selectPathMulti(): a path no other subflow uses.  If there is none, or the policy
\* allows none, getPath() fails and the SYN is answered with an ICMP error; the flow is
\* not told.
EgressSelectMulti(t) ==
  /\ egress[t].pc = "multi"
  /\ \/ \E p \in Paths \ PathsOf(egress[t].lead) :
          egress' = [egress EXCEPT ![t].pc = "set", ![t].path = p]
     \/ Done(t)
  /\ UNCHANGED obj
  /\ KeepsShared

EgressSetPath(t) ==
  /\ egress[t].pc = "set"
  /\ obj' = [obj EXCEPT ![egress[t].flow].path = egress[t].path]
  /\ Goto(t, "send")
  /\ KeepsShared

\* The flow's state is updated unless the socket cannot be opened.
EgressSend(t) ==
  /\ egress[t].pc = "send"
  /\ \/ obj' = [obj EXCEPT ![egress[t].flow] = Sent(@, egress[t].pkt)]
     \/ UNCHANGED obj
  /\ Done(t)
  /\ KeepsShared

EgressStep(t) ==
  \/ EgressSubflow(t) \/ EgressGetPath(t) \/ EgressSelect(t) \/ EgressFindLead(t)
  \/ EgressSelectMulti(t) \/ EgressSetPath(t) \/ EgressSend(t)

-----------------------------------------------------------------------------
(***************************************************************************)
(* Ingress: translateScionToIP().  The packet has passed the checks of its *)
(* ports and addresses; path is its reversed path.                         *)
(***************************************************************************)
AfterLookup(p) == IF LearnsToken(p) THEN "token" ELSE "update"

\* A packet arrives at the socket of port q and findFlow() looks for its flow.
IngressFind(q, p, path) ==
  LET o == flows[q]
  IN /\ ingress[q] = Ready
     /\ flowMutex = None
     /\ packets < MaxPackets
     /\ packets' = packets + 1
     /\ ingress' = [ingress EXCEPT ![q] =
          [pc   |-> IF o = None THEN "create"
                    ELSE IF obj[o].multipath THEN "bypath" ELSE AfterLookup(p),
           pkt  |-> p, path |-> path, flow |-> o]]
     /\ UNCHANGED <<flows, obj, tokenMap, portRemap, flowMutex, egress, maint, ui>>

KeepsTable == UNCHANGED <<flows, tokenMap, portRemap, flowMutex, egress, maint, ui, packets>>

Continue(q, pc, o) == ingress' = [ingress EXCEPT ![q].pc = pc, ![q].flow = o]
Finish(q) == ingress' = [ingress EXCEPT ![q] = Ready]

\* Fault: addresses in use are offered again.
AllIPs(o) == DOMAIN ExtraIPs

\* Positions of the addresses that no subflow of o is bound to.
FreeIPs(o) ==
  {i \in DOMAIN ExtraIPs : \A s \in Subflows(o) : obj[s].ip # ExtraIPs[i]}

(***************************************************************************)
(* getSubflowByPath(): the lead flow or one of its subflows, found or      *)
(* created; afterwards translateIngress() may drop the packet.  A lead     *)
(* flow without a path is a null pointer that is dereferenced: the process *)
(* ends there.                                                             *)
(***************************************************************************)
IngressByPath(q) ==
  LET i     == ingress[q]
      o     == i.flow
      match == {s \in {o} \cup Subflows(o) : obj[s].path = i.path}
      free  == FreeIPs(o)
  IN /\ i.pc = "bypath"
     /\ obj[o].path # NoPath
     /\ \/ /\ match # {}
           /\ Continue(q, AfterLookup(i.pkt), FirstOf(o, match)) \/ Finish(q)
           /\ UNCHANGED obj
        \/ /\ match = {}
           /\ \E k \in free, s \in Objs :
                /\ \A j \in free : k <= j
                /\ Unreferenced(s)
                /\ obj' = [obj EXCEPT
                     ![s] = NewFlow(<<ExtraIPs[k], obj[o].port>>, "Passive", TRUE, obj[o].token),
                     ![o].subflows = Append(@, s)]
                /\ Continue(q, AfterLookup(i.pkt), s) \/ Finish(q)
        \/ /\ match = {}
           /\ free = {}
           /\ obj' = IF "SYN" \in i.pkt.flags THEN [obj EXCEPT ![o] = Rejected(@, i.pkt)] ELSE obj
           /\ Finish(q)
     /\ KeepsTable

\* getFlowIngress(), unless translateIngress() drops the packet.
IngressCreate(q) ==
  LET i == ingress[q]
  IN /\ i.pc = "create"
     /\ flowMutex = None
     /\ \/ /\ Finish(q)
           /\ UNCHANGED <<flows, obj>>
        \/ /\ flows[q] # None
           /\ Continue(q, AfterLookup(i.pkt), flows[q])
           /\ UNCHANGED <<flows, obj>>
        \/ /\ flows[q] = None
           /\ \E o \in Objs :
                /\ Unreferenced(o)
                /\ flows' = [flows EXCEPT ![q] = o]
                /\ obj' = [obj EXCEPT ![o] = NewFlow(<<TunIP, q>>, "Passive", FALSE, FALSE)]
                /\ Continue(q, AfterLookup(i.pkt), o)
     /\ UNCHANGED <<tokenMap, portRemap, flowMutex, egress, maint, ui, packets>>

\* The token of the connection is learned.
IngressToken(q) ==
  /\ ingress[q].pc = "token"
  /\ flowMutex = None
  /\ tokenMap' = ingress[q].flow
  /\ obj' = [obj EXCEPT ![ingress[q].flow].token = TRUE]
  /\ Continue(q, "update", ingress[q].flow)
  /\ UNCHANGED <<flows, portRemap, flowMutex, egress, maint, ui, packets>>

\* updatePassivePath(): a multipath flow keeps the path it has.
PassivePath(f, path) ==
  IF f.type = "Passive" /\ (~f.multipath \/ f.path = NoPath) THEN path ELSE f.path

IngressUpdate(q) ==
  LET i == ingress[q]
      f == obj[i.flow]
      g == Received(f, i.pkt)
  IN /\ i.pc = "update"
     /\ obj' = [obj EXCEPT ![i.flow] = [g EXCEPT !.path = PassivePath(g, i.path)]]
     /\ Finish(q)
     /\ KeepsTable

IngressStep(q) ==
  IngressByPath(q) \/ IngressCreate(q) \/ IngressToken(q) \/ IngressUpdate(q)

-----------------------------------------------------------------------------
(***************************************************************************)
(* Maintenance: maintainFlowsAndSockets()                                  *)
(***************************************************************************)
Ticked(f) ==
  [f EXCEPT !.state = StateTick(@, f.multipath, f.unused, f.subflows = << >>)]

MaintBegin ==
  /\ maint = Rest
  /\ flowMutex = None
  /\ flowMutex' = Maint
  /\ maint' = [maint EXCEPT !.pc = "subflows", !.todo = {q \in Ports : flows[q] # None}]
  /\ UNCHANGED <<flows, obj, tokenMap, portRemap, egress, ingress, ui, packets>>

\* What is left of list l without the members of S, in order.
Without(l, S) ==
  LET kept   == {i \in DOMAIN l : l[i] \notin S}
      Nth(k) == CHOOSE i \in kept : Cardinality({j \in kept : j <= i}) = k
  IN [k \in 1 .. Cardinality(kept) |-> l[Nth(k)]]

\* removeSubflows(): subflows that were CLOSED before are removed, others advance.
MaintSubflows(q) ==
  LET o      == flows[q]
      closed == {s \in Subflows(o) : obj[s].state = "CLOSED"}
      gone   == {EndPoint(s) : s \in closed}
  IN /\ maint.pc = "subflows"
     /\ q \in maint.todo
     /\ maint' = [pc |-> "lead", todo |-> maint.todo \ {q}, port |-> q]
     /\ IF obj[o].multipath
        THEN /\ obj' = [s \in Objs |->
                  IF s \in Subflows(o) THEN Ticked(obj[s])
                  ELSE IF s = o
                    THEN [obj[o] EXCEPT !.subflows = Without(@, closed)]
                    ELSE obj[s]]
             /\ portRemap' = [e \in EndPoints |-> IF e \in gone THEN None ELSE portRemap[e]]
        ELSE UNCHANGED <<obj, portRemap>>
     /\ UNCHANGED <<flows, tokenMap, flowMutex, egress, ingress, ui, packets>>

\* A lead flow that was CLOSED before is removed, any other one advances.
MaintLead ==
  LET q == maint.port
      o == flows[q]
  IN /\ maint.pc = "lead"
     /\ maint' = [maint EXCEPT !.pc = "subflows", !.port = None]
     /\ \/ /\ obj[o].state = "CLOSED"
           /\ flows' = [flows EXCEPT ![q] = None]
           /\ tokenMap' = IF obj[o].token THEN None ELSE tokenMap
        \/ /\ obj[o].state # "CLOSED"
           /\ UNCHANGED <<flows, tokenMap>>
     /\ obj' = [obj EXCEPT ![o] = Ticked(@)]
     /\ UNCHANGED <<portRemap, flowMutex, egress, ingress, ui, packets>>

(***************************************************************************)
(* The sockets of the ports in R have no user any more: their flows are    *)
(* closed.                                                                 *)
(***************************************************************************)
MaintEnd(R) ==
  LET lead   == {flows[q] : q \in R} \ {None}
      closed == lead \cup UNION {Subflows(o) : o \in {p \in lead : obj[p].multipath}}
  IN /\ maint.pc = "subflows"
     /\ maint.todo = {}
     /\ maint' = Rest
     /\ flowMutex' = None
     /\ obj' = [o \in Objs |-> IF o \in closed THEN [obj[o] EXCEPT !.state = "CLOSED"] ELSE obj[o]]
     /\ UNCHANGED <<flows, tokenMap, portRemap, egress, ingress, ui, packets>>

Maintenance ==
  \/ \E q \in Ports : MaintSubflows(q)
  \/ MaintLead
  \/ \E R \in (IF Reaping THEN SUBSET Ports ELSE {{}}) : MaintEnd(R)

\* No packet passes for FLOW_TIMEOUT.
GrowOld ==
  /\ AllReady
  /\ \E o \in Referenced : ~obj[o].unused
  /\ obj' = [o \in Objs |-> IF o \in Referenced THEN [obj[o] EXCEPT !.unused = TRUE] ELSE obj[o]]
  /\ UNCHANGED <<flows, tokenMap, portRemap, flowMutex, egress, ingress, maint, ui, packets>>

-----------------------------------------------------------------------------
(***************************************************************************)
(* The user interface                                                      *)
(***************************************************************************)

\* overrideFlowPath() holds flowMutex, but locks the flow only after the test.
UiCheck(q) ==
  LET o == flows[q]
  IN /\ flowMutex = None
     /\ packets < MaxPackets
     /\ packets' = packets + 1
     /\ o # None
     /\ obj[o].type = "Active"
     /\ ~obj[o].multipath
     /\ ui' = o
     /\ flowMutex' = Ui
     /\ UNCHANGED <<flows, obj, tokenMap, portRemap, egress, ingress, maint>>

UiSetPath(p) ==
  /\ ui # None
  /\ obj' = [obj EXCEPT ![ui].path = p]
  /\ ui' = None
  /\ flowMutex' = None
  /\ UNCHANGED <<flows, tokenMap, portRemap, egress, ingress, maint, packets>>

\* removeFlow()
UiRemove(q) ==
  /\ flowMutex = None
  /\ packets < MaxPackets
  /\ packets' = packets + 1
  /\ flows[q] # None
  /\ flows' = [flows EXCEPT ![q] = None]
  /\ UNCHANGED <<obj, tokenMap, portRemap, flowMutex, egress, ingress, maint, ui>>

Start ==
  \/ \E t \in Queues, p \in EgressPkts, ep \in LocalEps : EgressFlow(t, p, ep)
  \/ \E q \in Ports, p \in IngressPkts, path \in Paths : IngressFind(q, p, path)
  \/ MaintBegin
  \/ \E q \in Ports : UiCheck(q) \/ UiRemove(q)
  \/ GrowOld

Next ==
  \/ Start
  \/ \E t \in Queues : EgressStep(t)
  \/ \E q \in Ports : IngressStep(q)
  \/ Maintenance
  \/ \E p \in Paths : UiSetPath(p)

Spec == Init /\ [][Next]_vars

(***************************************************************************)
(* Threads that work on a packet, a change of the user or a run of         *)
(* maintenance go on, time passes, and tick() starts maintenance again and *)
(* again.  It waits for flowMutex, which nobody keeps for long.  GrowOld   *)
(* is enabled only between runs of maintenance, but time passes anyway:    *)
(* strong fairness.                                                        *)
(***************************************************************************)
Fairness ==
  /\ \A t \in Queues : WF_vars(EgressStep(t))
  /\ \A q \in Ports : WF_vars(IngressStep(q))
  /\ WF_vars(Maintenance)
  /\ WF_vars(\E p \in Paths : UiSetPath(p))
  /\ WF_vars(MaintBegin)
  /\ SF_vars(GrowOld)

FairSpec == Spec /\ Fairness
-----------------------------------------------------------------------------
(***************************************************************************)
(* Properties                                                              *)
(***************************************************************************)
Leads == {flows[q] : q \in Ports} \ {None}

Family(o) == {o} \cup Subflows(o)

(***************************************************************************)
(* flow.hpp, Create(): "Different subflows of the same multipath flow must *)
(* have different local IP endpoints."  Between the subflows of a lead     *)
(* flow this holds however getSubflowByAddr() and getSubflowByPath() are   *)
(* interleaved with each other and with the removal of subflows.           *)
(***************************************************************************)
SubflowsDistinct ==
  \A o \in Leads : \A i, j \in DOMAIN obj[o].subflows :
    i # j => EndPoint(obj[o].subflows[i]) # EndPoint(obj[o].subflows[j])

\* The path of multipath flow o is decided: no egress thread carries another one
\* that it chose before, and the user changes no flow that was not yet multipath.
Settled(o) ==
  /\ obj[o].multipath /\ obj[o].path # NoPath
  /\ ui # o
  /\ \A t \in Queues :
       egress[t].pc \in {"select", "lead", "multi", "set"} /\ egress[t].flow = o
         => egress[t].path = obj[o].path

(***************************************************************************)
(* scitra_tun.cpp, translateIPtoScion(): "MPTCP subflows can't reselect    *)
(* their paths".  Once the path of a multipath flow is decided it remains  *)
(* so, whatever packets of either direction, maintenance and the user do   *)
(* between the steps in which a path is read, replaced and stored: nobody  *)
(* brings another path into play.                                          *)
(***************************************************************************)
MultipathPathStable ==
  [][\A o \in Referenced :
       Settled(o) => obj'[o].path = obj[o].path /\ Settled(o)']_vars

(***************************************************************************)
(* Once packets cease and no flow is taken for an established connection,  *)
(* the flow table empties: a lead flow that waits for its subflows         *)
(* (CLOSED_WAIT) does not wait forever, nor does a subflow.                *)
(***************************************************************************)
TableDrains ==
  [](AllReady /\ packets = MaxPackets /\ (\A o \in Referenced : obj[o].state # "ESTABLISHED")
       => <>(Leads = {}))

-----------------------------------------------------------------------------
(***************************************************************************)
(* Statements of the headers and documents that the code does not keep     *)
(***************************************************************************)

(***************************************************************************)
(* scitra_tun.cpp, translateIPtoScion(): "Ensure that MPTCP subflows have  *)
(* unique paths."  The paths of the lead flow are read under its lock, but *)
(* the selected one is stored only later: two egress threads, or one and a *)
(* packet of the remote host, can give two subflows the same path.         *)
(***************************************************************************)
SubflowPathsUnique ==
  \A o \in Leads : \A r, s \in Family(o) :
    r # s /\ obj[r].path # NoPath => obj[r].path # obj[s].path

(***************************************************************************)
(* MultipathPathStable without Settled: the path an egress thread selected *)
(* or the user chose for a flow may arrive after the flow has become       *)
(* multipath.                                                              *)
(***************************************************************************)
MultipathPathNeverChanges ==
  [][\A o \in Referenced :
       obj[o].multipath /\ obj[o].path # NoPath => obj'[o].path = obj[o].path]_vars

(***************************************************************************)
(* scitra_tun.hpp, flows: "Indexed by flow ID."  A lead flow stands in the *)
(* flow table under its own local port.  translateIPtoScion() takes the    *)
(* source port of a packet from mpPortRemap, where removeFlow() leaves the *)
(* entries of the removed connection behind: a new flow may then stand     *)
(* under another flow's port.                                              *)
(***************************************************************************)
LeadKeepsPort == \A q \in Ports : flows[q] # None => obj[flows[q]].port = q

\* The sentence behind SubflowsDistinct, with the lead flow as one of the subflows.
FamilyDistinct ==
  \A o \in Leads : \A r, s \in Family(o) : r # s => EndPoint(r) # EndPoint(s)

(***************************************************************************)
(* flow.hpp, Flow: "The lead flow my be in a closed state while other      *)
(* subflows still exist. In this case the lead flow should must not be     *)
(* deleted yet."                                                           *)
(***************************************************************************)
LeadOutlivesSubflows ==
  [][\A q \in Ports :
       flows[q] # None /\ flows'[q] = None => obj[flows[q]].subflows = << >>]_vars

(***************************************************************************)
(* scion-mptcp.md: "Translation also works if Scitra does not observe all  *)
(* subflow handshakes".  Whenever findSubflowByPath() compares the path of *)
(* a packet with that of a multipath lead flow, the lead flow has a path   *)
(* (flow.hpp dereferences it without a test).                              *)
(***************************************************************************)
LeadHasPath ==
  \A q \in Ports : ingress[q].pc = "bypath" => obj[ingress[q].flow].path # NoPath

(***************************************************************************)
(* scitra_tun.hpp, overrideFlowPath(): "Has no effect on passive flows     *)
(* where the remote hosts selects the path, and on MPTCP flows."           *)
(***************************************************************************)
OverrideSparesMultipath ==
  [][\A p \in Paths : UiSetPath(p) => ~obj[ui].multipath]_vars

(***************************************************************************)
(* scitra_tun.hpp, mpTokenMap: "Mapping of MPTCP remote connection token   *)
(* to lead flow."  The flow a token leads to is in the flow table.         *)
(***************************************************************************)
TokenLeadsToFlow == tokenMap # None => tokenMap \in Leads
=============================================================================
