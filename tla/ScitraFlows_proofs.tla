------------------------- MODULE ScitraFlows_proofs -------------------------
(***************************************************************************)
(* Proofs about the flow table of Scitra-TUN: the subflows of a lead flow  *)
(* have different endpoints, whatever the threads do; if no two threads    *)
(* are at work at the same time, a multipath flow keeps its path and the   *)
(* paths of a connection's subflows differ.  The last part is about the    *)
(* state of a single flow (FlowTcp).                                       *)
(*                                                                         *)
(* The Flow objects form forests.  The inductive invariant gives every     *)
(* object that is referred to its level: lead flows are at level 0, their  *)
(* subflows at level 1.  The flow that a token leads to may be a subflow,  *)
(* which then gets subflows of its own, at level 2, but those never get    *)
(* any: they never stand in the flow table, where the packets of the       *)
(* remote host find their flow, nor do they learn a token.  Therefore      *)
(* Referenced, which follows the lists twice, leaves no object out, and a  *)
(* new Flow object is in no list.                                          *)
(***************************************************************************)
EXTENDS ScitraFlows, FlowTcp, FiniteSetTheorems, WellFoundedInduction, TLAPS

Levels == [Objs -> 0 .. 2]

(***************************************************************************)
(* The invariant.  R contains the objects that are referred to, lv are     *)
(* their levels.                                                           *)
(***************************************************************************)
EgressOK(e, R, lv) ==
  e # Ready => /\ e \in Egress
               /\ e.flow \in R
               /\ e.lead \in R \cup {None}
               /\ e.pc = "sub" => lv[e.flow] <= 1

IngressOK(i, R, lv) ==
  i # Ready => /\ i \in Ingress
               /\ i.pc = "create" => i.flow = None
               /\ i.pc # "create" => i.flow \in R
               /\ i.pc = "bypath" => lv[i.flow] = 0
               /\ i.pc = "token" => lv[i.flow] <= 1

TableRoles(R, lv) ==
  /\ flows \in [Ports -> R \cup {None}]
  /\ \A q \in Ports : flows[q] # None => lv[flows[q]] = 0
  /\ tokenMap \in R \cup {None}
  /\ tokenMap # None => lv[tokenMap] <= 1
  /\ ui \in R \cup {None}

EgressRoles(R, lv) ==
  egress \in [Queues -> Egress] /\ \A t \in Queues : EgressOK(egress[t], R, lv)

IngressRoles(R, lv) ==
  ingress \in [Ports -> Ingress] /\ \A q \in Ports : IngressOK(ingress[q], R, lv)

Roles(R, lv) == TableRoles(R, lv) /\ EgressRoles(R, lv) /\ IngressRoles(R, lv)

Distinct(o) ==
  \A i, j \in DOMAIN obj[o].subflows :
    i # j => EndPoint(obj[o].subflows[i]) # EndPoint(obj[o].subflows[j])

\* No flow is a subflow of two others.
OneParent(R) == \A o, p \in R : Subflows(o) \cap Subflows(p) # {} => o = p

Heap(R, lv) ==
  /\ \A o \in R : /\ obj[o] \in Flow
                  /\ \A s \in Subflows(o) : s \in R /\ lv[s] = lv[o] + 1
                  /\ Distinct(o)
  /\ OneParent(R)

\* Maintenance and the user interface hold flowMutex: the flows they visit stay in the table.
MutexInv ==
  /\ ui # None => flowMutex = Ui
  /\ maint.pc # "ready" => flowMutex = Maint /\ \A q \in maint.todo : flows[q] # None
  /\ maint.pc = "lead" => /\ maint.port \in Ports /\ maint.port \notin maint.todo
                          /\ flows[maint.port] # None

TypeInv ==
  /\ obj \in [Objs -> Flow \cup {None}]
  /\ portRemap \in [EndPoints -> Ports \cup {None}]
  /\ flowMutex \in {None, Ui, Maint}
  /\ maint \in [pc: {"ready", "subflows", "lead"}, todo: SUBSET Ports, port: Ports \cup {None}]
  /\ packets \in 0 .. MaxPackets

IInv ==
  /\ TypeInv
  /\ MutexInv
  /\ \E R \in SUBSET Objs, lv \in Levels : Roles(R, lv) /\ Heap(R, lv)

-----------------------------------------------------------------------------
(***************************************************************************)
(* Flow objects                                                            *)
(***************************************************************************)

\* g is a flow with the endpoint and the subflows of f.
Alike(f, g) == g \in Flow /\ g.ip = f.ip /\ g.port = f.port /\ g.subflows = f.subflows

LEMMA States ==
  ASSUME NEW s \in FlowStates, NEW p
  PROVE  /\ StateEgress(s, p) \in FlowStates
         /\ StateIngress(s, p) \in FlowStates
         /\ \A m, e, a \in BOOLEAN : StateTick(s, m, e, a) \in FlowStates
BY DEF StateEgress, StateIngress, GuessState, StateTick, Advance, FlowStates, TearDown

LEMMA FlowFields ==
  ASSUME NEW f \in Flow
  PROVE  /\ f.ip \in IPs /\ f.port \in Ports /\ f.state \in FlowStates
         /\ f.path \in Paths \cup {NoPath} /\ f.subflows \in Seq(Objs)
         /\ f.multipath \in BOOLEAN /\ f.token \in BOOLEAN /\ f.unused \in BOOLEAN
BY DEF Flow

LEMMA AlikeState ==
  ASSUME NEW f \in Flow, NEW s \in FlowStates
  PROVE  Alike(f, [f EXCEPT !.state = s])
BY DEF Alike, Flow

LEMMA AlikePath ==
  ASSUME NEW f \in Flow, NEW p \in Paths \cup {NoPath}
  PROVE  Alike(f, [f EXCEPT !.path = p])
BY DEF Alike, Flow

LEMMA AlikeToken ==
  ASSUME NEW f \in Flow, NEW b \in BOOLEAN
  PROVE  Alike(f, [f EXCEPT !.token = b])
BY DEF Alike, Flow

LEMMA AlikeUnused ==
  ASSUME NEW f \in Flow, NEW b \in BOOLEAN
  PROVE  Alike(f, [f EXCEPT !.unused = b])
BY DEF Alike, Flow

LEMMA AlikeUsed ==
  ASSUME NEW f \in Flow, NEW s \in FlowStates, NEW m \in BOOLEAN
  PROVE  Alike(f, [f EXCEPT !.state = s, !.unused = FALSE, !.multipath = m])
BY DEF Alike, Flow

LEMMA AlikeSent ==
  ASSUME NEW f \in Flow, NEW p
  PROVE  Alike(f, Sent(f, p)) /\ Alike(f, Received(f, p))
<1>1. StateEgress(f.state, p) \in FlowStates /\ StateIngress(f.state, p) \in FlowStates
  BY States, FlowFields
<1>2. /\ (f.multipath \/ MultipathEgress(f.state, p)) \in BOOLEAN
      /\ (f.multipath \/ MultipathIngress(f.state, p)) \in BOOLEAN
  BY Zenon, FlowFields DEF MultipathEgress, MultipathIngress, ShowsMultipath
<1>3. Alike(f, Sent(f, p))
  BY <1>1, <1>2, AlikeUsed DEF Sent
<1>4. Alike(f, Received(f, p))
  BY <1>1, <1>2, AlikeUsed DEF Received
<1> QED
  BY <1>3, <1>4

LEMMA AlikeTwice ==
  ASSUME NEW f, NEW g, NEW h, Alike(f, g), Alike(g, h)
  PROVE  Alike(f, h)
BY DEF Alike

LEMMA AlikeRejected ==
  ASSUME NEW f \in Flow, NEW p
  PROVE  Alike(f, Rejected(f, p))
<1>1. PICK g : g = Received(f, p)
  OBVIOUS
<1>2. Alike(f, g)
  BY <1>1, AlikeSent
<1>3. Alike(g, Sent(g, Reset))
  BY <1>2, AlikeSent DEF Alike
<1> QED
  BY <1>1, <1>2, <1>3, AlikeTwice DEF Rejected

LEMMA AlikeTicked ==
  ASSUME NEW f \in Flow
  PROVE  Alike(f, Ticked(f))
<1>1. (f.subflows = << >>) \in BOOLEAN
  OBVIOUS
<1>2. PICK s \in FlowStates : s = StateTick(f.state, f.multipath, f.unused, f.subflows = << >>)
  BY <1>1, FlowFields, States, Zenon
<1> QED
  BY <1>2, AlikeState DEF Ticked

LEMMA NewFlowType ==
  ASSUME NEW ep \in EndPoints, NEW type \in {"Active", "Passive"},
         NEW m \in BOOLEAN, NEW b \in BOOLEAN
  PROVE  /\ NewFlow(ep, type, m, b) \in Flow
         /\ NewFlow(ep, type, m, b).subflows = << >>
         /\ NewFlow(ep, type, m, b).ip = ep[1]
         /\ NewFlow(ep, type, m, b).port = ep[2]
BY DEF NewFlow, Flow, EndPoints, FlowStates

-----------------------------------------------------------------------------
(***************************************************************************)
(* The objects that are referred to                                        *)
(***************************************************************************)
LEMMA NoneIsNoObject == None \notin Objs /\ None \notin Ports /\ None # Ui /\ None # Maint
BY ScitraFlowsAssumption

LEMMA SubflowsDef ==
  ASSUME NEW o, obj[o] \in Flow
  PROVE  /\ Subflows(o) = {obj[o].subflows[i] : i \in DOMAIN obj[o].subflows}
         /\ DOMAIN obj[o].subflows = 1 .. Len(obj[o].subflows)
         /\ Len(obj[o].subflows) \in Nat
         /\ \A i \in DOMAIN obj[o].subflows : obj[o].subflows[i] \in Objs
BY FlowFields DEF Subflows, ToSet

(***************************************************************************)
(* Referenced is contained in every R, and is itself such an R.            *)
(***************************************************************************)
LEMMA Narrow ==
  ASSUME NEW R \in SUBSET Objs, NEW lv \in Levels, Roles(R, lv), Heap(R, lv)
  PROVE  /\ Referenced \in SUBSET Objs
         /\ Roles(Referenced, lv)
         /\ Heap(Referenced, lv)
<1> DEFINE Direct == (ToSet(<<tokenMap, ui>>) \cup {flows[q] : q \in Ports}
                  \cup {egress[t].flow : t \in {u \in Queues : egress[u] # Ready}}
                  \cup {egress[t].lead : t \in {u \in Queues : egress[u] # Ready}}
                  \cup {ingress[q].flow : q \in {u \in Ports : ingress[u] # Ready}}) \ {None}
           Below(S) == S \cup UNION {Subflows(o) : o \in S}
<1>1. Referenced = Below(Below(Direct))
  BY Zenon DEF Referenced
<1>2. tokenMap \in Direct \cup {None} /\ ui \in Direct \cup {None}
  <2>1. ToSet(<<tokenMap, ui>>) = {tokenMap, ui}
    BY DEF ToSet
  <2> QED
    BY <2>1
<1>3. \A q \in Ports : flows[q] \in Direct \cup {None}
  OBVIOUS
<1>4. \A t \in Queues : egress[t] # Ready => /\ egress[t].flow \in Direct \cup {None}
                                            /\ egress[t].lead \in Direct \cup {None}
  OBVIOUS
<1>5. \A q \in Ports : ingress[q] # Ready => ingress[q].flow \in Direct \cup {None}
  OBVIOUS
<1>6. Direct \subseteq R
  <2>1. \A q \in Ports : flows[q] \in R \cup {None}
    BY DEF Roles, TableRoles
  <2>2. tokenMap \in R \cup {None} /\ ui \in R \cup {None}
    BY DEF Roles, TableRoles
  <2>3. \A t \in Queues : egress[t] # Ready => /\ egress[t].flow \in R
                                              /\ egress[t].lead \in R \cup {None}
    BY DEF Roles, EgressRoles, EgressOK
  <2>4. \A q \in Ports : ingress[q] # Ready => ingress[q].flow \in R \cup {None}
    BY DEF Roles, IngressRoles, IngressOK
  <2>5. ToSet(<<tokenMap, ui>>) = {tokenMap, ui}
    BY DEF ToSet
  <2> QED
    BY <2>1, <2>2, <2>3, <2>4, <2>5
<1> HIDE DEF Direct
<1>7. PICK D : D = Direct
  OBVIOUS
<1>8. PICK E : E = Below(D)
  OBVIOUS
<1>9. Referenced = Below(E)
  BY <1>1, <1>7, <1>8
<1>10. \A o \in R : Subflows(o) \subseteq R /\ \A s \in Subflows(o) : lv[s] = lv[o] + 1
  BY DEF Heap
<1>11. D \subseteq E /\ E \subseteq R /\ E \subseteq Referenced /\ Referenced \subseteq R
  BY <1>6, <1>7, <1>8, <1>9, <1>10
<1>12. D \subseteq Referenced
  BY <1>11
<1>13. \A o \in Referenced : Subflows(o) \subseteq Referenced
  <2> SUFFICES ASSUME NEW o \in Referenced, NEW s \in Subflows(o)
               PROVE  s \in Referenced
    OBVIOUS
  <2>1. CASE o \in E
    BY <2>1, <1>9
  <2>2. CASE o \notin E
    <3>1. PICK p \in E : o \in Subflows(p)
      BY <2>2, <1>9
    <3>2. p \notin D
      BY <2>2, <3>1, <1>8
    <3>3. PICK r \in D : p \in Subflows(r)
      BY <3>1, <3>2, <1>8
    <3>4. lv[p] = lv[r] + 1 /\ lv[o] = lv[p] + 1 /\ lv[s] = lv[o] + 1
      BY <1>10, <1>11, <1>12, <3>1, <3>3
    <3>5. r \in Objs /\ p \in Objs /\ o \in Objs /\ s \in Objs
      BY <1>10, <1>11
    <3>6. lv[r] \in 0 .. 2 /\ lv[p] \in 0 .. 2 /\ lv[o] \in 0 .. 2 /\ lv[s] \in 0 .. 2
      BY <3>5 DEF Levels
    <3> QED
      BY <3>4, <3>6
  <2> QED
    BY <2>1, <2>2
<1>14. TableRoles(Referenced, lv)
  <2>1. /\ tokenMap \in Referenced \cup {None} /\ ui \in Referenced \cup {None}
        /\ \A q \in Ports : flows[q] \in Referenced \cup {None}
    BY <1>2, <1>3, <1>7, <1>12
  <2> QED
    BY <2>1 DEF Roles, TableRoles
<1>15. EgressRoles(Referenced, lv)
  <2>1. ASSUME NEW t \in Queues, egress[t] # Ready
        PROVE  egress[t].flow \in Referenced /\ egress[t].lead \in Referenced \cup {None}
    <3>1. egress[t].flow \in R
      BY <2>1 DEF Roles, EgressRoles, EgressOK
    <3>2. egress[t].flow \in Direct \cup {None} /\ egress[t].lead \in Direct \cup {None}
      BY <2>1, <1>4
    <3> QED
      BY <3>1, <3>2, <1>7, <1>12, NoneIsNoObject
  <2> QED
    BY <2>1 DEF Roles, EgressRoles, EgressOK
<1>16. IngressRoles(Referenced, lv)
  <2>1. ASSUME NEW q \in Ports, ingress[q] # Ready, ingress[q].pc # "create"
        PROVE  ingress[q].flow \in Referenced
    <3>1. ingress[q].flow \in R
      BY <2>1 DEF Roles, IngressRoles, IngressOK
    <3>2. ingress[q].flow \in Direct \cup {None}
      BY <2>1, <1>5
    <3> QED
      BY <3>1, <3>2, <1>7, <1>12, NoneIsNoObject
  <2> QED
    BY <2>1 DEF Roles, IngressRoles, IngressOK
<1>17. Heap(Referenced, lv)
  BY <1>11, <1>13 DEF Heap, OneParent
<1> QED
  BY <1>11, <1>14, <1>15, <1>16, <1>17 DEF Roles

(***************************************************************************)
(* Nobody's role changes if R grows and the levels of its members stay.    *)
(***************************************************************************)
LEMMA Widen ==
  ASSUME NEW R, NEW lv, NEW T, NEW lw, R \subseteq T, \A o \in R : lw[o] = lv[o],
         Roles(R, lv)
  PROVE  Roles(T, lw)
<1>1. TableRoles(T, lw)
  BY DEF Roles, TableRoles
<1>2. EgressRoles(T, lw)
  BY DEF Roles, EgressRoles, EgressOK
<1>3. IngressRoles(T, lw)
  BY DEF Roles, IngressRoles, IngressOK
<1> QED
  BY <1>1, <1>2, <1>3 DEF Roles

-----------------------------------------------------------------------------
(***************************************************************************)
(* What the actions do to the objects                                      *)
(***************************************************************************)

\* Flows change, but neither their endpoints nor their subflows.
LEMMA QuietHeap ==
  ASSUME NEW R \in SUBSET Objs, NEW lv, Heap(R, lv),
         \A o \in R : obj'[o] = obj[o] \/ Alike(obj[o], obj'[o])
  PROVE  Heap(R, lv)'
<1>1. \A o \in R : Alike(obj[o], obj'[o])
  BY DEF Heap, Alike
<1>2. \A o \in R : Subflows(o)' = Subflows(o) /\ EndPoint(o)' = EndPoint(o)
  BY <1>1 DEF Alike, Subflows, EndPoint
<1>3. OneParent(R)'
  BY <1>2 DEF Heap, OneParent
<1> SUFFICES ASSUME NEW o \in R
             PROVE  /\ obj'[o] \in Flow
                    /\ \A s \in Subflows(o)' : s \in R /\ lv[s] = lv[o] + 1
                    /\ Distinct(o)'
  BY <1>3 DEF Heap
<1>4. obj'[o] \in Flow /\ obj'[o].subflows = obj[o].subflows
  BY <1>1 DEF Alike
<1>5. \A s \in Subflows(o)' : s \in R /\ lv[s] = lv[o] + 1
  BY <1>2 DEF Heap
<1>6. Distinct(o)'
  <2>1. \A i \in DOMAIN obj[o].subflows : obj[o].subflows[i] \in R
    BY SubflowsDef DEF Heap
  <2>2. Distinct(o)
    BY DEF Heap
  <2> QED
    BY <1>2, <1>4, <2>1, <2>2 DEF Distinct
<1> QED
  BY <1>4, <1>5, <1>6

\* One flow changes in this way.
LEMMA OneAlike ==
  ASSUME NEW R \in SUBSET Objs, NEW lv, Heap(R, lv), TypeInv,
         NEW o \in R, NEW f, Alike(obj[o], f), obj' = [obj EXCEPT ![o] = f]
  PROVE  /\ obj' \in [Objs -> Flow \cup {None}]
         /\ Heap(R, lv)'
<1>1. obj' \in [Objs -> Flow \cup {None}]
  BY DEF TypeInv, Alike
<1>2. \A p \in R : obj'[p] = obj[p] \/ Alike(obj[p], obj'[p])
  BY DEF TypeInv
<1> QED
  BY <1>1, <1>2, QuietHeap

\* A new lead flow.
LEMMA NewLead ==
  ASSUME NEW R \in SUBSET Objs, NEW lv \in Levels, Heap(R, lv), TypeInv,
         NEW o \in Objs, o \notin R, NEW f \in Flow, f.subflows = << >>,
         obj' = [obj EXCEPT ![o] = f]
  PROVE  /\ obj' \in [Objs -> Flow \cup {None}]
         /\ [lv EXCEPT ![o] = 0] \in Levels
         /\ Heap(R \cup {o}, [lv EXCEPT ![o] = 0])'
<1>1. obj' \in [Objs -> Flow \cup {None}]
  BY DEF TypeInv
<1>2. PICK lw : lw = [lv EXCEPT ![o] = 0]
  OBVIOUS
<1>3. lw \in Levels /\ lw[o] = 0 /\ \A p \in R : lw[p] = lv[p]
  BY <1>2 DEF Levels
<1>4. obj'[o] = f /\ \A p \in R : obj'[p] = obj[p]
  BY DEF TypeInv
<1>5. Heap(R, lv)'
  BY <1>4, QuietHeap
<1>6. Subflows(o)' = {} /\ Distinct(o)'
  BY <1>4 DEF Subflows, ToSet, Distinct
<1>7. OneParent(R \cup {o})'
  BY <1>5, <1>6 DEF Heap, OneParent
<1>8. Heap(R \cup {o}, lw)'
  BY <1>3, <1>4, <1>5, <1>6, <1>7 DEF Heap
<1> QED
  BY <1>1, <1>2, <1>3, <1>8

(***************************************************************************)
(* The new flow s becomes the last subflow of the flow o and is bound to   *)
(* the endpoint ep.                                                        *)
(***************************************************************************)
Adds(o, s, ep) ==
  /\ obj' \in [Objs -> Flow \cup {None}]
  /\ obj'[s] \in Flow /\ obj'[s].subflows = << >> /\ EndPoint(s)' = ep
  /\ obj'[o] \in Flow /\ EndPoint(o)' = EndPoint(o)
  /\ obj'[o].subflows = Append(obj[o].subflows, s)
  /\ \A p \in Objs \ {o, s} : obj'[p] = obj[p]

LEMMA AddsIt ==
  ASSUME TypeInv, NEW o \in Objs, obj[o] \in Flow, NEW s \in Objs, s # o,
         NEW f \in Flow, f.subflows = << >>,
         obj' = [obj EXCEPT ![s] = f, ![o].subflows = Append(@, s)]
  PROVE  Adds(o, s, <<f.ip, f.port>>)
<1>1. PICK l : l = obj[o].subflows
  OBVIOUS
<1>2. Append(l, s) \in Seq(Objs)
  BY <1>1, FlowFields
<1>3. PICK g : g = [obj[o] EXCEPT !.subflows = Append(l, s)]
  OBVIOUS
<1>4. g \in Flow /\ g.subflows = Append(l, s) /\ g.ip = obj[o].ip /\ g.port = obj[o].port
  BY <1>2, <1>3 DEF Flow
<1>5. PICK h : h = [obj EXCEPT ![s] = f]
  OBVIOUS
<1>6. h \in [Objs -> Flow \cup {None}] /\ h[s] = f /\ \A p \in Objs \ {s} : h[p] = obj[p]
  BY <1>5 DEF TypeInv
<1>7. obj' = [h EXCEPT ![o] = g]
  BY <1>1, <1>3, <1>5, <1>6
<1>8. /\ obj' \in [Objs -> Flow \cup {None}]
      /\ obj'[s] = f /\ obj'[o] = g
      /\ \A p \in Objs \ {o, s} : obj'[p] = obj[p]
  BY <1>4, <1>6, <1>7
<1>9. EndPoint(s)' = <<f.ip, f.port>> /\ EndPoint(o)' = EndPoint(o)
  BY <1>4, <1>8 DEF EndPoint
<1> QED
  BY <1>1, <1>4, <1>8, <1>9 DEF Adds

\* The flow o gets a new subflow, bound to an endpoint that no other subflow has.
LEMMA NewSubflow ==
  ASSUME NEW R \in SUBSET Objs, NEW lv \in Levels, Heap(R, lv),
         NEW o \in R, lv[o] <= 1, NEW s \in Objs, s \notin R,
         NEW ep, Adds(o, s, ep), \A x \in Subflows(o) : EndPoint(x) # ep
  PROVE  \E T \in SUBSET Objs, lw \in Levels :
           /\ R \subseteq T /\ (\A x \in R : lw[x] = lv[x])
           /\ s \in T /\ lw[s] = lv[o] + 1
           /\ Heap(T, lw)'
<1>1. PICK lw : lw = [lv EXCEPT ![s] = lv[o] + 1]
  OBVIOUS
<1>2. lw \in Levels /\ lw[s] = lv[o] + 1 /\ \A p \in R : lw[p] = lv[p]
  BY <1>1 DEF Levels
<1>3. /\ s # o /\ obj'[s] \in Flow /\ obj'[s].subflows = << >> /\ EndPoint(s)' = ep
      /\ obj'[o] \in Flow /\ EndPoint(o)' = EndPoint(o)
      /\ obj'[o].subflows = Append(obj[o].subflows, s)
      /\ \A p \in R \ {o} : obj'[p] = obj[p]
  BY DEF Adds
<1>4. PICK l : l = obj[o].subflows
  OBVIOUS
<1>5. l \in Seq(Objs) /\ obj'[o].subflows = Append(l, s)
  BY <1>3, <1>4, FlowFields DEF Heap
<1>6. \A p \in R : obj'[p] \in Flow /\ EndPoint(p)' = EndPoint(p)
  BY <1>3 DEF Heap, EndPoint
<1>7. EndPoint(s)' = ep
  BY <1>3
<1>8. \A p \in R \ {o} : /\ obj'[p].subflows = obj[p].subflows
                          /\ Subflows(p)' = Subflows(p)
  BY <1>3 DEF Subflows
<1>9. \A p \in R : \A x \in Subflows(p) : x \in R /\ lv[x] = lv[p] + 1
  BY DEF Heap
<1>10. ASSUME NEW p \in R \ {o}
      PROVE  /\ \A x \in Subflows(p)' : x \in R /\ lw[x] = lw[p] + 1
             /\ Distinct(p)'
  <2>1. obj[p] \in Flow
    BY DEF Heap
  <2>2. \A x \in Subflows(p)' : x \in R /\ lw[x] = lw[p] + 1
    BY <1>2, <1>8, <1>9
  <2>3. \A i \in DOMAIN obj[p].subflows : obj[p].subflows[i] \in R
    BY <1>9, <2>1, SubflowsDef
  <2>4. Distinct(p)
    BY DEF Heap
  <2>5. Distinct(p)'
    BY <1>6, <1>8, <2>3, <2>4 DEF Distinct
  <2> QED
    BY <2>2, <2>5
<1>11. /\ Len(l) \in Nat
      /\ DOMAIN l = 1 .. Len(l) /\ DOMAIN Append(l, s) = 1 .. Len(l) + 1
      /\ \A i \in 1 .. Len(l) : Append(l, s)[i] = l[i]
      /\ Append(l, s)[Len(l) + 1] = s
  BY <1>5
<1>12. Subflows(o) = {l[i] : i \in 1 .. Len(l)}
  BY <1>4, <1>11 DEF Subflows, ToSet
<1>13. \A x \in Subflows(o)' : x \in R \cup {s} /\ lw[x] = lw[o] + 1
  <2>1. Subflows(o)' = {Append(l, s)[i] : i \in 1 .. Len(l) + 1}
    BY <1>5, <1>11 DEF Subflows, ToSet
  <2>2. \A x \in Subflows(o)' : x \in Subflows(o) \cup {s}
    BY <1>11, <1>12, <2>1
  <2> QED
    BY <1>2, <1>9, <2>2
<1>14. Distinct(o)'
  <2> SUFFICES ASSUME NEW i \in 1 .. Len(l) + 1, NEW j \in 1 .. Len(l) + 1, i # j
               PROVE  EndPoint(Append(l, s)[i])' # EndPoint(Append(l, s)[j])'
    BY <1>5, <1>11 DEF Distinct
  <2>1. \A k \in 1 .. Len(l) : /\ l[k] \in Subflows(o)
                               /\ EndPoint(l[k])' = EndPoint(l[k])
    BY <1>6, <1>9, <1>12
  <2>2. \A k \in 1 .. Len(l) : EndPoint(l[k])' # EndPoint(s)'
    BY <1>7, <2>1
  <2>3. CASE i = Len(l) + 1
    <3>1. j \in 1 .. Len(l)
      BY <1>11, <2>3
    <3> QED
      BY <1>11, <2>2, <2>3, <3>1
  <2>4. CASE j = Len(l) + 1
    <3>1. i \in 1 .. Len(l)
      BY <1>11, <2>4
    <3> QED
      BY <1>11, <2>2, <2>4, <3>1
  <2>5. CASE i # Len(l) + 1 /\ j # Len(l) + 1
    <3>1. i \in 1 .. Len(l) /\ j \in 1 .. Len(l)
      BY <1>11, <2>5
    <3>2. EndPoint(l[i]) # EndPoint(l[j])
      BY <3>1, <1>4, <1>11 DEF Heap, Distinct
    <3> QED
      BY <1>11, <2>1, <3>1, <3>2
  <2> QED
    BY <2>3, <2>4, <2>5
<1>15. Subflows(s)' = {} /\ Distinct(s)'
  BY <1>3 DEF Subflows, ToSet, Distinct
<1>16. OneParent(R \cup {s})'
  <2>1. Subflows(o)' = {Append(l, s)[i] : i \in 1 .. Len(l) + 1}
    BY <1>5, <1>11 DEF Subflows, ToSet
  <2>2. \A x \in Subflows(o)' : x \in Subflows(o) \cup {s}
    BY <1>11, <1>12, <2>1
  <2>3. \A p \in R \ {o} : Subflows(p)' = Subflows(p) /\ s \notin Subflows(p)
    BY <1>8, <1>9
  <2> QED
    BY <1>15, <2>2, <2>3 DEF Heap, OneParent
<1>17. Heap(R \cup {s}, lw)'
  BY <1>2, <1>3, <1>6, <1>10, <1>13, <1>14, <1>15, <1>16 DEF Heap
<1>18. PICK T \in SUBSET Objs : T = R \cup {s}
  OBVIOUS
<1> QED
  BY <1>2, <1>17, <1>18

\* A set of naturals has a least element.
LEMMA MinNat ==
  ASSUME NEW S \in SUBSET Nat, S # {}
  PROVE  Min(S) \in S
<1>1. PICK m \in S : \A y \in S : ~ (<<y, m>> \in OpToRel(<, Nat))
  BY NatLessThanWellFounded, WFMin
<1>2. ASSUME NEW y \in S
      PROVE  m <= y
  <2>1. y \in Nat /\ m \in Nat /\ ~ (<<y, m>> \in OpToRel(<, Nat))
    BY <1>1
  <2> QED
    BY <2>1 DEF OpToRel
<1>3. \E x \in S : \A y \in S : x <= y
  BY <1>2
<1> QED
  BY <1>3 DEF Min

\* FirstOf finds one of the flows it looks for.
LEMMA FirstOfFinds ==
  ASSUME NEW o \in Objs, obj[o] \in Flow, NEW S, S # {}, S \subseteq {o} \cup Subflows(o)
  PROVE  FirstOf(o, S) \in S
<1>1. PICK l : l = obj[o].subflows
  OBVIOUS
<1>2. Subflows(o) = {l[i] : i \in 1 .. Len(l)} /\ Len(l) \in Nat
  BY <1>1, SubflowsDef
<1>3. CASE o \in S
  BY <1>3 DEF FirstOf
<1>4. CASE o \notin S
  <2>1. PICK I : I = {i \in 1 .. Len(l) : l[i] \in S}
    OBVIOUS
  <2>2. I # {} /\ I \subseteq Nat
    BY <1>2, <1>4, <2>1
  <2>3. Min(I) \in I
    BY <2>2, MinNat
  <2>4. FirstOf(o, S) = l[Min(I)]
    BY <1>1, <1>4, <2>1, <2>2 DEF FirstOf, SelectInSeq
  <2> QED
    BY <2>1, <2>3, <2>4
<1> QED
  BY <1>3, <1>4

\* The elements of m come from different positions of l.
Picks(m, l) ==
  \E pos : /\ \A k \in DOMAIN m : pos[k] \in DOMAIN l /\ m[k] = l[pos[k]]
          /\ \A j, k \in DOMAIN m : j # k => pos[j] # pos[k]

(***************************************************************************)
(* The elements that Without leaves come from different positions.         *)
(***************************************************************************)
LEMMA WithoutPicks ==
  ASSUME NEW l \in Seq(Objs), NEW S
  PROVE  Without(l, S) \in Seq(Objs) /\ Picks(Without(l, S), l)
<1>1. PICK m : m = Without(l, S)
  OBVIOUS
<1> DEFINE kept   == {i \in DOMAIN l : l[i] \notin S}
           Nth(k) == CHOOSE i \in kept : Cardinality({j \in kept : j <= i}) = k
           n      == Cardinality(kept)
<1>2. kept \subseteq DOMAIN l /\ m = [k \in 1 .. n |-> l[Nth(k)]]
  BY <1>1 DEF Without
<1> HIDE DEF kept, Nth
<1>3. PICK rank : rank = [i \in kept |-> Cardinality({j \in kept : j <= i})]
  OBVIOUS
<1>4. DOMAIN l = 1 .. Len(l) /\ Len(l) \in Nat
  OBVIOUS
<1>5. kept \subseteq 1 .. Len(l) /\ kept \subseteq DOMAIN l
  BY <1>2, <1>4
<1>6. IsFiniteSet(kept) /\ n \in Nat
  <2>1. IsFiniteSet(1 .. Len(l))
    BY <1>4, FS_Interval
  <2> QED
    BY <1>5, <2>1, FS_Subset, FS_CardinalityType
<1>7. \A i \in kept : rank[i] \in 1 .. n
  <2> SUFFICES ASSUME NEW i \in kept
               PROVE  rank[i] \in 1 .. n
    OBVIOUS
  <2>1. PICK T : T = {j \in kept : j <= i}
    OBVIOUS
  <2>2. T \subseteq kept /\ i \in T
    BY <1>5, <2>1
  <2>3. IsFiniteSet(T) /\ Cardinality(T) <= n /\ Cardinality(T) \in Nat
    BY <1>6, <2>2, FS_Subset, FS_CardinalityType
  <2>4. Cardinality(T) # 0
    BY <2>2, <2>3, FS_EmptySet
  <2> QED
    BY <1>3, <1>6, <2>1, <2>3, <2>4
<1>8. \A i, j \in kept : i < j => rank[i] # rank[j]
  <2> SUFFICES ASSUME NEW i \in kept, NEW j \in kept, i < j
               PROVE  rank[i] # rank[j]
    OBVIOUS
  <2>1. PICK T : T = {k \in kept : k <= i}
    OBVIOUS
  <2>2. PICK U : U = {k \in kept : k <= j}
    OBVIOUS
  <2>3. T \subseteq U /\ j \in U /\ j \notin T
    BY <1>5, <2>1, <2>2
  <2>4. IsFiniteSet(U)
    BY <1>6, <2>2, FS_Subset
  <2>5. Cardinality(T) # Cardinality(U)
    BY <2>3, <2>4, FS_Subset
  <2> QED
    BY <1>3, <2>1, <2>2, <2>5
<1>9. \A i, j \in kept : i # j => rank[i] # rank[j]
  BY <1>5, <1>8
<1>10. \A k \in 1 .. n : \E i \in kept : rank[i] = k
  <2>1. PICK f : f = rank
    OBVIOUS
  <2>2. f \in [kept -> 1 .. n] /\ \A i, j \in kept : i # j => f[i] # f[j]
    BY <1>3, <1>7, <1>9, <2>1
  <2>3. f \in Injection(kept, 1 .. n)
    BY <2>2 DEF Injection, IsInjective
  <2>4. IsFiniteSet(1 .. n) /\ Cardinality(1 .. n) = Cardinality(kept)
    BY <1>6, FS_Interval
  <2>5. f \in Surjection(kept, 1 .. n)
    BY <2>3, <2>4, FS_Injection
  <2> QED
    BY <2>1, <2>5 DEF Surjection
<1>11. \A k \in 1 .. n : Nth(k) \in kept /\ rank[Nth(k)] = k
  <2> SUFFICES ASSUME NEW k \in 1 .. n
               PROVE  Nth(k) \in kept /\ rank[Nth(k)] = k
    OBVIOUS
  <2>1. \E i \in kept : Cardinality({j \in kept : j <= i}) = k
    BY <1>3, <1>10
  <2>2. Nth(k) \in kept /\ Cardinality({j \in kept : j <= Nth(k)}) = k
    BY <2>1 DEF Nth
  <2> QED
    BY <1>3, <2>2
<1>12. PICK pos : pos = [k \in 1 .. n |-> Nth(k)]
  OBVIOUS
<1>13. \A k \in 1 .. n : pos[k] \in kept /\ rank[pos[k]] = k /\ l[Nth(k)] = l[pos[k]]
  BY <1>11, <1>12
<1>14. \A k \in 1 .. n : l[Nth(k)] \in Objs
  BY <1>2, <1>11
<1>15. m \in Seq(Objs) /\ DOMAIN m = 1 .. n /\ \A k \in 1 .. n : m[k] = l[Nth(k)]
  BY <1>2, <1>6, <1>14
<1>16. /\ \A k \in DOMAIN m : pos[k] \in DOMAIN l /\ m[k] = l[pos[k]]
       /\ \A j, k \in DOMAIN m : j # k => pos[j] # pos[k]
  BY <1>2, <1>13, <1>15
<1> QED
  BY <1>1, <1>15, <1>16 DEF Picks

\* Some subflows of the flow o are removed.
LEMMA FewerSubflows ==
  ASSUME NEW R \in SUBSET Objs, NEW lv, Heap(R, lv), NEW o \in R,
         NEW g \in Flow, g.ip = obj[o].ip, g.port = obj[o].port,
         Picks(g.subflows, obj[o].subflows),
         obj'[o] = g,
         \A p \in R \ {o} : obj'[p] = obj[p] \/ Alike(obj[p], obj'[p])
  PROVE  Heap(R, lv)'
<1>1. \A p \in R : obj[p] \in Flow
  BY DEF Heap
<1>2. \A p \in R : obj'[p] \in Flow /\ EndPoint(p)' = EndPoint(p)
  BY <1>1 DEF Alike, EndPoint
<1>3. \A p \in R : \A s \in Subflows(p) : s \in R /\ lv[s] = lv[p] + 1
  BY DEF Heap
<1>4. \A p \in R : \A i \in DOMAIN obj[p].subflows : obj[p].subflows[i] \in Subflows(p)
  BY <1>1, SubflowsDef
<1>5. \A p \in R : Distinct(p)
  BY DEF Heap
<1>6. ASSUME NEW p \in R \ {o}
      PROVE  /\ \A s \in Subflows(p)' : s \in R /\ lv[s] = lv[p] + 1
             /\ Distinct(p)'
  <2>1. obj'[p].subflows = obj[p].subflows
    BY DEF Alike
  <2>2. Subflows(p)' = Subflows(p)
    BY <2>1 DEF Subflows
  <2>3. Distinct(p)'
    BY <1>2, <1>3, <1>4, <1>5, <2>1 DEF Distinct
  <2> QED
    BY <1>3, <2>2, <2>3
<1>7. PICK l : l = obj[o].subflows
  OBVIOUS
<1>8. PICK m : m = g.subflows
  OBVIOUS
<1>9. PICK pos :
        /\ \A k \in DOMAIN m : pos[k] \in DOMAIN l /\ m[k] = l[pos[k]]
        /\ \A j, k \in DOMAIN m : j # k => pos[j] # pos[k]
  BY <1>7, <1>8 DEF Picks
<1>10. \A i \in DOMAIN l : l[i] \in Subflows(o)
  BY <1>4, <1>7
<1>11. \A k \in DOMAIN m : m[k] \in Subflows(o)
  BY <1>9, <1>10
<1>12. \A s \in Subflows(o)' : s \in R /\ lv[s] = lv[o] + 1
  <2>1. Subflows(o)' = {m[k] : k \in DOMAIN m}
    BY <1>8 DEF Subflows, ToSet
  <2> QED
    BY <1>3, <1>11, <2>1
<1>13. Distinct(o)'
  <2> SUFFICES ASSUME NEW i \in DOMAIN m, NEW j \in DOMAIN m, i # j
               PROVE  EndPoint(m[i])' # EndPoint(m[j])'
    BY <1>8 DEF Distinct
  <2>1. EndPoint(l[pos[i]]) # EndPoint(l[pos[j]])
    BY <1>5, <1>7, <1>9 DEF Distinct
  <2> QED
    BY <1>2, <1>3, <1>9, <1>11, <2>1
<1>14. OneParent(R)'
  <2>1. Subflows(o)' = {m[k] : k \in DOMAIN m}
    BY <1>8 DEF Subflows, ToSet
  <2>2. Subflows(o)' \subseteq Subflows(o)
    BY <1>11, <2>1
  <2>3. \A p \in R \ {o} : Subflows(p)' = Subflows(p)
    BY DEF Alike, Subflows
  <2> QED
    BY <2>2, <2>3 DEF Heap, OneParent
<1> QED
  BY <1>2, <1>6, <1>12, <1>13, <1>14 DEF Heap

(***************************************************************************)
(* One thread goes on.                                                     *)
(***************************************************************************)
LEMMA EgressGoes ==
  ASSUME NEW R, NEW lv, EgressRoles(R, lv), NEW t \in Queues, NEW e, EgressOK(e, R, lv),
         egress' = [egress EXCEPT ![t] = e]
  PROVE  EgressRoles(R, lv)'
<1>1. e \in Egress
  BY DEF EgressOK, Egress
<1>2. egress' \in [Queues -> Egress]
  BY <1>1 DEF EgressRoles
<1> QED
  BY <1>2 DEF EgressRoles

LEMMA IngressGoes ==
  ASSUME NEW R, NEW lv, IngressRoles(R, lv), NEW q \in Ports, NEW i, IngressOK(i, R, lv),
         ingress' = [ingress EXCEPT ![q] = i]
  PROVE  IngressRoles(R, lv)'
<1>1. i \in Ingress
  BY DEF IngressOK, Ingress
<1>2. ingress' \in [Ports -> Ingress]
  BY <1>1 DEF IngressRoles
<1> QED
  BY <1>2 DEF IngressRoles

LEMMA Conclude ==
  ASSUME NEW R \in SUBSET Objs, NEW lv \in Levels, TypeInv', MutexInv',
         TableRoles(R, lv)', EgressRoles(R, lv)', IngressRoles(R, lv)', Heap(R, lv)'
  PROVE  IInv'
BY Zenon DEF IInv, Roles

\* An egress thread goes on, possibly with a new object.
LEMMA EgressMoves ==
  ASSUME NEW R, NEW lv, Roles(R, lv), TypeInv, MutexInv,
         NEW T \in SUBSET Objs, NEW lw \in Levels, R \subseteq T, \A o \in R : lw[o] = lv[o],
         obj' \in [Objs -> Flow \cup {None}], Heap(T, lw)',
         NEW t \in Queues, NEW e, EgressOK(e, T, lw), egress' = [egress EXCEPT ![t] = e],
         KeepsShared
  PROVE  IInv'
<1>1. Roles(T, lw)
  BY Widen
<1>2. TypeInv'
  BY DEF TypeInv, KeepsShared
<1>3. MutexInv'
  BY DEF MutexInv, KeepsShared
<1>4. TableRoles(T, lw)'
  BY <1>1 DEF Roles, TableRoles, KeepsShared
<1>5. IngressRoles(T, lw)'
  BY <1>1 DEF Roles, IngressRoles, KeepsShared
<1>6. EgressRoles(T, lw)
  BY <1>1 DEF Roles
<1>7. EgressRoles(T, lw)'
  BY <1>6, EgressGoes
<1> QED
  BY <1>2, <1>3, <1>4, <1>5, <1>7, Conclude

\* An ingress coroutine goes on, possibly with a new object.
LEMMA IngressMoves ==
  ASSUME NEW R, NEW lv, Roles(R, lv), TypeInv, MutexInv,
         NEW T \in SUBSET Objs, NEW lw \in Levels, R \subseteq T, \A o \in R : lw[o] = lv[o],
         obj' \in [Objs -> Flow \cup {None}], Heap(T, lw)',
         NEW q \in Ports, NEW i, IngressOK(i, T, lw), ingress' = [ingress EXCEPT ![q] = i],
         KeepsTable
  PROVE  IInv'
<1>1. Roles(T, lw)
  BY Widen
<1>2. TypeInv'
  BY DEF TypeInv, KeepsTable
<1>3. MutexInv'
  BY DEF MutexInv, KeepsTable
<1>4. TableRoles(T, lw)'
  BY <1>1 DEF Roles, TableRoles, KeepsTable
<1>5. EgressRoles(T, lw)'
  BY <1>1 DEF Roles, EgressRoles, KeepsTable
<1>6. IngressRoles(T, lw)
  BY <1>1 DEF Roles
<1>7. IngressRoles(T, lw)'
  BY <1>6, IngressGoes
<1> QED
  BY <1>2, <1>3, <1>4, <1>5, <1>7, Conclude

LEMMA SameHeap ==
  ASSUME NEW R \in SUBSET Objs, NEW lv, Heap(R, lv), TypeInv, UNCHANGED obj
  PROVE  obj' \in [Objs -> Flow \cup {None}] /\ Heap(R, lv)'
<1>1. obj' \in [Objs -> Flow \cup {None}]
  BY DEF TypeInv
<1> QED
  BY <1>1, QuietHeap

\* The work of an egress thread.
LEMMA EgressFields ==
  ASSUME NEW R, NEW lv, NEW e, EgressOK(e, R, lv), e.pc # "ready"
  PROVE  /\ e \in Egress /\ e # Ready
         /\ e.pkt \in EgressPkts /\ e.ep \in EndPoints /\ e.sport \in Ports
         /\ e.flow \in R /\ e.lead \in R \cup {None} /\ e.path \in Paths \cup {NoPath}
         /\ e.pc = "sub" => lv[e.flow] <= 1
BY DEF EgressOK, Egress, Ready

LEMMA EgressGoto ==
  ASSUME NEW R \in SUBSET Objs, NEW lv, NEW e, EgressOK(e, R, lv), e.pc # "ready",
         NEW pc \in {"path", "select", "lead", "multi", "set", "send"}
  PROVE  /\ EgressOK([e EXCEPT !.pc = pc], R, lv)
         /\ \A o \in R : EgressOK([e EXCEPT !.pc = pc, !.flow = o], R, lv)
         /\ \A o \in R : EgressOK([e EXCEPT !.pc = pc, !.lead = o], R, lv)
         /\ \A p \in Paths \cup {NoPath} : EgressOK([e EXCEPT !.pc = pc, !.path = p], R, lv)
<1>1. e \in Egress /\ e # Ready /\ e.flow \in R /\ e.lead \in R \cup {None}
  BY EgressFields
<1>2. EgressOK([e EXCEPT !.pc = pc], R, lv)
  BY <1>1 DEF EgressOK, Egress, Ready
<1>3. ASSUME NEW o \in R
      PROVE  EgressOK([e EXCEPT !.pc = pc, !.flow = o], R, lv)
  BY <1>1 DEF EgressOK, Egress, Ready
<1>4. ASSUME NEW o \in R
      PROVE  EgressOK([e EXCEPT !.pc = pc, !.lead = o], R, lv)
  BY <1>1 DEF EgressOK, Egress, Ready
<1>5. ASSUME NEW p \in Paths \cup {NoPath}
      PROVE  EgressOK([e EXCEPT !.pc = pc, !.path = p], R, lv)
  BY <1>1 DEF EgressOK, Egress, Ready
<1> QED
  BY <1>2, <1>3, <1>4, <1>5

LEMMA ReadyOK ==
  ASSUME NEW R, NEW lv
  PROVE  EgressOK(Ready, R, lv) /\ IngressOK(Ready, R, lv)
BY DEF EgressOK, IngressOK

\* Two fields of one thread are assigned.
LEMMA TwoFields ==
  ASSUME NEW g, NEW t \in DOMAIN g, NEW pc, NEW x
  PROVE  /\ [g EXCEPT ![t].pc = pc, ![t].flow = x]
              = [g EXCEPT ![t] = [g[t] EXCEPT !.pc = pc, !.flow = x]]
         /\ [g EXCEPT ![t].pc = pc, ![t].lead = x]
              = [g EXCEPT ![t] = [g[t] EXCEPT !.pc = pc, !.lead = x]]
         /\ [g EXCEPT ![t].pc = pc, ![t].path = x]
              = [g EXCEPT ![t] = [g[t] EXCEPT !.pc = pc, !.path = x]]
OBVIOUS

-----------------------------------------------------------------------------
(***************************************************************************)
(* The actions of an egress thread                                         *)
(***************************************************************************)
LEMMA EgressSubflowStep ==
  ASSUME NEW R \in SUBSET Objs, NEW lv \in Levels, R = Referenced,
         TypeInv, MutexInv, Roles(R, lv), Heap(R, lv), NEW t \in Queues, EgressSubflow(t)
  PROVE  IInv'
<1>1. PICK e : e = egress[t]
  OBVIOUS
<1>2. DOMAIN egress = Queues /\ EgressOK(e, R, lv)
  BY <1>1 DEF Roles, EgressRoles
<1>3. e.pc = "sub" /\ KeepsShared
  BY <1>1 DEF EgressSubflow
<1>4. /\ e \in Egress /\ e # Ready /\ e.ep \in EndPoints
      /\ e.flow \in R /\ lv[e.flow] <= 1
  BY <1>2, <1>3, EgressFields
<1>5. PICK o \in R : o = e.flow
  BY <1>4
<1>6. obj[o] \in Flow /\ Subflows(o) \subseteq R
  BY DEF Heap
<1>7. PICK match : match = {s \in {o} \cup Subflows(o) : EndPoint(s) = e.ep}
  OBVIOUS
<1>8. CASE ~obj[o].multipath /\ Goto(t, "path") /\ UNCHANGED obj
  <2>1. egress' = [egress EXCEPT ![t] = [e EXCEPT !.pc = "path"]]
    BY <1>1, <1>8 DEF Goto
  <2>2. EgressOK([e EXCEPT !.pc = "path"], R, lv)
    BY <1>2, <1>3, EgressGoto
  <2>3. obj' \in [Objs -> Flow \cup {None}] /\ Heap(R, lv)'
    BY <1>8, SameHeap
  <2> QED
    BY <1>3, <2>1, <2>2, <2>3, EgressMoves
<1>9. CASE /\ match # {} /\ UNCHANGED obj
           /\ egress' = [egress EXCEPT ![t].pc = "path", ![t].flow = FirstOf(o, match)]
  <2>1. PICK s : s = FirstOf(o, match)
    OBVIOUS
  <2>2. s \in R
    BY <1>6, <1>7, <1>9, <2>1, FirstOfFinds
  <2>3. egress' = [egress EXCEPT ![t] = [e EXCEPT !.pc = "path", !.flow = s]]
    BY <1>1, <1>2, <1>9, <2>1, TwoFields
  <2>4. EgressOK([e EXCEPT !.pc = "path", !.flow = s], R, lv)
    BY <1>2, <1>3, <2>2, EgressGoto
  <2>5. obj' \in [Objs -> Flow \cup {None}] /\ Heap(R, lv)'
    BY <1>9, SameHeap
  <2> QED
    BY <1>3, <2>3, <2>4, <2>5, EgressMoves
<1>10. CASE /\ match = {}
            /\ \E s \in Objs :
                 /\ Unreferenced(s)
                 /\ obj' = [obj EXCEPT ![s] = NewFlow(e.ep, "Active", TRUE, obj[o].token),
                                       ![o].subflows = Append(@, s)]
                 /\ egress' = [egress EXCEPT ![t].pc = "path", ![t].flow = s]
  <2>1. PICK s \in Objs :
          /\ Unreferenced(s)
          /\ obj' = [obj EXCEPT ![s] = NewFlow(e.ep, "Active", TRUE, obj[o].token),
                                ![o].subflows = Append(@, s)]
          /\ egress' = [egress EXCEPT ![t].pc = "path", ![t].flow = s]
    BY <1>10
  <2>2. s \notin R
    BY <2>1 DEF Unreferenced
  <2>3. PICK f : f = NewFlow(e.ep, "Active", TRUE, obj[o].token)
    OBVIOUS
  <2>4. f \in Flow /\ f.subflows = << >> /\ f.ip = e.ep[1] /\ f.port = e.ep[2]
    BY <1>4, <1>6, <2>3, FlowFields, NewFlowType
  <2>5. lv[o] <= 1 /\ \A x \in Subflows(o) : EndPoint(x) # e.ep
    BY <1>4, <1>5, <1>7, <1>10
  <2>6. Adds(o, s, e.ep)
    <3>1. obj' = [obj EXCEPT ![s] = f, ![o].subflows = Append(@, s)]
      BY <2>1, <2>3
    <3>2. e.ep = <<f.ip, f.port>>
      BY <1>4, <2>4 DEF EndPoints
    <3> QED
      BY <1>6, <2>2, <2>4, <3>1, <3>2, AddsIt
  <2>7. PICK T \in SUBSET Objs, lw \in Levels :
          /\ R \subseteq T /\ (\A x \in R : lw[x] = lv[x])
          /\ s \in T /\ lw[s] = lv[o] + 1
          /\ Heap(T, lw)'
    BY <2>2, <2>5, <2>6, NewSubflow
  <2>8. obj' \in [Objs -> Flow \cup {None}]
    BY <2>6 DEF Adds
  <2>9. egress' = [egress EXCEPT ![t] = [e EXCEPT !.pc = "path", !.flow = s]]
    BY <1>1, <1>2, <2>1, TwoFields
  <2>10. EgressOK([e EXCEPT !.pc = "path", !.flow = s], T, lw)
    <3>1. EgressOK(e, T, lw)
      BY <1>2, <1>3, <1>4, <2>7 DEF EgressOK
    <3> QED
      BY <1>3, <2>7, <3>1, EgressGoto
  <2> QED
    BY <1>3, <2>7, <2>8, <2>9, <2>10, EgressMoves
<1> QED
  BY <1>1, <1>5, <1>7, <1>8, <1>9, <1>10 DEF EgressSubflow

\* Steps of an egress thread that change no object.
LEMMA EgressDecides ==
  ASSUME NEW R \in SUBSET Objs, NEW lv \in Levels,
         TypeInv, MutexInv, Roles(R, lv), Heap(R, lv), NEW t \in Queues,
         EgressGetPath(t) \/ EgressSelect(t) \/ EgressFindLead(t) \/ EgressSelectMulti(t)
  PROVE  IInv'
<1>1. PICK e : e = egress[t]
  OBVIOUS
<1>2. DOMAIN egress = Queues /\ EgressOK(e, R, lv)
  BY <1>1 DEF Roles, EgressRoles
<1>3. e.pc # "ready" /\ KeepsShared /\ UNCHANGED obj
  BY <1>1 DEF EgressGetPath, EgressSelect, EgressFindLead, EgressSelectMulti
<1>4. e.flow \in R /\ e.sport \in Ports
  BY <1>2, <1>3, EgressFields
<1>5. obj' \in [Objs -> Flow \cup {None}] /\ Heap(R, lv)'
  BY <1>3, SameHeap
<1>6. ASSUME NEW w, EgressOK(w, R, lv), egress' = [egress EXCEPT ![t] = w]
      PROVE  IInv'
  BY <1>3, <1>5, <1>6, EgressMoves
<1>7. CASE Done(t)
  <2>1. EgressOK(Ready, R, lv) /\ egress' = [egress EXCEPT ![t] = Ready]
    BY <1>7, ReadyOK DEF Done
  <2> QED
    BY <2>1, <1>6
<1>8. ASSUME NEW pc \in {"lead", "set"}, Goto(t, pc)
      PROVE  IInv'
  <2>1. EgressOK([e EXCEPT !.pc = pc], R, lv)
    BY <1>2, <1>3, EgressGoto
  <2>2. egress' = [egress EXCEPT ![t] = [e EXCEPT !.pc = pc]]
    BY <1>1, <1>8 DEF Goto
  <2> QED
    BY <2>1, <2>2, <1>6
<1>9. ASSUME NEW pc \in {"select", "set"}, NEW p \in Paths \cup {NoPath},
             egress' = [egress EXCEPT ![t].pc = pc, ![t].path = p]
      PROVE  IInv'
  <2>1. EgressOK([e EXCEPT !.pc = pc, !.path = p], R, lv)
    BY <1>2, <1>3, EgressGoto
  <2>2. egress' = [egress EXCEPT ![t] = [e EXCEPT !.pc = pc, !.path = p]]
    BY <1>1, <1>2, <1>9, TwoFields
  <2> QED
    BY <2>1, <2>2, <1>6
<1>10. ASSUME NEW o \in R, egress' = [egress EXCEPT ![t].pc = "multi", ![t].lead = o]
       PROVE  IInv'
  <2>1. EgressOK([e EXCEPT !.pc = "multi", !.lead = o], R, lv)
    BY <1>2, <1>3, EgressGoto
  <2>2. egress' = [egress EXCEPT ![t] = [e EXCEPT !.pc = "multi", !.lead = o]]
    BY <1>1, <1>2, <1>10, TwoFields
  <2> QED
    BY <2>1, <2>2, <1>6
<1>11. CASE EgressGetPath(t)
  <2>1. PICK p : p = obj[e.flow].path
    OBVIOUS
  <2>2. p \in Paths \cup {NoPath}
    BY <1>4, <2>1, FlowFields DEF Heap
  <2>3. egress' = [egress EXCEPT ![t].pc = "select", ![t].path = p]
    BY <1>1, <1>11, <2>1 DEF EgressGetPath
  <2> QED
    BY <2>2, <2>3, <1>9
<1>12. CASE EgressSelect(t)
  <2>1. \/ Goto(t, "set") \/ Goto(t, "lead") \/ Done(t)
        \/ \E p \in Paths : egress' = [egress EXCEPT ![t].pc = "set", ![t].path = p]
    BY <1>12 DEF EgressSelect
  <2> QED
    BY <2>1, <1>7, <1>8, <1>9
<1>13. CASE EgressFindLead(t)
  <2>1. PICK o : o = flows[e.sport]
    OBVIOUS
  <2>2. o \in R \cup {None}
    BY <1>4, <2>1 DEF Roles, TableRoles
  <2>3. \/ Done(t)
        \/ o # None /\ egress' = [egress EXCEPT ![t].pc = "multi", ![t].lead = o]
    BY <1>1, <1>13, <2>1 DEF EgressFindLead
  <2> QED
    BY <2>2, <2>3, <1>7, <1>10
<1>14. CASE EgressSelectMulti(t)
  <2>1. \/ Done(t)
        \/ \E p \in Paths : egress' = [egress EXCEPT ![t].pc = "set", ![t].path = p]
    BY <1>14 DEF EgressSelectMulti
  <2> QED
    BY <2>1, <1>7, <1>9
<1> QED
  BY <1>11, <1>12, <1>13, <1>14

LEMMA EgressSetPathStep ==
  ASSUME NEW R \in SUBSET Objs, NEW lv \in Levels,
         TypeInv, MutexInv, Roles(R, lv), Heap(R, lv), NEW t \in Queues, EgressSetPath(t)
  PROVE  IInv'
<1>1. PICK e : e = egress[t]
  OBVIOUS
<1>2. EgressOK(e, R, lv)
  BY <1>1 DEF Roles, EgressRoles
<1>3. e.pc = "set" /\ KeepsShared
  BY <1>1 DEF EgressSetPath
<1>4. PICK o \in R : o = e.flow
  BY <1>2, <1>3, EgressFields
<1>5. PICK p \in Paths \cup {NoPath} : p = e.path
  BY <1>2, <1>3, EgressFields
<1>6. PICK f : f = [obj[o] EXCEPT !.path = p]
  OBVIOUS
<1>7. Alike(obj[o], f)
  BY <1>6, AlikePath DEF Heap
<1>8. obj' = [obj EXCEPT ![o] = f]
  BY <1>1, <1>4, <1>5, <1>6 DEF EgressSetPath
<1>9. obj' \in [Objs -> Flow \cup {None}] /\ Heap(R, lv)'
  BY <1>7, <1>8, OneAlike
<1>10. EgressOK([e EXCEPT !.pc = "send"], R, lv)
  BY <1>2, <1>3, EgressGoto
<1>11. egress' = [egress EXCEPT ![t] = [e EXCEPT !.pc = "send"]]
  BY <1>1 DEF EgressSetPath, Goto
<1> QED
  BY <1>3, <1>9, <1>10, <1>11, EgressMoves

LEMMA EgressSendStep ==
  ASSUME NEW R \in SUBSET Objs, NEW lv \in Levels,
         TypeInv, MutexInv, Roles(R, lv), Heap(R, lv), NEW t \in Queues, EgressSend(t)
  PROVE  IInv'
<1>1. PICK e : e = egress[t]
  OBVIOUS
<1>2. EgressOK(e, R, lv)
  BY <1>1 DEF Roles, EgressRoles
<1>3. e.pc = "send" /\ KeepsShared
  BY <1>1 DEF EgressSend
<1>4. PICK o \in R : o = e.flow
  BY <1>2, <1>3, EgressFields
<1>5. PICK f : f = Sent(obj[o], e.pkt)
  OBVIOUS
<1>6. Alike(obj[o], f)
  BY <1>5, AlikeSent DEF Heap
<1>7. \/ obj' = [obj EXCEPT ![o] = f]
      \/ UNCHANGED obj
  BY <1>1, <1>4, <1>5 DEF EgressSend
<1>8. obj' \in [Objs -> Flow \cup {None}] /\ Heap(R, lv)'
  BY <1>6, <1>7, OneAlike, SameHeap
<1>9. EgressOK(Ready, R, lv) /\ egress' = [egress EXCEPT ![t] = Ready]
  BY ReadyOK DEF EgressSend, Done
<1> QED
  BY <1>3, <1>8, <1>9, EgressMoves

(***************************************************************************)
(* A thread that holds flowMutex finds neither maintenance nor the user    *)
(* interface at work.                                                      *)
(***************************************************************************)
LEMMA Free ==
  ASSUME MutexInv, TypeInv, flowMutex = None
  PROVE  ui = None /\ maint.pc = "ready"
BY NoneIsNoObject DEF MutexInv, TypeInv

LEMMA SourcePortType ==
  ASSUME NEW R \in SUBSET Objs, NEW lv, TypeInv, Roles(R, lv), Heap(R, lv),
         NEW ep \in EndPoints, NEW p
  PROVE  SourcePort(p, ep) \in Ports
<1>1. tokenMap # None => obj[tokenMap].port \in Ports
  <2>1. tokenMap # None => tokenMap \in R
    BY DEF Roles, TableRoles
  <2> QED
    BY <2>1, FlowFields DEF Heap
<1>2. ep[2] \in Ports
  BY DEF EndPoints
<1>3. portRemap[ep] \in Ports \cup {None}
  BY DEF TypeInv
<1> QED
  BY <1>1, <1>2, <1>3 DEF SourcePort

LEMMA EgressFlowStep ==
  ASSUME NEW R \in SUBSET Objs, NEW lv \in Levels, R = Referenced,
         TypeInv, MutexInv, Roles(R, lv), Heap(R, lv),
         NEW t \in Queues, NEW p \in EgressPkts, NEW ep \in LocalEps, EgressFlow(t, p, ep)
  PROVE  IInv'
<1>1. PICK sport : sport = SourcePort(p, ep)
  OBVIOUS
<1>2. PICK learn \in BOOLEAN : learn = (IsSubflowSyn(p) \/ LearnsToken(p))
  BY Zenon DEF IsSubflowSyn, LearnsToken
<1>3. PICK known : known = IF IsSubflowSyn(p) /\ tokenMap # None THEN tokenMap ELSE flows[sport]
  OBVIOUS
<1>4. ep \in EndPoints
  BY ScitraFlowsAssumption
<1>5. sport \in Ports
  BY <1>1, <1>4, SourcePortType
<1>6. known \in R \cup {None} /\ (known # None => lv[known] <= 1)
  BY <1>3, <1>5 DEF Roles, TableRoles
<1>7. ui = None /\ maint.pc = "ready"
  BY Free DEF EgressFlow
<1>8. /\ packets < MaxPackets /\ packets' = packets + 1
      /\ UNCHANGED <<flowMutex, ingress, maint, ui>>
      /\ portRemap' = IF IsSubflowSyn(p) /\ tokenMap # None
                      THEN [portRemap EXCEPT ![ep] = sport] ELSE portRemap
  BY <1>1 DEF EgressFlow
<1>9. portRemap' \in [EndPoints -> Ports \cup {None}]
  BY <1>4, <1>5, <1>8 DEF TypeInv
<1>10. packets' \in 0 .. MaxPackets
  BY <1>8, ScitraFlowsAssumption DEF TypeInv
<1>11. PICK o \in Objs :
         /\ IF known # None THEN o = known ELSE Unreferenced(o)
         /\ obj' = [obj EXCEPT ![o] =
              [(IF known # None THEN obj[o] ELSE NewFlow(ep, "Active", FALSE, FALSE))
                 EXCEPT !.token = @ \/ learn]]
         /\ flows' = IF known # None THEN flows ELSE [flows EXCEPT ![sport] = o]
         /\ tokenMap' = IF learn THEN o ELSE tokenMap
         /\ egress' = [egress EXCEPT ![t] =
              [pc |-> "sub", pkt |-> p, ep |-> ep, sport |-> sport, flow |-> o,
               lead |-> None, path |-> NoPath]]
  BY <1>1, <1>2, <1>3, Zenon DEF EgressFlow
<1>12. PICK f : f = IF known # None THEN obj[o] ELSE NewFlow(ep, "Active", FALSE, FALSE)
  OBVIOUS
<1>13. PICK g : g = [f EXCEPT !.token = @ \/ learn]
  OBVIOUS
<1>14. obj' = [obj EXCEPT ![o] = g]
  BY <1>11, <1>12, <1>13, Zenon
<1>15. f \in Flow /\ (known = None => f.subflows = << >>)
  <2>1. NewFlow(ep, "Active", FALSE, FALSE) \in Flow
    BY <1>4, NewFlowType
  <2>2. NewFlow(ep, "Active", FALSE, FALSE).subflows = << >>
    BY <1>4, NewFlowType
  <2>3. known # None => obj[o] \in Flow
    BY <1>6, <1>11 DEF Heap
  <2> QED
    BY <1>12, <2>1, <2>2, <2>3
<1>16. Alike(f, g)
  <2>1. (f.token \/ learn) \in BOOLEAN
    BY Zenon
  <2> QED
    BY <1>13, <1>15, <2>1, AlikeToken
<1>17. \E T \in SUBSET Objs, lw \in Levels :
         /\ R \subseteq T /\ (\A x \in R : lw[x] = lv[x])
         /\ o \in T /\ lw[o] <= 1
         /\ known = None => lw[o] = 0
         /\ obj' \in [Objs -> Flow \cup {None}]
         /\ Heap(T, lw)'
  <2>1. CASE known # None
    <3>1. o \in R /\ lv[o] <= 1 /\ f = obj[o]
      BY <1>6, <1>11, <1>12, <2>1
    <3>2. obj' \in [Objs -> Flow \cup {None}] /\ Heap(R, lv)'
      BY <1>14, <1>16, <3>1, OneAlike
    <3> QED
      BY <2>1, <3>1, <3>2
  <2>2. CASE known = None
    <3>1. o \notin R
      BY <1>11, <2>2 DEF Unreferenced
    <3>2. g \in Flow /\ g.subflows = << >>
      BY <1>15, <1>16, <2>2 DEF Alike
    <3>3. PICK lw : lw = [lv EXCEPT ![o] = 0]
      OBVIOUS
    <3>4. /\ obj' \in [Objs -> Flow \cup {None}]
          /\ lw \in Levels
          /\ Heap(R \cup {o}, lw)'
      BY <1>14, <3>1, <3>2, <3>3, NewLead
    <3>5. lw[o] = 0 /\ \A x \in R : lw[x] = lv[x]
      BY <3>1, <3>3 DEF Levels
    <3>6. PICK T \in SUBSET Objs : T = R \cup {o}
      OBVIOUS
    <3> QED
      BY <3>4, <3>5, <3>6
  <2> QED
    BY <2>1, <2>2
<1>18. PICK T \in SUBSET Objs, lw \in Levels :
         /\ R \subseteq T /\ (\A x \in R : lw[x] = lv[x])
         /\ o \in T /\ lw[o] <= 1
         /\ known = None => lw[o] = 0
         /\ obj' \in [Objs -> Flow \cup {None}]
         /\ Heap(T, lw)'
  BY <1>17
<1>19. TableRoles(T, lw) /\ EgressRoles(T, lw) /\ IngressRoles(T, lw)
  BY <1>18, Widen DEF Roles
<1>20. TypeInv'
  BY <1>8, <1>9, <1>10, <1>18 DEF TypeInv
<1>21. MutexInv'
  BY <1>7, <1>8 DEF MutexInv
<1>22. TableRoles(T, lw)'
  <2>1. flows' \in [Ports -> T \cup {None}]
    BY <1>5, <1>11, <1>18, <1>19 DEF TableRoles
  <2>2. \A q \in Ports : flows'[q] # None => lw[flows'[q]] = 0
    BY <1>5, <1>11, <1>18, <1>19 DEF TableRoles
  <2>3. tokenMap' \in T \cup {None} /\ (tokenMap' # None => lw[tokenMap'] <= 1)
    BY <1>11, <1>18, <1>19 DEF TableRoles
  <2> QED
    BY <1>7, <1>8, <2>1, <2>2, <2>3 DEF TableRoles
<1>23. EgressRoles(T, lw)'
  <2>1. PICK e : e = [pc |-> "sub", pkt |-> p, ep |-> ep, sport |-> sport, flow |-> o,
                      lead |-> None, path |-> NoPath]
    OBVIOUS
  <2>2. EgressOK(e, T, lw)
    BY <1>4, <1>5, <1>18, <2>1 DEF EgressOK, Egress
  <2>3. egress' = [egress EXCEPT ![t] = e]
    BY <1>11, <2>1
  <2> QED
    BY <1>19, <2>2, <2>3, EgressGoes
<1>24. IngressRoles(T, lw)'
  BY <1>8, <1>19 DEF IngressRoles
<1> QED
  BY <1>20, <1>21, <1>22, <1>23, <1>24, <1>18, Conclude

-----------------------------------------------------------------------------
(***************************************************************************)
(* The actions of an ingress coroutine                                     *)
(***************************************************************************)
LEMMA AfterLookupRange ==
  ASSUME NEW p
  PROVE  AfterLookup(p) \in {"token", "update"}
BY DEF AfterLookup

LEMMA IngressFields ==
  ASSUME NEW R, NEW lv, NEW i, IngressOK(i, R, lv), i.pc # "ready"
  PROVE  /\ i \in Ingress /\ i # Ready
         /\ i.pkt \in IngressPkts /\ i.path \in Paths
         /\ i.pc # "create" => i.flow \in R
         /\ i.pc = "bypath" => lv[i.flow] = 0
         /\ i.pc = "token" => lv[i.flow] <= 1
BY DEF IngressOK, Ingress, Ready

\* The lookup has found the flow o.
LEMMA IngressContinue ==
  ASSUME NEW R \in SUBSET Objs, NEW lv, NEW i \in Ingress, i.pc # "ready",
         NEW pc \in {"token", "update"}, NEW o \in R, lv[o] <= 1 \/ pc = "update"
  PROVE  IngressOK([i EXCEPT !.pc = pc, !.flow = o], R, lv)
<1>1. i # Ready
  BY DEF Ready
<1>2. PICK w : w = [i EXCEPT !.pc = pc, !.flow = o]
  OBVIOUS
<1>3. w \in Ingress /\ w.pc = pc /\ w.flow = o
  BY <1>1, <1>2 DEF Ingress
<1> QED
  BY <1>2, <1>3 DEF IngressOK

LEMMA IngressFindStep ==
  ASSUME NEW R \in SUBSET Objs, NEW lv \in Levels,
         TypeInv, MutexInv, Roles(R, lv), Heap(R, lv),
         NEW q \in Ports, NEW p \in IngressPkts, NEW path \in Paths, IngressFind(q, p, path)
  PROVE  IInv'
<1>1. PICK o : o = flows[q]
  OBVIOUS
<1>2. o \in R \cup {None} /\ (o # None => lv[o] = 0)
  BY <1>1 DEF Roles, TableRoles
<1>3. PICK pc \in {"create", "bypath", "token", "update"} :
        /\ pc = IF o = None THEN "create"
                ELSE IF obj[o].multipath THEN "bypath" ELSE AfterLookup(p)
        /\ pc = "create" => o = None
        /\ pc # "create" => o # None
  BY AfterLookupRange
<1>4. PICK i : i = [pc |-> pc, pkt |-> p, path |-> path, flow |-> o]
  OBVIOUS
<1>5. ingress' = [ingress EXCEPT ![q] = i]
  BY <1>1, <1>3, <1>4, Zenon DEF IngressFind
<1>6. IngressOK(i, R, lv)
  <2>1. i \in Ingress /\ i.pc = pc /\ i.flow = o
    BY <1>2, <1>4 DEF Ingress
  <2> QED
    BY <1>2, <1>3, <2>1 DEF IngressOK
<1>7. /\ packets < MaxPackets /\ packets' = packets + 1
      /\ UNCHANGED <<flows, obj, tokenMap, portRemap, flowMutex, egress, maint, ui>>
  BY DEF IngressFind
<1>8. TypeInv'
  BY <1>7, ScitraFlowsAssumption DEF TypeInv
<1>9. MutexInv'
  BY <1>7 DEF MutexInv
<1>10. TableRoles(R, lv)' /\ EgressRoles(R, lv)'
  BY <1>7 DEF Roles, TableRoles, EgressRoles
<1>11. IngressRoles(R, lv)'
  BY <1>5, <1>6, IngressGoes DEF Roles
<1>12. Heap(R, lv)'
  BY <1>7, SameHeap
<1> QED
  BY <1>8, <1>9, <1>10, <1>11, <1>12, Conclude

LEMMA IngressByPathStep ==
  ASSUME NEW R \in SUBSET Objs, NEW lv \in Levels, R = Referenced,
         TypeInv, MutexInv, Roles(R, lv), Heap(R, lv), NEW q \in Ports, IngressByPath(q)
  PROVE  IInv'
<1>1. PICK i : i = ingress[q]
  OBVIOUS
<1>2. DOMAIN ingress = Ports /\ IngressOK(i, R, lv)
  BY <1>1 DEF Roles, IngressRoles
<1>3. i.pc = "bypath" /\ KeepsTable
  BY <1>1 DEF IngressByPath
<1>4. i \in Ingress /\ i.path \in Paths /\ i.flow \in R /\ lv[i.flow] = 0
  BY <1>2, <1>3, IngressFields
<1>5. PICK o \in R : o = i.flow
  BY <1>4
<1>6. obj[o] \in Flow /\ \A s \in Subflows(o) : s \in R /\ lv[s] = 1
  BY <1>4, <1>5 DEF Heap
<1>7. PICK match : match = {s \in {o} \cup Subflows(o) : obj[s].path = i.path}
  OBVIOUS
<1>8. PICK pc \in {"token", "update"} : pc = AfterLookup(i.pkt)
  BY AfterLookupRange
<1>9. ASSUME NEW T \in SUBSET Objs, NEW lw \in Levels, R \subseteq T, \A x \in R : lw[x] = lv[x],
             obj' \in [Objs -> Flow \cup {None}], Heap(T, lw)',
             NEW s \in T, lw[s] <= 1, Continue(q, pc, s) \/ Finish(q)
      PROVE  IInv'
  <2>1. CASE Continue(q, pc, s)
    <3>1. PICK w : w = [i EXCEPT !.pc = pc, !.flow = s]
      OBVIOUS
    <3>2. IngressOK(w, T, lw)
      BY <1>3, <1>4, <1>9, <3>1, IngressContinue
    <3>3. ingress' = [ingress EXCEPT ![q] = w]
      BY <1>1, <1>2, <2>1, <3>1, TwoFields DEF Continue
    <3> QED
      BY <1>3, <1>9, <3>2, <3>3, IngressMoves
  <2>2. CASE Finish(q)
    <3>1. IngressOK(Ready, T, lw) /\ ingress' = [ingress EXCEPT ![q] = Ready]
      BY <2>2, ReadyOK DEF Finish
    <3> QED
      BY <1>3, <1>9, <3>1, IngressMoves
  <2> QED
    BY <1>9, <2>1, <2>2
<1>10. CASE /\ match # {} /\ UNCHANGED obj
            /\ Continue(q, pc, FirstOf(o, match)) \/ Finish(q)
  <2>1. PICK s : s = FirstOf(o, match)
    OBVIOUS
  <2>2. s \in match
    BY <1>6, <1>7, <1>10, <2>1, FirstOfFinds
  <2>3. s \in R /\ lv[s] <= 1
    BY <1>4, <1>5, <1>6, <1>7, <2>2
  <2>4. obj' \in [Objs -> Flow \cup {None}] /\ Heap(R, lv)'
    BY <1>10, SameHeap
  <2> QED
    BY <1>9, <1>10, <2>1, <2>3, <2>4
<1>11. CASE \E k \in FreeIPs(o), s \in Objs :
              /\ Unreferenced(s)
              /\ obj' = [obj EXCEPT
                   ![s] = NewFlow(<<ExtraIPs[k], obj[o].port>>, "Passive", TRUE, obj[o].token),
                   ![o].subflows = Append(@, s)]
              /\ Continue(q, pc, s) \/ Finish(q)
  <2>1. PICK k \in FreeIPs(o), s \in Objs :
              /\ Unreferenced(s)
              /\ obj' = [obj EXCEPT
                   ![s] = NewFlow(<<ExtraIPs[k], obj[o].port>>, "Passive", TRUE, obj[o].token),
                   ![o].subflows = Append(@, s)]
              /\ Continue(q, pc, s) \/ Finish(q)
    BY <1>11
  <2>2. s \notin R
    BY <2>1 DEF Unreferenced
  <2>3. PICK ep : ep = <<ExtraIPs[k], obj[o].port>>
    OBVIOUS
  <2>4. ep \in EndPoints /\ ep[1] = ExtraIPs[k] /\ ep[2] = obj[o].port
    BY <1>6, <2>1, <2>3, FlowFields DEF EndPoints, IPs, FreeIPs, ToSet
  <2>5. PICK f : f = NewFlow(ep, "Passive", TRUE, obj[o].token)
    OBVIOUS
  <2>6. f \in Flow /\ f.subflows = << >> /\ f.ip = ExtraIPs[k]
    BY <1>6, <2>4, <2>5, FlowFields, NewFlowType
  <2>7. PICK a : a = <<f.ip, f.port>>
    OBVIOUS
  <2>8. Adds(o, s, a)
    <3>1. obj' = [obj EXCEPT ![s] = f, ![o].subflows = Append(@, s)]
      BY <2>1, <2>3, <2>5
    <3> QED
      BY <1>6, <2>2, <2>6, <2>7, <3>1, AddsIt
  <2>9. PICK T \in SUBSET Objs, lw \in Levels :
          /\ R \subseteq T /\ (\A x \in R : lw[x] = lv[x])
          /\ s \in T /\ lw[s] = lv[o] + 1
          /\ Heap(T, lw)'
    <3>1. lv[o] <= 1
      BY <1>4, <1>5
    <3>2. \A x \in Subflows(o) : EndPoint(x) # a
      BY <2>6, <2>7 DEF EndPoint, FreeIPs
    <3> QED
      BY <2>2, <2>8, <3>1, <3>2, NewSubflow
  <2>10. obj' \in [Objs -> Flow \cup {None}]
    BY <2>8 DEF Adds
  <2>11. lw[s] <= 1
    BY <1>4, <1>5, <2>9
  <2>12. Continue(q, pc, s) \/ Finish(q)
    BY <2>1
  <2> QED
    BY <1>9, <2>9, <2>10, <2>11, <2>12
<1>12. CASE /\ Finish(q)
            /\ obj' = IF "SYN" \in i.pkt.flags THEN [obj EXCEPT ![o] = Rejected(@, i.pkt)] ELSE obj
  <2>1. PICK f : f = Rejected(obj[o], i.pkt)
    OBVIOUS
  <2>2. Alike(obj[o], f)
    BY <1>6, <2>1, AlikeRejected
  <2>3. obj' = [obj EXCEPT ![o] = f] \/ UNCHANGED obj
    BY <1>12, <2>1
  <2>4. obj' \in [Objs -> Flow \cup {None}] /\ Heap(R, lv)'
    BY <2>2, <2>3, OneAlike, SameHeap
  <2>5. lv[o] <= 1
    BY <1>4, <1>5
  <2> QED
    BY <1>9, <1>12, <2>4, <2>5
<1> QED
  BY <1>1, <1>5, <1>7, <1>8, <1>10, <1>11, <1>12, Zenon DEF IngressByPath

LEMMA IngressCreateStep ==
  ASSUME NEW R \in SUBSET Objs, NEW lv \in Levels, R = Referenced,
         TypeInv, MutexInv, Roles(R, lv), Heap(R, lv), NEW q \in Ports, IngressCreate(q)
  PROVE  IInv'
<1>1. PICK i : i = ingress[q]
  OBVIOUS
<1>2. DOMAIN ingress = Ports /\ IngressOK(i, R, lv)
  BY <1>1 DEF Roles, IngressRoles
<1>3. /\ i.pc = "create" /\ flowMutex = None
      /\ UNCHANGED <<tokenMap, portRemap, flowMutex, egress, maint, ui, packets>>
  BY <1>1 DEF IngressCreate
<1>4. i \in Ingress
  BY <1>2, <1>3, IngressFields
<1>5. ui = None /\ maint.pc = "ready"
  BY <1>3, Free
<1>6. PICK pc \in {"token", "update"} : pc = AfterLookup(i.pkt)
  BY AfterLookupRange
<1>7. MutexInv'
  BY <1>3, <1>5 DEF MutexInv
<1>8. ASSUME NEW s, Continue(q, pc, s)
      PROVE  ingress' = [ingress EXCEPT ![q] = [i EXCEPT !.pc = pc, !.flow = s]]
  BY <1>1, <1>2, <1>8, TwoFields DEF Continue
<1>9. CASE /\ Finish(q) \/ (flows[q] # None /\ Continue(q, pc, flows[q]))
           /\ UNCHANGED <<flows, obj>>
  <2>1. KeepsTable
    BY <1>3, <1>9 DEF KeepsTable
  <2>2. obj' \in [Objs -> Flow \cup {None}] /\ Heap(R, lv)'
    BY <1>9, SameHeap
  <2>3. CASE Finish(q)
    <3>1. IngressOK(Ready, R, lv) /\ ingress' = [ingress EXCEPT ![q] = Ready]
      BY <2>3, ReadyOK DEF Finish
    <3> QED
      BY <2>1, <2>2, <3>1, IngressMoves
  <2>4. CASE flows[q] # None /\ Continue(q, pc, flows[q])
    <3>1. PICK s \in R : s = flows[q] /\ lv[s] <= 1
      BY <2>4 DEF Roles, TableRoles
    <3>2. PICK w : w = [i EXCEPT !.pc = pc, !.flow = s]
      OBVIOUS
    <3>3. IngressOK(w, R, lv)
      BY <1>3, <1>4, <3>1, <3>2, IngressContinue
    <3>4. ingress' = [ingress EXCEPT ![q] = w]
      BY <1>8, <2>4, <3>1, <3>2
    <3> QED
      BY <2>1, <2>2, <3>3, <3>4, IngressMoves
  <2> QED
    BY <1>9, <2>3, <2>4
<1>10. CASE /\ flows[q] = None
            /\ \E o \in Objs :
                 /\ Unreferenced(o)
                 /\ flows' = [flows EXCEPT ![q] = o]
                 /\ obj' = [obj EXCEPT ![o] = NewFlow(<<TunIP, q>>, "Passive", FALSE, FALSE)]
                 /\ Continue(q, pc, o)
  <2>1. PICK o \in Objs :
                 /\ Unreferenced(o)
                 /\ flows' = [flows EXCEPT ![q] = o]
                 /\ obj' = [obj EXCEPT ![o] = NewFlow(<<TunIP, q>>, "Passive", FALSE, FALSE)]
                 /\ Continue(q, pc, o)
    BY <1>10
  <2>2. o \notin R
    BY <2>1 DEF Unreferenced
  <2>3. PICK f : f = NewFlow(<<TunIP, q>>, "Passive", FALSE, FALSE)
    OBVIOUS
  <2>4. <<TunIP, q>> \in EndPoints
    BY DEF EndPoints, IPs
  <2>5. f \in Flow /\ f.subflows = << >> /\ obj' = [obj EXCEPT ![o] = f]
    BY <2>1, <2>3, <2>4, NewFlowType
  <2>6. PICK lw : lw = [lv EXCEPT ![o] = 0]
    OBVIOUS
  <2>7. PICK T \in SUBSET Objs : T = R \cup {o}
    OBVIOUS
  <2>8. /\ obj' \in [Objs -> Flow \cup {None}]
        /\ lw \in Levels
        /\ Heap(T, lw)'
    BY <2>2, <2>5, <2>6, <2>7, NewLead
  <2>9. lw[o] = 0 /\ o \in T /\ R \subseteq T /\ \A x \in R : lw[x] = lv[x]
    BY <2>2, <2>6, <2>7 DEF Levels
  <2>10. TableRoles(T, lw) /\ EgressRoles(T, lw) /\ IngressRoles(T, lw)
    BY <2>9, Widen DEF Roles
  <2>11. TypeInv'
    BY <1>3, <2>8 DEF TypeInv
  <2>12. TableRoles(T, lw)'
    BY <1>3, <2>1, <2>9, <2>10 DEF TableRoles
  <2>13. EgressRoles(T, lw)'
    BY <1>3, <2>10 DEF EgressRoles
  <2>14. IngressRoles(T, lw)'
    <3>1. PICK w : w = [i EXCEPT !.pc = pc, !.flow = o]
      OBVIOUS
    <3>2. IngressOK(w, T, lw)
      <4>1. o \in T /\ lw[o] <= 1
        BY <2>9
      <4> QED
        BY <1>3, <1>4, <3>1, <4>1, IngressContinue
    <3>3. ingress' = [ingress EXCEPT ![q] = w]
      BY <1>8, <2>1, <3>1
    <3> QED
      BY <2>10, <3>2, <3>3, IngressGoes
  <2> QED
    BY <1>7, <2>8, <2>11, <2>12, <2>13, <2>14, Conclude
<1> QED
  BY <1>1, <1>6, <1>9, <1>10, Zenon DEF IngressCreate

LEMMA IngressTokenStep ==
  ASSUME NEW R \in SUBSET Objs, NEW lv \in Levels,
         TypeInv, MutexInv, Roles(R, lv), Heap(R, lv), NEW q \in Ports, IngressToken(q)
  PROVE  IInv'
<1>1. PICK i : i = ingress[q]
  OBVIOUS
<1>2. DOMAIN ingress = Ports /\ IngressOK(i, R, lv)
  BY <1>1 DEF Roles, IngressRoles
<1>3. /\ i.pc = "token"
      /\ UNCHANGED <<flows, portRemap, flowMutex, egress, maint, ui, packets>>
  BY <1>1 DEF IngressToken
<1>4. i \in Ingress /\ i.flow \in R /\ lv[i.flow] <= 1
  BY <1>2, <1>3, IngressFields
<1>5. PICK o \in R : o = i.flow
  BY <1>4
<1>6. PICK f : f = [obj[o] EXCEPT !.token = TRUE]
  OBVIOUS
<1>7. Alike(obj[o], f)
  BY <1>6, AlikeToken DEF Heap
<1>8. obj' = [obj EXCEPT ![o] = f] /\ tokenMap' = o
  BY <1>1, <1>5, <1>6 DEF IngressToken
<1>9. obj' \in [Objs -> Flow \cup {None}] /\ Heap(R, lv)'
  BY <1>7, <1>8, OneAlike
<1>10. TypeInv'
  BY <1>3, <1>9 DEF TypeInv
<1>11. MutexInv'
  BY <1>3 DEF MutexInv
<1>12. TableRoles(R, lv)'
  BY <1>3, <1>4, <1>5, <1>8 DEF Roles, TableRoles
<1>13. EgressRoles(R, lv)'
  BY <1>3 DEF Roles, EgressRoles
<1>14. IngressRoles(R, lv)'
  <2>1. PICK w : w = [i EXCEPT !.pc = "update", !.flow = o]
    OBVIOUS
  <2>2. IngressOK(w, R, lv)
    BY <1>3, <1>4, <1>5, <2>1, IngressContinue
  <2>3. ingress' = [ingress EXCEPT ![q] = w]
    BY <1>1, <1>2, <1>5, <2>1, TwoFields DEF IngressToken, Continue
  <2> QED
    BY <2>2, <2>3, IngressGoes DEF Roles
<1> QED
  BY <1>9, <1>10, <1>11, <1>12, <1>13, <1>14, Conclude

LEMMA IngressUpdateStep ==
  ASSUME NEW R \in SUBSET Objs, NEW lv \in Levels,
         TypeInv, MutexInv, Roles(R, lv), Heap(R, lv), NEW q \in Ports, IngressUpdate(q)
  PROVE  IInv'
<1>1. PICK i : i = ingress[q]
  OBVIOUS
<1>2. IngressOK(i, R, lv)
  BY <1>1 DEF Roles, IngressRoles
<1>3. i.pc = "update" /\ KeepsTable
  BY <1>1 DEF IngressUpdate
<1>4. i.flow \in R /\ i.path \in Paths
  BY <1>2, <1>3, IngressFields
<1>5. PICK o \in R : o = i.flow
  BY <1>4
<1>6. PICK g : g = Received(obj[o], i.pkt)
  OBVIOUS
<1>7. Alike(obj[o], g)
  BY <1>6, AlikeSent DEF Heap
<1>8. PICK p : p = PassivePath(g, i.path)
  OBVIOUS
<1>9. p \in Paths \cup {NoPath}
  <2>1. g.path \in Paths \cup {NoPath}
    BY <1>7, FlowFields DEF Alike
  <2> QED
    BY <1>4, <1>8, <2>1 DEF PassivePath
<1>10. PICK f : f = [g EXCEPT !.path = p]
  OBVIOUS
<1>11. Alike(obj[o], f)
  BY <1>7, <1>9, <1>10, AlikePath, AlikeTwice DEF Alike
<1>12. obj' = [obj EXCEPT ![o] = f]
  BY <1>1, <1>5, <1>6, <1>8, <1>10 DEF IngressUpdate
<1>13. obj' \in [Objs -> Flow \cup {None}] /\ Heap(R, lv)'
  BY <1>11, <1>12, OneAlike
<1>14. IngressOK(Ready, R, lv) /\ ingress' = [ingress EXCEPT ![q] = Ready]
  BY ReadyOK DEF IngressUpdate, Finish
<1> QED
  BY <1>3, <1>13, <1>14, IngressMoves

-----------------------------------------------------------------------------
(***************************************************************************)
(* Maintenance, time and the user interface                                *)
(***************************************************************************)

\* Roles stay when neither a thread nor the table changes.
LEMMA SameRoles ==
  ASSUME NEW R, NEW lv, Roles(R, lv), UNCHANGED <<flows, tokenMap, ui, egress, ingress>>
  PROVE  TableRoles(R, lv)' /\ EgressRoles(R, lv)' /\ IngressRoles(R, lv)'
<1>1. TableRoles(R, lv)'
  BY DEF Roles, TableRoles
<1>2. EgressRoles(R, lv)'
  BY DEF Roles, EgressRoles
<1>3. IngressRoles(R, lv)'
  BY DEF Roles, IngressRoles
<1> QED
  BY <1>1, <1>2, <1>3

LEMMA MaintBeginStep ==
  ASSUME NEW R \in SUBSET Objs, NEW lv \in Levels,
         TypeInv, MutexInv, Roles(R, lv), Heap(R, lv), MaintBegin
  PROVE  IInv'
<1>1. /\ maint = Rest /\ flowMutex = None /\ flowMutex' = Maint
      /\ maint' = [maint EXCEPT !.pc = "subflows", !.todo = {q \in Ports : flows[q] # None}]
      /\ UNCHANGED <<flows, obj, tokenMap, portRemap, egress, ingress, ui, packets>>
  BY DEF MaintBegin
<1>2. /\ maint'.pc = "subflows" /\ maint'.port = None
      /\ maint'.todo = {q \in Ports : flows[q] # None}
      /\ maint' \in [pc: {"ready", "subflows", "lead"}, todo: SUBSET Ports, port: Ports \cup {None}]
  BY <1>1 DEF Rest
<1>3. TypeInv'
  BY <1>1, <1>2 DEF TypeInv
<1>4. MutexInv'
  BY <1>1, <1>2, Free DEF MutexInv
<1>5. Heap(R, lv)'
  BY <1>1, SameHeap
<1> QED
  BY <1>1, <1>3, <1>4, <1>5, SameRoles, Conclude

LEMMA MaintSubflowsStep ==
  ASSUME NEW R \in SUBSET Objs, NEW lv \in Levels,
         TypeInv, MutexInv, Roles(R, lv), Heap(R, lv), NEW q \in Ports, MaintSubflows(q)
  PROVE  IInv'
<1>1. PICK o : o = flows[q]
  OBVIOUS
<1>2. /\ maint.pc = "subflows" /\ q \in maint.todo
      /\ maint' = [pc |-> "lead", todo |-> maint.todo \ {q}, port |-> q]
      /\ UNCHANGED <<flows, tokenMap, flowMutex, egress, ingress, ui, packets>>
  BY DEF MaintSubflows
<1>3. o # None /\ flowMutex = Maint /\ \A r \in maint.todo : flows[r] # None
  BY <1>1, <1>2 DEF MutexInv
<1>4. o \in R
  BY <1>1, <1>3 DEF Roles, TableRoles
<1>5. obj[o] \in Flow /\ \A s \in Subflows(o) : s \in R /\ s # o
  <2>1. \A s \in Subflows(o) : s \in R /\ lv[s] = lv[o] + 1
    BY <1>4 DEF Heap
  <2>2. lv[o] \in 0 .. 2
    BY <1>4 DEF Levels
  <2> QED
    BY <1>4, <2>1, <2>2 DEF Heap
<1>6. PICK closed : closed = {s \in Subflows(o) : obj[s].state = "CLOSED"}
  OBVIOUS
<1>7. PICK gone : gone = {EndPoint(s) : s \in closed}
  OBVIOUS
<1>8. /\ maint' \in [pc: {"ready", "subflows", "lead"}, todo: SUBSET Ports, port: Ports \cup {None}]
      /\ maint'.pc = "lead" /\ maint'.todo = maint.todo \ {q} /\ maint'.port = q
  BY <1>2 DEF TypeInv
<1>9. MutexInv'
  BY <1>1, <1>2, <1>3, <1>8 DEF MutexInv
<1>10. CASE UNCHANGED <<obj, portRemap>>
  <2>1. TypeInv'
    BY <1>2, <1>8, <1>10 DEF TypeInv
  <2>2. Heap(R, lv)'
    BY <1>10, SameHeap
  <2> QED
    BY <1>2, <1>9, <2>1, <2>2, SameRoles, Conclude
<1>11. CASE /\ obj' = [s \in Objs |->
                  IF s \in Subflows(o) THEN Ticked(obj[s])
                  ELSE IF s = o
                    THEN [obj[o] EXCEPT !.subflows = Without(@, closed)]
                    ELSE obj[s]]
            /\ portRemap' = [e \in EndPoints |-> IF e \in gone THEN None ELSE portRemap[e]]
  <2>1. portRemap' \in [EndPoints -> Ports \cup {None}]
    BY <1>11 DEF TypeInv
  <2>2. PICK l \in Seq(Objs) : l = obj[o].subflows
    BY <1>5, FlowFields
  <2>3. PICK m \in Seq(Objs) : m = Without(l, closed)
    BY WithoutPicks
  <2>4. PICK g : g = [obj[o] EXCEPT !.subflows = m]
    OBVIOUS
  <2>5. g \in Flow /\ g.ip = obj[o].ip /\ g.port = obj[o].port /\ g.subflows = m
    BY <1>5, <2>4 DEF Flow
  <2>6. obj'[o] = g
    BY <1>4, <1>5, <1>11, <2>2, <2>3, <2>4
  <2>7. \A s \in Subflows(o) : obj'[s] = Ticked(obj[s]) /\ Alike(obj[s], Ticked(obj[s]))
    <3>1. \A s \in Subflows(o) : obj[s] \in Flow
      BY <1>5 DEF Heap
    <3> QED
      BY <1>5, <1>11, <3>1, AlikeTicked
  <2>8. \A s \in Objs : s # o /\ s \notin Subflows(o) => obj'[s] = obj[s]
    BY <1>11
  <2>9. \A s \in R \ {o} : obj'[s] = obj[s] \/ Alike(obj[s], obj'[s])
    BY <2>7, <2>8
  <2>10. Picks(m, l)
    BY <2>3, WithoutPicks
  <2>11. Picks(g.subflows, obj[o].subflows)
    BY <2>2, <2>5, <2>10
  <2>12. Heap(R, lv)'
    BY <1>4, <2>5, <2>6, <2>9, <2>11, FewerSubflows
  <2>13. obj' \in [Objs -> Flow \cup {None}]
    <3>1. \A s \in Objs : obj'[s] \in Flow \cup {None}
      BY <2>5, <2>6, <2>7, <2>8 DEF Alike, TypeInv
    <3>2. obj' = [s \in Objs |-> obj'[s]]
      BY <1>11
    <3> QED
      BY <3>1, <3>2
  <2>14. TypeInv'
    BY <1>2, <1>8, <2>1, <2>13 DEF TypeInv
  <2> QED
    BY <1>2, <1>9, <2>12, <2>14, SameRoles, Conclude
<1> QED
  BY <1>1, <1>6, <1>7, <1>10, <1>11, Zenon DEF MaintSubflows

LEMMA MaintLeadStep ==
  ASSUME NEW R \in SUBSET Objs, NEW lv \in Levels,
         TypeInv, MutexInv, Roles(R, lv), Heap(R, lv), MaintLead
  PROVE  IInv'
<1>1. PICK q : q = maint.port
  OBVIOUS
<1>2. PICK o : o = flows[q]
  OBVIOUS
<1>3. /\ maint.pc = "lead" /\ maint' = [maint EXCEPT !.pc = "subflows", !.port = None]
      /\ UNCHANGED <<portRemap, flowMutex, egress, ingress, ui, packets>>
  BY DEF MaintLead
<1>4. /\ q \in Ports /\ q \notin maint.todo /\ o # None /\ flowMutex = Maint
      /\ \A r \in maint.todo : flows[r] # None
  BY <1>1, <1>2, <1>3 DEF MutexInv
<1>5. o \in R
  BY <1>2, <1>4 DEF Roles, TableRoles
<1>6. /\ flows' = flows \/ flows' = [flows EXCEPT ![q] = None]
      /\ tokenMap' = tokenMap \/ tokenMap' = None
  BY <1>1 DEF MaintLead
<1>7. /\ maint' \in [pc: {"ready", "subflows", "lead"}, todo: SUBSET Ports, port: Ports \cup {None}]
      /\ maint'.pc = "subflows" /\ maint'.todo = maint.todo
  BY <1>3 DEF TypeInv
<1>8. PICK f : f = Ticked(obj[o])
  OBVIOUS
<1>9. Alike(obj[o], f)
  BY <1>5, <1>8, AlikeTicked DEF Heap
<1>10. obj' = [obj EXCEPT ![o] = f]
  BY <1>1, <1>2, <1>8 DEF MaintLead
<1>11. obj' \in [Objs -> Flow \cup {None}] /\ Heap(R, lv)'
  BY <1>5, <1>9, <1>10, OneAlike
<1>12. TypeInv'
  BY <1>3, <1>7, <1>11 DEF TypeInv
<1>13. flows \in [Ports -> R \cup {None}] /\ maint.todo \subseteq Ports
  BY DEF Roles, TableRoles, TypeInv
<1>14. MutexInv'
  <2>1. \A r \in maint.todo : flows'[r] # None
    BY <1>4, <1>6, <1>13
  <2>2. ui' # None => flowMutex' = Ui
    BY <1>3 DEF MutexInv
  <2> QED
    BY <1>3, <1>4, <1>7, <2>1, <2>2 DEF MutexInv
<1>15. TableRoles(R, lv)'
  <2>1. flows' \in [Ports -> R \cup {None}]
    BY <1>4, <1>6, <1>13
  <2>2. \A r \in Ports : flows'[r] # None => lv[flows'[r]] = 0
    BY <1>4, <1>6 DEF Roles, TableRoles
  <2>3. tokenMap' \in R \cup {None} /\ (tokenMap' # None => lv[tokenMap'] <= 1)
    BY <1>6 DEF Roles, TableRoles
  <2> QED
    BY <1>3, <2>1, <2>2, <2>3 DEF Roles, TableRoles
<1>16. EgressRoles(R, lv)'
  BY <1>3 DEF Roles, EgressRoles
<1>17. IngressRoles(R, lv)'
  BY <1>3 DEF Roles, IngressRoles
<1> QED
  BY <1>11, <1>12, <1>14, <1>15, <1>16, <1>17, Conclude

LEMMA MaintEndStep ==
  ASSUME NEW R \in SUBSET Objs, NEW lv \in Levels,
         TypeInv, MutexInv, Roles(R, lv), Heap(R, lv), NEW Q \in SUBSET Ports, MaintEnd(Q)
  PROVE  IInv'
<1>1. PICK lead : lead = {flows[q] : q \in Q} \ {None}
  OBVIOUS
<1>2. PICK closed : closed = lead \cup UNION {Subflows(o) : o \in {p \in lead : obj[p].multipath}}
  OBVIOUS
<1>3. /\ maint.pc = "subflows" /\ maint' = Rest /\ flowMutex' = None
      /\ UNCHANGED <<flows, tokenMap, portRemap, egress, ingress, ui, packets>>
  BY DEF MaintEnd
<1>4. obj' = [o \in Objs |-> IF o \in closed THEN [obj[o] EXCEPT !.state = "CLOSED"] ELSE obj[o]]
  BY <1>1, <1>2, Zenon DEF MaintEnd
<1>5. lead \subseteq R
  BY <1>1 DEF Roles, TableRoles
<1>6. closed \subseteq R
  <2>1. \A o \in R : Subflows(o) \subseteq R
    BY DEF Heap
  <2> QED
    BY <1>2, <1>5, <2>1
<1>7. \A o \in R : Alike(obj[o], [obj[o] EXCEPT !.state = "CLOSED"])
  BY AlikeState DEF Heap, FlowStates
<1>8. \A o \in R : obj'[o] = obj[o] \/ Alike(obj[o], obj'[o])
  BY <1>4, <1>7
<1>9. Heap(R, lv)'
  BY <1>8, QuietHeap
<1>10. obj' \in [Objs -> Flow \cup {None}]
  <2>1. \A o \in Objs : obj'[o] \in Flow \cup {None}
    BY <1>4, <1>6, <1>7 DEF Alike, TypeInv
  <2>2. obj' = [o \in Objs |-> obj'[o]]
    BY <1>4
  <2> QED
    BY <2>1, <2>2
<1>11. maint'.pc = "ready" /\ flowMutex = Maint /\ ui = None
  BY <1>3, ScitraFlowsAssumption DEF MutexInv, Rest
<1>12. TypeInv'
  BY <1>3, <1>10 DEF TypeInv, Rest
<1>13. MutexInv'
  BY <1>3, <1>11 DEF MutexInv
<1> QED
  BY <1>3, <1>9, <1>12, <1>13, SameRoles, Conclude

LEMMA GrowOldStep ==
  ASSUME NEW R \in SUBSET Objs, NEW lv \in Levels, R = Referenced,
         TypeInv, MutexInv, Roles(R, lv), Heap(R, lv), GrowOld
  PROVE  IInv'
<1>1. /\ obj' = [o \in Objs |-> IF o \in R THEN [obj[o] EXCEPT !.unused = TRUE] ELSE obj[o]]
      /\ UNCHANGED <<flows, tokenMap, portRemap, flowMutex, egress, ingress, maint, ui, packets>>
  BY Zenon DEF GrowOld
<1>2. \A o \in R : Alike(obj[o], [obj[o] EXCEPT !.unused = TRUE])
  BY AlikeUnused DEF Heap
<1>3. \A o \in R : obj'[o] = obj[o] \/ Alike(obj[o], obj'[o])
  BY <1>1, <1>2
<1>4. Heap(R, lv)'
  BY <1>3, QuietHeap
<1>5. obj' \in [Objs -> Flow \cup {None}]
  <2>1. \A o \in Objs : obj'[o] \in Flow \cup {None}
    BY <1>1, <1>2 DEF Alike, TypeInv
  <2>2. obj' = [o \in Objs |-> obj'[o]]
    BY <1>1
  <2> QED
    BY <2>1, <2>2
<1>6. TypeInv'
  BY <1>1, <1>5 DEF TypeInv
<1>7. MutexInv'
  BY <1>1 DEF MutexInv
<1> QED
  BY <1>1, <1>4, <1>6, <1>7, SameRoles, Conclude

LEMMA UiCheckStep ==
  ASSUME NEW R \in SUBSET Objs, NEW lv \in Levels,
         TypeInv, MutexInv, Roles(R, lv), Heap(R, lv), NEW q \in Ports, UiCheck(q)
  PROVE  IInv'
<1>1. /\ flowMutex = None /\ flowMutex' = Ui /\ packets < MaxPackets /\ packets' = packets + 1
      /\ flows[q] # None /\ ui' = flows[q]
      /\ UNCHANGED <<flows, obj, tokenMap, portRemap, egress, ingress, maint>>
  BY DEF UiCheck
<1>2. TypeInv'
  BY <1>1, ScitraFlowsAssumption DEF TypeInv
<1>3. MutexInv'
  BY <1>1, Free DEF MutexInv
<1>4. TableRoles(R, lv)'
  BY <1>1 DEF Roles, TableRoles
<1>5. EgressRoles(R, lv)' /\ IngressRoles(R, lv)'
  BY <1>1 DEF Roles, EgressRoles, IngressRoles
<1>6. Heap(R, lv)'
  BY <1>1, SameHeap
<1> QED
  BY <1>2, <1>3, <1>4, <1>5, <1>6, Conclude

LEMMA UiSetPathStep ==
  ASSUME NEW R \in SUBSET Objs, NEW lv \in Levels,
         TypeInv, MutexInv, Roles(R, lv), Heap(R, lv), NEW p \in Paths, UiSetPath(p)
  PROVE  IInv'
<1>1. /\ ui # None /\ ui' = None /\ flowMutex' = None
      /\ UNCHANGED <<flows, tokenMap, portRemap, egress, ingress, maint, packets>>
  BY DEF UiSetPath
<1>2. PICK o \in R : o = ui
  BY <1>1 DEF Roles, TableRoles
<1>3. PICK f : f = [obj[o] EXCEPT !.path = p]
  OBVIOUS
<1>4. Alike(obj[o], f)
  BY <1>3, AlikePath DEF Heap
<1>5. obj' = [obj EXCEPT ![o] = f]
  BY <1>2, <1>3 DEF UiSetPath
<1>6. obj' \in [Objs -> Flow \cup {None}] /\ Heap(R, lv)'
  BY <1>4, <1>5, OneAlike
<1>7. maint.pc = "ready"
  BY <1>1, ScitraFlowsAssumption DEF MutexInv
<1>8. TypeInv'
  BY <1>1, <1>6 DEF TypeInv
<1>9. MutexInv'
  BY <1>1, <1>7 DEF MutexInv
<1>10. TableRoles(R, lv)'
  BY <1>1 DEF Roles, TableRoles
<1>11. EgressRoles(R, lv)' /\ IngressRoles(R, lv)'
  BY <1>1 DEF Roles, EgressRoles, IngressRoles
<1> QED
  BY <1>6, <1>8, <1>9, <1>10, <1>11, Conclude

LEMMA UiRemoveStep ==
  ASSUME NEW R \in SUBSET Objs, NEW lv \in Levels,
         TypeInv, MutexInv, Roles(R, lv), Heap(R, lv), NEW q \in Ports, UiRemove(q)
  PROVE  IInv'
<1>1. /\ flowMutex = None /\ packets < MaxPackets /\ packets' = packets + 1
      /\ flows' = [flows EXCEPT ![q] = None]
      /\ UNCHANGED <<obj, tokenMap, portRemap, flowMutex, egress, ingress, maint, ui>>
  BY DEF UiRemove
<1>2. TypeInv'
  BY <1>1, ScitraFlowsAssumption DEF TypeInv
<1>3. MutexInv'
  BY <1>1, Free DEF MutexInv
<1>4. TableRoles(R, lv)'
  <2>1. flows \in [Ports -> R \cup {None}]
    BY DEF Roles, TableRoles
  <2>2. flows' \in [Ports -> R \cup {None}]
    BY <1>1, <2>1
  <2>3. \A r \in Ports : flows'[r] # None => lv[flows'[r]] = 0
    BY <1>1, <2>1 DEF Roles, TableRoles
  <2> QED
    BY <1>1, <2>2, <2>3 DEF Roles, TableRoles
<1>5. EgressRoles(R, lv)' /\ IngressRoles(R, lv)'
  BY <1>1 DEF Roles, EgressRoles, IngressRoles
<1>6. Heap(R, lv)'
  BY <1>1, SameHeap
<1> QED
  BY <1>2, <1>3, <1>4, <1>5, <1>6, Conclude

-----------------------------------------------------------------------------
(***************************************************************************)
(* The invariant                                                           *)
(***************************************************************************)
LEMMA InitIInv == Init => IInv
<1> SUFFICES ASSUME Init
             PROVE  IInv
  OBVIOUS
<1>1. TypeInv
  BY ScitraFlowsAssumption DEF Init, TypeInv, Rest
<1>2. MutexInv
  BY DEF Init, MutexInv, Rest
<1>3. PICK lv : lv = [o \in Objs |-> 0]
  OBVIOUS
<1>4. lv \in Levels
  BY <1>3 DEF Levels
<1>5. TableRoles({}, lv)
  BY DEF Init, TableRoles
<1>6. EgressRoles({}, lv) /\ IngressRoles({}, lv)
  BY ReadyOK DEF Init, EgressRoles, IngressRoles, Egress, Ingress
<1>7. Heap({}, lv)
  BY DEF Heap, OneParent
<1>8. {} \in SUBSET Objs
  OBVIOUS
<1> QED
  BY <1>1, <1>2, <1>4, <1>5, <1>6, <1>7, <1>8, Zenon DEF IInv, Roles

LEMMA StepIInv == IInv /\ [Next]_vars => IInv'
<1> SUFFICES ASSUME IInv, [Next]_vars
             PROVE  IInv'
  OBVIOUS
<1>1. TypeInv /\ MutexInv
  BY DEF IInv
<1>2. PICK R \in SUBSET Objs, lv \in Levels :
        R = Referenced /\ Roles(R, lv) /\ Heap(R, lv)
  BY Narrow DEF IInv
<1>3. CASE Start
  <2>1. CASE \E t \in Queues, p \in EgressPkts, ep \in LocalEps : EgressFlow(t, p, ep)
    BY <1>1, <1>2, <2>1, EgressFlowStep
  <2>2. CASE \E q \in Ports, p \in IngressPkts, path \in Paths : IngressFind(q, p, path)
    BY <1>1, <1>2, <2>2, IngressFindStep
  <2>3. CASE MaintBegin
    BY <1>1, <1>2, <2>3, MaintBeginStep
  <2>4. CASE \E q \in Ports : UiCheck(q) \/ UiRemove(q)
    BY <1>1, <1>2, <2>4, UiCheckStep, UiRemoveStep
  <2>5. CASE GrowOld
    BY <1>1, <1>2, <2>5, GrowOldStep
  <2> QED
    BY <1>3, <2>1, <2>2, <2>3, <2>4, <2>5 DEF Start
<1>4. ASSUME NEW t \in Queues, EgressStep(t)
      PROVE  IInv'
  <2>1. CASE EgressSubflow(t)
    BY <1>1, <1>2, <2>1, EgressSubflowStep
  <2>2. CASE EgressGetPath(t) \/ EgressSelect(t) \/ EgressFindLead(t) \/ EgressSelectMulti(t)
    BY <1>1, <1>2, <2>2, EgressDecides
  <2>3. CASE EgressSetPath(t)
    BY <1>1, <1>2, <2>3, EgressSetPathStep
  <2>4. CASE EgressSend(t)
    BY <1>1, <1>2, <2>4, EgressSendStep
  <2> QED
    BY <1>4, <2>1, <2>2, <2>3, <2>4 DEF EgressStep
<1>5. ASSUME NEW q \in Ports, IngressStep(q)
      PROVE  IInv'
  <2>1. CASE IngressByPath(q)
    BY <1>1, <1>2, <2>1, IngressByPathStep
  <2>2. CASE IngressCreate(q)
    BY <1>1, <1>2, <2>2, IngressCreateStep
  <2>3. CASE IngressToken(q)
    BY <1>1, <1>2, <2>3, IngressTokenStep
  <2>4. CASE IngressUpdate(q)
    BY <1>1, <1>2, <2>4, IngressUpdateStep
  <2> QED
    BY <1>5, <2>1, <2>2, <2>3, <2>4 DEF IngressStep
<1>6. CASE Maintenance
  <2>1. CASE \E q \in Ports : MaintSubflows(q)
    BY <1>1, <1>2, <2>1, MaintSubflowsStep
  <2>2. CASE MaintLead
    BY <1>1, <1>2, <2>2, MaintLeadStep
  <2>3. CASE \E Q \in (IF Reaping THEN SUBSET Ports ELSE {{}}) : MaintEnd(Q)
    <3>1. PICK Q \in SUBSET Ports : MaintEnd(Q)
      BY <2>3
    <3> QED
      BY <1>1, <1>2, <3>1, MaintEndStep
  <2> QED
    BY <1>6, <2>1, <2>2, <2>3 DEF Maintenance
<1>7. CASE \E p \in Paths : UiSetPath(p)
  BY <1>1, <1>2, <1>7, UiSetPathStep
<1>8. CASE UNCHANGED vars
  <2>1. TypeInv' /\ MutexInv'
    BY <1>1, <1>8 DEF TypeInv, MutexInv, vars
  <2>2. UNCHANGED obj /\ UNCHANGED <<flows, tokenMap, ui, egress, ingress>>
    BY <1>8 DEF vars
  <2>3. Heap(R, lv)'
    BY <1>1, <1>2, <2>2, SameHeap
  <2> QED
    BY <1>2, <2>1, <2>2, <2>3, SameRoles, Conclude
<1> QED
  BY <1>3, <1>4, <1>5, <1>6, <1>7, <1>8 DEF Next

LEMMA Invariance == Spec => []IInv
BY InitIInv, StepIInv, PTL DEF Spec

(***************************************************************************)
(* Type correctness: the objects in the flow table are Flows, and the      *)
(* threads work on objects.                                                *)
(***************************************************************************)
THEOREM FlowsTyped == Spec => []TypeOK
<1>1. IInv => TypeOK
  <2> SUFFICES ASSUME IInv
               PROVE  TypeOK
    OBVIOUS
  <2>1. PICK R \in SUBSET Objs, lv \in Levels : Roles(R, lv) /\ Heap(R, lv)
    BY DEF IInv
  <2>2. /\ flows \in [Ports -> Objs \cup {None}]
        /\ tokenMap \in Objs \cup {None} /\ ui \in Objs \cup {None}
    BY <2>1 DEF Roles, TableRoles
  <2>3. \A q \in Ports : flows[q] # None => obj[flows[q]] \in Flow
    BY <2>1 DEF Roles, TableRoles, Heap
  <2>4. egress \in [Queues -> Egress]
    BY <2>1 DEF Roles, EgressRoles
  <2>5. ingress \in [Ports -> Ingress]
    BY <2>1 DEF Roles, IngressRoles
  <2> QED
    BY <2>2, <2>3, <2>4, <2>5 DEF IInv, TypeInv, TypeOK
<1> QED
  BY <1>1, Invariance, PTL

(***************************************************************************)
(* The subflows of a lead flow have different local endpoints, although a  *)
(* new one is chosen (getSubflowByAddr(), getSubflowByPath()) by threads   *)
(* of both directions while maintenance removes others.                    *)
(***************************************************************************)
THEOREM EndpointsDiffer == Spec => []SubflowsDistinct
<1>1. IInv => SubflowsDistinct
  <2> SUFFICES ASSUME IInv, NEW o \in Leads
               PROVE  Distinct(o)
    BY DEF SubflowsDistinct, Distinct
  <2>1. PICK R \in SUBSET Objs, lv \in Levels : Roles(R, lv) /\ Heap(R, lv)
    BY DEF IInv
  <2>2. o \in R
    BY <2>1 DEF Leads, Roles, TableRoles
  <2> QED
    BY <2>1, <2>2 DEF Heap
<1> QED
  BY <1>1, Invariance, PTL

-----------------------------------------------------------------------------
(***************************************************************************)
(* The paths of multipath flows                                            *)
(***************************************************************************)

\* Flow f becomes g, with the path it had, and stays multipath if it was.
Kin(f, g) == g.path = f.path /\ g.type = f.type /\ (f.multipath => g.multipath)

\* It has the same subflows, too.
Twin(f, g) == Kin(f, g) /\ g.subflows = f.subflows

LEMMA TwinFields ==
  ASSUME NEW f \in Flow
  PROVE  /\ Twin(f, f)
         /\ \A s \in FlowStates : Twin(f, [f EXCEPT !.state = s])
         /\ \A b \in BOOLEAN : Twin(f, [f EXCEPT !.token = b])
         /\ \A b \in BOOLEAN : Twin(f, [f EXCEPT !.unused = b])
         /\ \A l \in Seq(Objs) : Kin(f, [f EXCEPT !.subflows = l])
<1>1. Twin(f, f)
  BY DEF Twin, Kin
<1>2. \A s \in FlowStates : Twin(f, [f EXCEPT !.state = s])
  BY DEF Twin, Kin, Flow
<1>3. \A b \in BOOLEAN : Twin(f, [f EXCEPT !.token = b])
  BY DEF Twin, Kin, Flow
<1>4. \A b \in BOOLEAN : Twin(f, [f EXCEPT !.unused = b])
  BY DEF Twin, Kin, Flow
<1>5. \A l \in Seq(Objs) : Kin(f, [f EXCEPT !.subflows = l])
  BY DEF Twin, Kin, Flow
<1> QED
  BY <1>1, <1>2, <1>3, <1>4, <1>5

LEMMA TwinUsed ==
  ASSUME NEW f \in Flow, NEW s \in FlowStates, NEW m \in BOOLEAN, f.multipath => m
  PROVE  Twin(f, [f EXCEPT !.state = s, !.unused = FALSE, !.multipath = m])
BY DEF Twin, Kin, Flow

LEMMA TwinSent ==
  ASSUME NEW f \in Flow, NEW p
  PROVE  Twin(f, Sent(f, p)) /\ Twin(f, Received(f, p))
<1>1. StateEgress(f.state, p) \in FlowStates /\ StateIngress(f.state, p) \in FlowStates
  BY States, FlowFields
<1>2. PICK m \in BOOLEAN : m = (f.multipath \/ MultipathEgress(f.state, p))
  BY Zenon, FlowFields DEF MultipathEgress, ShowsMultipath
<1>3. PICK n \in BOOLEAN : n = (f.multipath \/ MultipathIngress(f.state, p))
  BY Zenon, FlowFields DEF MultipathIngress, ShowsMultipath
<1>4. (f.multipath => m) /\ (f.multipath => n)
  BY <1>2, <1>3, Zenon
<1>5. Twin(f, Sent(f, p))
  BY <1>1, <1>2, <1>4, TwinUsed DEF Sent
<1>6. Twin(f, Received(f, p))
  BY <1>1, <1>3, <1>4, TwinUsed DEF Received
<1> QED
  BY <1>5, <1>6

LEMMA TwinRejected ==
  ASSUME NEW f \in Flow, NEW p
  PROVE  Twin(f, Rejected(f, p))
<1>1. PICK g : g = Received(f, p)
  OBVIOUS
<1>2. g \in Flow /\ Twin(f, g)
  BY <1>1, AlikeSent, TwinSent DEF Alike
<1>3. Twin(g, Sent(g, Reset))
  BY <1>2, TwinSent
<1> QED
  BY <1>1, <1>2, <1>3 DEF Twin, Kin, Rejected

LEMMA TwinTicked ==
  ASSUME NEW f \in Flow
  PROVE  Twin(f, Ticked(f))
<1>1. (f.subflows = << >>) \in BOOLEAN
  OBVIOUS
<1>2. PICK s \in FlowStates : s = StateTick(f.state, f.multipath, f.unused, f.subflows = << >>)
  BY <1>1, FlowFields, States, Zenon
<1> QED
  BY <1>2, TwinFields DEF Ticked

(***************************************************************************)
(* What every step leaves alone                                            *)
(***************************************************************************)

\* The objects in use, after a step that gives no flow another path.
PathsKept == \A o \in Referenced : Kin(obj[o], obj'[o])
TwinsKept == \A o \in Referenced : Twin(obj[o], obj'[o])

\* The objects in use: facts from the invariant.
LEMMA InUse ==
  ASSUME IInv
  PROVE  /\ Referenced \in SUBSET Objs
         /\ \A o \in Referenced : obj[o] \in Flow /\ Subflows(o) \subseteq Referenced
         /\ OneParent(Referenced)
         /\ Leads \subseteq Referenced
         /\ \A o \in Leads, p \in Referenced : o \notin Subflows(p)
         /\ flows \in [Ports -> Referenced \cup {None}]
         /\ tokenMap \in Referenced \cup {None}
         /\ ui \in Referenced \cup {None}
         /\ egress \in [Queues -> Egress]
         /\ \A t \in Queues : egress[t] # Ready => /\ egress[t].flow \in Referenced
                                                  /\ egress[t].sport \in Ports
         /\ ingress \in [Ports -> Ingress]
         /\ \A q \in Ports : ingress[q].pc \notin {"ready", "create"} => ingress[q].flow \in Referenced
         /\ DOMAIN obj = Objs
<1>1. PICK lv \in Levels : Roles(Referenced, lv) /\ Heap(Referenced, lv)
  BY Narrow DEF IInv
<1>2. Referenced \in SUBSET Objs
  BY Narrow DEF IInv
<1>3. /\ \A o \in Referenced : obj[o] \in Flow /\ Subflows(o) \subseteq Referenced
      /\ OneParent(Referenced)
  BY <1>1 DEF Heap
<1>4. /\ flows \in [Ports -> Referenced \cup {None}]
      /\ tokenMap \in Referenced \cup {None}
      /\ ui \in Referenced \cup {None}
      /\ Leads \subseteq Referenced
      /\ \A o \in Leads : lv[o] = 0
  BY <1>1 DEF Roles, TableRoles, Leads
<1>5. \A o \in Leads, p \in Referenced : o \notin Subflows(p)
  <2> SUFFICES ASSUME NEW o \in Leads, NEW p \in Referenced, o \in Subflows(p)
               PROVE  FALSE
    OBVIOUS
  <2>1. lv[o] = 0 /\ lv[o] = lv[p] + 1 /\ lv[p] \in 0 .. 2
    BY <1>1, <1>2, <1>4 DEF Heap, Levels
  <2> QED
    BY <2>1
<1>6. egress \in [Queues -> Egress] /\ ingress \in [Ports -> Ingress] /\ DOMAIN obj = Objs
  BY <1>1 DEF Roles, EgressRoles, IngressRoles, IInv, TypeInv
<1>7. \A t \in Queues : egress[t] # Ready => egress[t].flow \in Referenced /\ egress[t].sport \in Ports
  BY <1>1 DEF Roles, EgressRoles, EgressOK, Egress
<1>8. \A q \in Ports : ingress[q].pc \notin {"ready", "create"} => ingress[q].flow \in Referenced
  BY <1>1 DEF Roles, IngressRoles, IngressOK, Ready
<1> QED
  BY <1>2, <1>3, <1>4, <1>5, <1>6, <1>7, <1>8

-----------------------------------------------------------------------------
\* Only a thread at work takes steps.
LEMMA AtWork ==
  /\ \A t \in Queues : EgressStep(t) => egress[t] # Ready
  /\ \A q \in Ports : IngressStep(q) => ingress[q] # Ready
<1>1. ASSUME NEW t \in Queues, EgressStep(t)
      PROVE  egress[t].pc # "ready"
  BY <1>1 DEF EgressStep, EgressSubflow, EgressGetPath, EgressSelect, EgressFindLead,
              EgressSelectMulti, EgressSetPath, EgressSend
<1>2. ASSUME NEW q \in Ports, IngressStep(q)
      PROVE  ingress[q].pc # "ready"
  BY <1>2 DEF IngressStep, IngressByPath, IngressCreate, IngressToken, IngressUpdate
<1>3. Ready.pc = "ready"
  BY DEF Ready
<1> QED
  BY <1>1, <1>2, <1>3, Zenon

\* A step of one thread changes the progress of no other one.
LEMMA OneMoves ==
  ASSUME IInv
  PROVE  /\ \A t \in Queues : EgressStep(t) =>
              /\ KeepsShared
              /\ \A u \in Queues \ {t} : egress'[u] = egress[u]
         /\ \A q \in Ports : IngressStep(q) =>
              /\ UNCHANGED <<portRemap, flowMutex, egress, maint, ui, packets>>
              /\ \A r \in Ports \ {q} : ingress'[r] = ingress[r]
<1>1. DOMAIN egress = Queues /\ DOMAIN ingress = Ports
  BY InUse
<1>2. ASSUME NEW t \in Queues, EgressStep(t)
      PROVE  KeepsShared /\ \A u \in Queues \ {t} : egress'[u] = egress[u]
  BY <1>1, <1>2 DEF EgressStep, EgressSubflow, EgressGetPath, EgressSelect, EgressFindLead,
                    EgressSelectMulti, EgressSetPath, EgressSend, Goto, Done
<1>3. ASSUME NEW q \in Ports, IngressStep(q)
      PROVE  /\ UNCHANGED <<portRemap, flowMutex, egress, maint, ui, packets>>
             /\ \A r \in Ports \ {q} : ingress'[r] = ingress[r]
  <2>1. CASE IngressByPath(q)
    BY <1>1, <2>1 DEF IngressByPath, KeepsTable, Continue, Finish
  <2>2. CASE IngressCreate(q)
    BY <1>1, <2>2 DEF IngressCreate, Continue, Finish
  <2>3. CASE IngressToken(q)
    BY <1>1, <2>3 DEF IngressToken, Continue
  <2>4. CASE IngressUpdate(q)
    BY <1>1, <2>4 DEF IngressUpdate, KeepsTable, Finish
  <2> QED
    BY <1>3, <2>1, <2>2, <2>3, <2>4 DEF IngressStep
<1> QED
  BY <1>2, <1>3

-----------------------------------------------------------------------------
LEMMA SameTwins == ASSUME IInv, UNCHANGED obj PROVE TwinsKept
BY InUse, TwinFields DEF TwinsKept

LEMMA OneTwin ==
  ASSUME IInv, NEW o \in Objs, NEW f, obj' = [obj EXCEPT ![o] = f],
         o \in Referenced => Twin(obj[o], f)
  PROVE  TwinsKept
<1>1. \A x \in Referenced : obj'[x] = IF x = o THEN f ELSE obj[x]
  BY InUse
<1> QED
  BY <1>1, InUse, TwinFields DEF TwinsKept

LEMMA TwinsFacts ==
  ASSUME TwinsKept
  PROVE  PathsKept /\ \A o \in Referenced : Subflows(o)' = Subflows(o)
BY DEF TwinsKept, PathsKept, Twin, Subflows

\* The multipath flow o gets the new subflow s.
NewIn(o, s) ==
  /\ s \in Objs \ Referenced
  /\ obj'[s].path = NoPath /\ obj'[s].multipath
  /\ PathsKept
  /\ \A p \in Referenced : Subflows(p)' = IF p = o THEN Subflows(o) \cup {s} ELSE Subflows(p)

LEMMA AddedIn ==
  ASSUME IInv, NEW o \in Referenced, NEW s \in Objs, s \notin Referenced, NEW f,
         f.path = NoPath, f.multipath,
         obj' = [obj EXCEPT ![s] = f, ![o].subflows = Append(@, s)]
  PROVE  NewIn(o, s) /\ obj'[s] = f
<1>1. PICK l : l = obj[o].subflows
  OBVIOUS
<1>2. o \in Objs /\ obj[o] \in Flow /\ s # o
  BY InUse
<1>3. l \in Seq(Objs) /\ Append(l, s) \in Seq(Objs)
  BY <1>1, <1>2, FlowFields
<1>4. PICK g : g = [obj[o] EXCEPT !.subflows = Append(l, s)]
  OBVIOUS
<1>5. Kin(obj[o], g) /\ g.subflows = Append(l, s)
  BY <1>2, <1>3, <1>4, TwinFields DEF Flow
<1>6. PICK h : h = [obj EXCEPT ![s] = f]
  OBVIOUS
<1>7. h[s] = f /\ h[o] = obj[o] /\ DOMAIN h = Objs /\ \A x \in Referenced : h[x] = obj[x]
  BY <1>2, <1>6, InUse
<1>8. obj' = [h EXCEPT ![o] = g]
  BY <1>1, <1>4, <1>6, <1>7
<1>9. obj'[s] = f /\ \A x \in Referenced : obj'[x] = IF x = o THEN g ELSE obj[x]
  BY <1>2, <1>7, <1>8, InUse
<1>10. PathsKept
  BY <1>5, <1>9, InUse, TwinFields DEF PathsKept, Twin
<1>11. ToSet(Append(l, s)) = ToSet(l) \cup {s}
  <2>1. /\ Len(l) \in Nat
        /\ DOMAIN l = 1 .. Len(l) /\ DOMAIN Append(l, s) = 1 .. Len(l) + 1
        /\ \A i \in 1 .. Len(l) : Append(l, s)[i] = l[i]
        /\ Append(l, s)[Len(l) + 1] = s
    BY <1>3
  <2>2. ToSet(l) = {l[i] : i \in 1 .. Len(l)}
    BY <2>1 DEF ToSet
  <2>3. ToSet(Append(l, s)) = {Append(l, s)[i] : i \in 1 .. Len(l) + 1}
    BY <2>1 DEF ToSet
  <2>4. \A x : x \in ToSet(Append(l, s)) => x \in ToSet(l) \cup {s}
    BY <2>1, <2>2, <2>3
  <2>5. \A i \in 1 .. Len(l) : i \in 1 .. Len(l) + 1
    BY <2>1
  <2>6. Len(l) + 1 \in 1 .. Len(l) + 1
    BY <2>1
  <2>7. \A x : x \in ToSet(l) \cup {s} => x \in ToSet(Append(l, s))
    BY <2>1, <2>2, <2>3, <2>5, <2>6
  <2> QED
    BY <2>4, <2>7
<1>12. \A p \in Referenced : Subflows(p)' = IF p = o THEN Subflows(o) \cup {s} ELSE Subflows(p)
  <2>1. Subflows(o)' = ToSet(Append(l, s)) /\ Subflows(o) = ToSet(l)
    BY <1>1, <1>5, <1>9 DEF Subflows
  <2>2. \A p \in Referenced : p # o => Subflows(p)' = Subflows(p)
    BY <1>9 DEF Subflows
  <2> QED
    BY <1>11, <2>1, <2>2
<1> QED
  BY <1>9, <1>10, <1>12 DEF NewIn

LEMMA StartTwins == ASSUME IInv, Start PROVE TwinsKept
<1>1. CASE \E t \in Queues, p \in EgressPkts, ep \in LocalEps : EgressFlow(t, p, ep)
  <2>1. PICK t \in Queues, p \in EgressPkts, ep \in LocalEps : EgressFlow(t, p, ep)
    BY <1>1
  <2>2. PICK known : known = IF IsSubflowSyn(p) /\ tokenMap # None THEN tokenMap
                             ELSE flows[SourcePort(p, ep)]
    OBVIOUS
  <2>3. PICK learn \in BOOLEAN : learn = (IsSubflowSyn(p) \/ LearnsToken(p))
    BY Zenon DEF IsSubflowSyn, LearnsToken
  <2>4. PICK o \in Objs :
          /\ IF known # None THEN o = known ELSE Unreferenced(o)
          /\ obj' = [obj EXCEPT ![o] =
               [(IF known # None THEN obj[o] ELSE NewFlow(ep, "Active", FALSE, FALSE))
                  EXCEPT !.token = @ \/ learn]]
    BY <2>1, <2>2, <2>3, Zenon DEF EgressFlow
  <2>5. PICK f : f = IF known # None THEN obj[o] ELSE NewFlow(ep, "Active", FALSE, FALSE)
    OBVIOUS
  <2>6. PICK b \in BOOLEAN : b = (f.token \/ learn)
    BY Zenon
  <2>7. PICK g : g = [f EXCEPT !.token = b]
    OBVIOUS
  <2>8. obj' = [obj EXCEPT ![o] = g]
    BY <2>4, <2>5, <2>6, <2>7, Zenon
  <2>9. o \in Referenced => Twin(obj[o], g)
    <3>1. o \in Referenced => f = obj[o] /\ f \in Flow
      BY <2>4, <2>5, InUse DEF Unreferenced
    <3> QED
      BY <2>7, <3>1, TwinFields
  <2> QED
    BY <2>8, <2>9, OneTwin
<1>2. CASE \/ \E q \in Ports, p \in IngressPkts, path \in Paths : IngressFind(q, p, path)
           \/ MaintBegin
           \/ \E q \in Ports : UiCheck(q) \/ UiRemove(q)
  <2>1. UNCHANGED obj
    BY <1>2 DEF IngressFind, MaintBegin, UiCheck, UiRemove
  <2> QED
    BY <2>1, SameTwins
<1>3. CASE GrowOld
  <2>1. PICK R : R = Referenced
    OBVIOUS
  <2>2. \A o \in R : o \in Objs /\ obj[o] \in Flow
    BY <2>1, InUse
  <2>3. obj' = [o \in Objs |-> IF o \in R THEN [obj[o] EXCEPT !.unused = TRUE] ELSE obj[o]]
    BY <1>3, <2>1, Zenon DEF GrowOld
  <2>4. \A o \in R : obj'[o] = [obj[o] EXCEPT !.unused = TRUE]
    BY <2>2, <2>3
  <2> QED
    BY <2>1, <2>2, <2>4, TwinFields DEF TwinsKept
<1> QED
  BY <1>1, <1>2, <1>3 DEF Start

\* getSubflowByAddr() finds a flow of the family or creates one.
LEMMA EgressSubflowEffect ==
  ASSUME IInv, NEW t \in Queues, EgressSubflow(t)
  PROVE  LET e == egress[t]
             w == egress'[t]
         IN /\ e.flow \in Referenced
            /\ \/ obj' = obj /\ w = [e EXCEPT !.pc = "path"]
               \/ /\ obj' = obj
                  /\ \E s \in Family(e.flow) : w = [e EXCEPT !.pc = "path", !.flow = s]
               \/ /\ obj[e.flow].multipath
                  /\ \E s \in Objs : NewIn(e.flow, s) /\ w = [e EXCEPT !.pc = "path", !.flow = s]
<1>1. DOMAIN egress = Queues /\ egress[t] # Ready /\ egress[t].flow \in Referenced
  BY AtWork, InUse DEF EgressStep
<1>2. PICK e : e = egress[t]
  OBVIOUS
<1>3. PICK w : w = egress'[t]
  OBVIOUS
<1>4. PICK o \in Referenced : o = e.flow /\ obj[o] \in Flow
  BY <1>1, <1>2, InUse
<1>5. PICK match : match = {s \in {o} \cup Subflows(o) : EndPoint(s) = e.ep}
  OBVIOUS
<1>6. ASSUME NEW s, egress' = [egress EXCEPT ![t].pc = "path", ![t].flow = s]
      PROVE  w = [e EXCEPT !.pc = "path", !.flow = s]
  BY <1>1, <1>2, <1>3, <1>6, TwoFields
<1>7. CASE Goto(t, "path") /\ UNCHANGED obj
  <2>1. w = [e EXCEPT !.pc = "path"]
    BY <1>1, <1>2, <1>3, <1>7 DEF Goto
  <2> QED
    BY <1>1, <1>2, <1>3, <1>7, <2>1
<1>8. CASE /\ match # {} /\ UNCHANGED obj
           /\ egress' = [egress EXCEPT ![t].pc = "path", ![t].flow = FirstOf(o, match)]
  <2>1. PICK s : s = FirstOf(o, match)
    OBVIOUS
  <2>2. s \in Family(o)
    <3>1. o \in Objs
      BY <1>4, InUse
    <3>2. match \subseteq {o} \cup Subflows(o) /\ match # {}
      BY <1>5, <1>8
    <3> QED
      BY <1>4, <2>1, <3>1, <3>2, FirstOfFinds DEF Family
  <2>3. w = [e EXCEPT !.pc = "path", !.flow = s]
    BY <1>6, <1>8, <2>1
  <2> QED
    BY <1>1, <1>2, <1>3, <1>4, <1>8, <2>2, <2>3
<1>9. CASE /\ obj[o].multipath
           /\ \E s \in Objs :
                /\ Unreferenced(s)
                /\ obj' = [obj EXCEPT ![s] = NewFlow(e.ep, "Active", TRUE, obj[o].token),
                                      ![o].subflows = Append(@, s)]
                /\ egress' = [egress EXCEPT ![t].pc = "path", ![t].flow = s]
  <2>1. PICK s \in Objs :
          /\ Unreferenced(s)
          /\ obj' = [obj EXCEPT ![s] = NewFlow(e.ep, "Active", TRUE, obj[o].token),
                                ![o].subflows = Append(@, s)]
          /\ egress' = [egress EXCEPT ![t].pc = "path", ![t].flow = s]
    BY <1>9
  <2>2. PICK f : f = NewFlow(e.ep, "Active", TRUE, obj[o].token)
    OBVIOUS
  <2>3. f.path = NoPath /\ f.multipath
    BY <2>2 DEF NewFlow
  <2>4. NewIn(o, s)
    <3>1. s \notin Referenced /\ obj' = [obj EXCEPT ![s] = f, ![o].subflows = Append(@, s)]
      BY <2>1, <2>2 DEF Unreferenced
    <3> QED
      BY <2>3, <3>1, AddedIn
  <2>5. w = [e EXCEPT !.pc = "path", !.flow = s]
    BY <1>6, <2>1
  <2> QED
    BY <1>1, <1>2, <1>3, <1>4, <1>9, <2>4, <2>5
<1> QED
  BY <1>2, <1>4, <1>5, <1>7, <1>8, <1>9 DEF EgressSubflow

LEMMA EgressKin ==
  ASSUME IInv, NEW t \in Queues, EgressStep(t), ~EgressSetPath(t)
  PROVE  \/ TwinsKept
         \/ obj[egress[t].flow].multipath /\ \E s \in Objs : NewIn(egress[t].flow, s)
<1>1. PICK e : e = egress[t]
  OBVIOUS
<1>2. e.flow \in Referenced /\ e.flow \in Objs /\ obj[e.flow] \in Flow
  BY <1>1, AtWork, InUse
<1>3. CASE EgressSubflow(t)
  BY <1>3, EgressSubflowEffect, SameTwins
<1>4. CASE EgressSend(t)
  <2>1. PICK f : f = Sent(obj[e.flow], e.pkt)
    OBVIOUS
  <2>2. Twin(obj[e.flow], f)
    BY <1>2, <2>1, TwinSent
  <2>3. obj' = [obj EXCEPT ![e.flow] = f] \/ UNCHANGED obj
    BY <1>1, <1>4, <2>1 DEF EgressSend
  <2> QED
    BY <1>2, <2>2, <2>3, OneTwin, SameTwins
<1>5. CASE EgressGetPath(t) \/ EgressSelect(t) \/ EgressFindLead(t) \/ EgressSelectMulti(t)
  <2>1. UNCHANGED obj
    BY <1>5 DEF EgressGetPath, EgressSelect, EgressFindLead, EgressSelectMulti
  <2> QED
    BY <2>1, SameTwins
<1> QED
  BY <1>3, <1>4, <1>5 DEF EgressStep

\* getSubflowByPath() finds a flow of the family or creates one.
LEMMA IngressByPathEffect ==
  ASSUME IInv, NEW q \in Ports, IngressByPath(q)
  PROVE  LET i == ingress[q]
             w == ingress'[q]
         IN /\ i.flow \in Referenced /\ flows' = flows
            /\ \/ TwinsKept /\ w = Ready
               \/ /\ obj' = obj
                  /\ \E s \in Family(i.flow) :
                       /\ obj[s].path = i.path
                       /\ w = [i EXCEPT !.pc = AfterLookup(i.pkt), !.flow = s]
               \/ /\ \A s \in Family(i.flow) : obj[s].path # i.path
                  /\ \E s \in Objs :
                       /\ NewIn(i.flow, s) /\ obj'[s].type = "Passive"
                       /\ w \in {Ready, [i EXCEPT !.pc = AfterLookup(i.pkt), !.flow = s]}
<1>1. DOMAIN ingress = Ports /\ ingress[q].pc = "bypath" /\ flows' = flows
  BY InUse DEF IngressByPath, KeepsTable
<1>2. PICK i : i = ingress[q]
  OBVIOUS
<1>3. PICK w : w = ingress'[q]
  OBVIOUS
<1>4. PICK o \in Referenced : o = i.flow /\ o \in Objs /\ obj[o] \in Flow
  BY <1>1, <1>2, InUse
<1>5. PICK match : match = {s \in {o} \cup Subflows(o) : obj[s].path = i.path}
  OBVIOUS
<1>6. PICK pc : pc = AfterLookup(i.pkt)
  OBVIOUS
<1>7. ASSUME NEW s, Continue(q, pc, s)
      PROVE  w = [i EXCEPT !.pc = pc, !.flow = s]
  BY <1>1, <1>2, <1>3, <1>7, TwoFields DEF Continue
<1>8. Finish(q) => w = Ready
  BY <1>1, <1>3 DEF Finish
<1>9. CASE /\ match # {} /\ UNCHANGED obj
           /\ Continue(q, pc, FirstOf(o, match)) \/ Finish(q)
  <2>1. PICK s : s = FirstOf(o, match)
    OBVIOUS
  <2>2. s \in Family(o) /\ obj[s].path = i.path
    <3>1. match \subseteq {o} \cup Subflows(o)
      BY <1>5
    <3>2. s \in match
      BY <1>4, <1>9, <2>1, <3>1, FirstOfFinds
    <3> QED
      BY <1>5, <3>2 DEF Family
  <2>3. w = [i EXCEPT !.pc = pc, !.flow = s] \/ w = Ready
    BY <1>7, <1>8, <1>9, <2>1
  <2>4. TwinsKept
    BY <1>9, SameTwins
  <2> QED
    BY <1>1, <1>2, <1>3, <1>4, <1>6, <1>9, <2>2, <2>3, <2>4
<1>10. CASE /\ match = {}
            /\ \E k \in FreeIPs(o), s \in Objs :
                 /\ Unreferenced(s)
                 /\ obj' = [obj EXCEPT
                      ![s] = NewFlow(<<ExtraIPs[k], obj[o].port>>, "Passive", TRUE, obj[o].token),
                      ![o].subflows = Append(@, s)]
                 /\ Continue(q, pc, s) \/ Finish(q)
  <2>1. PICK k \in FreeIPs(o), s \in Objs :
          /\ Unreferenced(s)
          /\ obj' = [obj EXCEPT
               ![s] = NewFlow(<<ExtraIPs[k], obj[o].port>>, "Passive", TRUE, obj[o].token),
               ![o].subflows = Append(@, s)]
          /\ Continue(q, pc, s) \/ Finish(q)
    BY <1>10
  <2>2. PICK f : f = NewFlow(<<ExtraIPs[k], obj[o].port>>, "Passive", TRUE, obj[o].token)
    OBVIOUS
  <2>3. f.path = NoPath /\ f.multipath /\ f.type = "Passive"
    BY <2>2 DEF NewFlow
  <2>4. NewIn(o, s) /\ obj'[s] = f
    <3>1. s \notin Referenced /\ obj' = [obj EXCEPT ![s] = f, ![o].subflows = Append(@, s)]
      BY <2>1, <2>2 DEF Unreferenced
    <3> QED
      BY <2>3, <3>1, AddedIn
  <2>5. w = Ready \/ w = [i EXCEPT !.pc = pc, !.flow = s]
    BY <1>7, <1>8, <2>1
  <2>6. \A x \in Family(o) : obj[x].path # i.path
    BY <1>5, <1>10 DEF Family
  <2> QED
    BY <1>1, <1>2, <1>3, <1>4, <1>6, <2>3, <2>4, <2>5, <2>6
<1>11. CASE /\ Finish(q)
            /\ obj' = IF "SYN" \in i.pkt.flags THEN [obj EXCEPT ![o] = Rejected(@, i.pkt)] ELSE obj
  <2>1. PICK f : f = Rejected(obj[o], i.pkt)
    OBVIOUS
  <2>2. Twin(obj[o], f)
    BY <1>4, <2>1, TwinRejected
  <2>3. obj' = [obj EXCEPT ![o] = f] \/ UNCHANGED obj
    BY <1>11, <2>1
  <2>4. TwinsKept
    BY <1>4, <2>2, <2>3, OneTwin, SameTwins
  <2> QED
    BY <1>1, <1>2, <1>3, <1>4, <1>8, <1>11, <2>4
<1> QED
  BY <1>2, <1>4, <1>5, <1>6, <1>9, <1>10, <1>11, Zenon DEF IngressByPath

LEMMA IngressKin ==
  ASSUME IInv, NEW q \in Ports, IngressStep(q), ~IngressUpdate(q)
  PROVE  TwinsKept \/ (IngressByPath(q) /\ \E s \in Objs : NewIn(ingress[q].flow, s))
<1>1. PICK i : i = ingress[q]
  OBVIOUS
<1>2. CASE IngressByPath(q)
  BY <1>2, IngressByPathEffect, SameTwins
<1>3. CASE IngressCreate(q)
  <2>1. CASE UNCHANGED obj
    BY <2>1, SameTwins
  <2>2. CASE \E o \in Objs :
               /\ Unreferenced(o)
               /\ obj' = [obj EXCEPT ![o] = NewFlow(<<TunIP, q>>, "Passive", FALSE, FALSE)]
    BY <2>2, OneTwin DEF Unreferenced
  <2> QED
    BY <1>3, <2>1, <2>2 DEF IngressCreate
<1>4. CASE IngressToken(q)
  <2>1. PICK o \in Referenced : o = i.flow /\ o \in Objs /\ obj[o] \in Flow
    BY <1>1, <1>4, InUse DEF IngressToken
  <2>2. PICK f : f = [obj[o] EXCEPT !.token = TRUE]
    OBVIOUS
  <2>3. Twin(obj[o], f)
    BY <2>1, <2>2, TwinFields
  <2>4. obj' = [obj EXCEPT ![o] = f]
    BY <1>1, <1>4, <2>1, <2>2 DEF IngressToken
  <2> QED
    BY <2>1, <2>3, <2>4, OneTwin
<1> QED
  BY <1>2, <1>3, <1>4 DEF IngressStep

\* Maintenance removes subflows.
LEMMA MaintenanceKin ==
  ASSUME IInv, Maintenance
  PROVE  PathsKept /\ \A o \in Referenced : Subflows(o)' \subseteq Subflows(o)
<1>1. \A o \in Referenced : o \in Objs /\ obj[o] \in Flow
  BY InUse
<1>2. CASE \E q \in Ports : MaintSubflows(q)
  <2>1. PICK q \in Ports : MaintSubflows(q)
    BY <1>2
  <2>2. PICK o : o = flows[q]
    OBVIOUS
  <2>3. o \in Referenced
    <3>1. q \in maint.todo
      BY <2>1 DEF MaintSubflows
    <3>2. maint.pc = "subflows"
      BY <2>1 DEF MaintSubflows
    <3>3. o # None
      BY <2>2, <3>1, <3>2 DEF IInv, MutexInv
    <3> QED
      BY <2>2, <3>3, InUse
  <2>4. PICK closed : closed = {s \in Subflows(o) : obj[s].state = "CLOSED"}
    OBVIOUS
  <2>5. PICK m \in Seq(Objs) : m = Without(obj[o].subflows, closed)
    <3>1. obj[o].subflows \in Seq(Objs)
      BY <1>1, <2>3, FlowFields
    <3> QED
      BY <3>1, WithoutPicks
  <2>6. CASE UNCHANGED obj
    BY <2>6, SameTwins, TwinsFacts
  <2>7. CASE obj' = [s \in Objs |->
                  IF s \in Subflows(o) THEN Ticked(obj[s])
                  ELSE IF s = o
                    THEN [obj[o] EXCEPT !.subflows = Without(@, closed)]
                    ELSE obj[s]]
    <3>1. ASSUME NEW s \in Referenced
          PROVE  Kin(obj[s], obj'[s]) /\ Subflows(s)' \subseteq Subflows(s)
      <4>1. CASE s \in Subflows(o)
        <5>1. obj'[s] = Ticked(obj[s])
          BY <1>1, <2>7, <4>1
        <5> QED
          BY <1>1, <5>1, TwinTicked DEF Twin, Subflows
      <4>2. CASE s = o /\ s \notin Subflows(o)
        <5>1. obj'[s] = [obj[o] EXCEPT !.subflows = m]
          BY <1>1, <2>5, <2>7, <4>2
        <5>2. obj'[s].subflows = m
          BY <1>1, <4>2, <5>1 DEF Flow
        <5>3. ToSet(m) \subseteq Subflows(o)
          <6>1. Picks(m, obj[o].subflows)
            BY <1>1, <2>3, <2>5, WithoutPicks, FlowFields
          <6> QED
            BY <6>1 DEF Picks, Subflows, ToSet
        <5> QED
          BY <1>1, <2>3, <4>2, <5>1, <5>2, <5>3, TwinFields DEF Subflows
      <4>3. CASE s # o /\ s \notin Subflows(o)
        <5>1. obj'[s] = obj[s]
          BY <1>1, <2>7, <4>3
        <5> QED
          BY <1>1, <5>1, TwinFields DEF Twin, Subflows
      <4> QED
        BY <4>1, <4>2, <4>3
    <3> QED
      BY <3>1 DEF PathsKept
  <2> QED
    BY <2>1, <2>2, <2>4, <2>6, <2>7, Zenon DEF MaintSubflows
<1>3. CASE MaintLead
  <2>1. PICK o : o = flows[maint.port]
    OBVIOUS
  <2>2. o \in Referenced
    <3>1. maint.port \in Ports /\ o # None
      BY <1>3, <2>1 DEF IInv, MutexInv, MaintLead
    <3> QED
      BY <2>1, <3>1, InUse
  <2>3. PICK f : f = Ticked(obj[o])
    OBVIOUS
  <2>4. Twin(obj[o], f)
    BY <1>1, <2>2, <2>3, TwinTicked
  <2>5. obj' = [obj EXCEPT ![o] = f]
    BY <1>3, <2>1, <2>3 DEF MaintLead
  <2> QED
    BY <1>1, <2>2, <2>4, <2>5, OneTwin, TwinsFacts
<1>4. CASE \E Q \in (IF Reaping THEN SUBSET Ports ELSE {{}}) : MaintEnd(Q)
  <2>1. PICK Q : MaintEnd(Q)
    BY <1>4
  <2>2. \E closed : obj' = [o \in Objs |-> IF o \in closed THEN [obj[o] EXCEPT !.state = "CLOSED"]
                                                           ELSE obj[o]]
    BY <2>1, Zenon DEF MaintEnd
  <2>3. \A o \in Referenced : obj'[o] \in {obj[o], [obj[o] EXCEPT !.state = "CLOSED"]}
    BY <1>1, <2>2
  <2>4. "CLOSED" \in FlowStates
    BY DEF FlowStates
  <2>5. \A o \in Referenced : /\ Twin(obj[o], obj[o])
                              /\ Twin(obj[o], [obj[o] EXCEPT !.state = "CLOSED"])
    BY <1>1, <2>4, TwinFields
  <2>6. TwinsKept
    BY <2>3, <2>5 DEF TwinsKept
  <2> QED
    BY <2>6, TwinsFacts
<1> QED
  BY <1>2, <1>3, <1>4 DEF Maintenance

(***************************************************************************)
(* The three steps that give a flow a path                                 *)
(***************************************************************************)

\* The flow x gets the path p.
GetsPath(x, p) ==
  \A o \in Referenced : /\ obj'[o].path = IF o = x THEN p ELSE obj[o].path
                        /\ obj'[o].type = obj[o].type
                        /\ obj[o].multipath => obj'[o].multipath
                        /\ Subflows(o)' = Subflows(o)

LEMMA OneGets ==
  ASSUME IInv, NEW x \in Referenced, NEW f \in Flow, Twin(obj[x], f),
         NEW p \in Paths \cup {NoPath}, obj' = [obj EXCEPT ![x] = [f EXCEPT !.path = p]]
  PROVE  GetsPath(x, p)
<1>1. PICK g : g = [f EXCEPT !.path = p]
  OBVIOUS
<1>2. g.path = p /\ g.type = f.type /\ g.multipath = f.multipath /\ g.subflows = f.subflows
  BY <1>1 DEF Flow
<1>3. \A o \in Referenced : obj'[o] = IF o = x THEN g ELSE obj[o]
  BY <1>1, InUse
<1> QED
  BY <1>2, <1>3 DEF Twin, Kin, GetsPath, Subflows

LEMMA EgressSetPathGets ==
  ASSUME IInv, NEW t \in Queues, EgressSetPath(t)
  PROVE  GetsPath(egress[t].flow, egress[t].path)
<1>1. PICK e : e = egress[t]
  OBVIOUS
<1>2. e # Ready /\ e \in Egress
  BY <1>1, AtWork, InUse DEF EgressStep
<1>3. e.flow \in Referenced /\ obj[e.flow] \in Flow /\ e.path \in Paths \cup {NoPath}
  BY <1>1, <1>2, InUse DEF Egress
<1>4. obj' = [obj EXCEPT ![e.flow] = [obj[e.flow] EXCEPT !.path = e.path]]
  BY <1>1 DEF EgressSetPath
<1> QED
  BY <1>1, <1>3, <1>4, OneGets, TwinFields

LEMMA UiSetPathGets ==
  ASSUME IInv, NEW p \in Paths, UiSetPath(p)
  PROVE  GetsPath(ui, p)
<1>1. ui \in Referenced /\ obj[ui] \in Flow
  BY InUse DEF UiSetPath
<1>2. obj' = [obj EXCEPT ![ui] = [obj[ui] EXCEPT !.path = p]]
  BY DEF UiSetPath
<1> QED
  BY <1>1, <1>2, OneGets, TwinFields

\* updatePassivePath(): a multipath flow keeps its path.
LEMMA IngressUpdateGets ==
  ASSUME IInv, NEW q \in Ports, IngressUpdate(q)
  PROVE  \E p \in Paths \cup {NoPath} :
           /\ GetsPath(ingress[q].flow, p)
           /\ LET f == obj[ingress[q].flow]
              IN /\ \/ p = f.path
                    \/ f.type = "Passive" /\ p = ingress[q].path /\ (~f.multipath \/ f.path = NoPath)
                 /\ f.type = "Passive" /\ f.path = NoPath => p = ingress[q].path
<1>1. PICK i : i = ingress[q]
  OBVIOUS
<1>2. i.pc = "update"
  BY <1>1 DEF IngressUpdate
<1>3. i \in Ingress /\ i.path \in Paths
  BY <1>1, <1>2, InUse DEF Ingress, Ready
<1>4. PICK x \in Referenced : x = i.flow
  BY <1>1, <1>2, InUse
<1>5. PICK f \in Flow : f = obj[x]
  BY <1>4, InUse
<1>6. PICK g : g = Received(f, i.pkt)
  OBVIOUS
<1>7. g \in Flow /\ Twin(f, g)
  BY <1>6, AlikeSent, TwinSent DEF Alike
<1>8. PICK p : p = PassivePath(g, i.path)
  OBVIOUS
<1>9. p \in Paths \cup {NoPath}
  BY <1>3, <1>7, <1>8, FlowFields DEF PassivePath
<1>10. obj' = [obj EXCEPT ![x] = [g EXCEPT !.path = p]]
  BY <1>1, <1>4, <1>5, <1>6, <1>8 DEF IngressUpdate
<1>11. GetsPath(x, p)
  BY <1>5, <1>7, <1>9, <1>10, OneGets
<1>12. /\ \/ p = f.path
          \/ f.type = "Passive" /\ p = i.path /\ (~f.multipath \/ f.path = NoPath)
       /\ f.type = "Passive" /\ f.path = NoPath => p = i.path
  BY <1>7, <1>8 DEF Twin, Kin, PassivePath
<1> QED
  BY <1>1, <1>4, <1>5, <1>9, <1>11, <1>12

\* An egress thread's next state.
LEMMA EgressNext ==
  ASSUME IInv, NEW t \in Queues, EgressStep(t)
  PROVE  LET e == egress[t]
             w == egress'[t]
         IN /\ e.flow \in Referenced /\ e # Ready /\ e \in Egress
            /\ \/ /\ e.pc = "sub" /\ w.pc = "path" /\ w.sport = e.sport
               \/ /\ e.pc = "path" /\ obj' = obj
                  /\ w = [e EXCEPT !.pc = "select", !.path = obj[e.flow].path]
               \/ /\ e.pc = "select" /\ obj' = obj
                  /\ \/ e.path # NoPath /\ w = [e EXCEPT !.pc = "set"]
                     \/ e.path = NoPath /\ w = [e EXCEPT !.pc = "lead"]
                     \/ /\ ~obj[e.flow].multipath
                        /\ \E p \in Paths : w = [e EXCEPT !.pc = "set", !.path = p]
                     \/ w = Ready
               \/ /\ e.pc = "lead" /\ obj' = obj
                  /\ \/ /\ flows[e.sport] # None
                        /\ w = [e EXCEPT !.pc = "multi", !.lead = flows[e.sport]]
                     \/ w = Ready
               \/ /\ e.pc = "multi" /\ obj' = obj
                  /\ \/ \E p \in Paths \ PathsOf(e.lead) : w = [e EXCEPT !.pc = "set", !.path = p]
                     \/ w = Ready
               \/ e.pc = "set" /\ w = [e EXCEPT !.pc = "send"]
               \/ e.pc = "send" /\ w = Ready
<1>1. DOMAIN egress = Queues /\ egress[t] # Ready /\ egress[t].flow \in Referenced /\ egress[t] \in Egress
  BY AtWork, InUse
<1>2. PICK e : e = egress[t]
  OBVIOUS
<1>3. PICK w : w = egress'[t]
  OBVIOUS
<1>4. \A pc : Goto(t, pc) => w = [e EXCEPT !.pc = pc]
  BY <1>1, <1>2, <1>3 DEF Goto
<1>5. Done(t) => w = Ready
  BY <1>1, <1>3 DEF Done
<1>6. CASE EgressSubflow(t)
  <2>1. e.pc = "sub" /\ w.pc = "path" /\ w.sport = e.sport
    <3>1. e.pc = "sub"
      BY <1>2, <1>6 DEF EgressSubflow
    <3>2. \/ w = [e EXCEPT !.pc = "path"]
          \/ \E s : w = [e EXCEPT !.pc = "path", !.flow = s]
      <4>1. \/ Goto(t, "path")
            \/ \E s : egress' = [egress EXCEPT ![t].pc = "path", ![t].flow = s]
        BY <1>6, Zenon DEF EgressSubflow
      <4>2. ASSUME NEW s, egress' = [egress EXCEPT ![t].pc = "path", ![t].flow = s]
            PROVE  w = [e EXCEPT !.pc = "path", !.flow = s]
        BY <1>1, <1>2, <1>3, <4>2, TwoFields
      <4> QED
        BY <1>4, <4>1, <4>2
    <3> QED
      BY <1>1, <1>2, <3>1, <3>2 DEF Egress, Ready
  <2> QED
    BY <1>1, <1>2, <1>3, <2>1
<1>7. CASE EgressGetPath(t)
  <2>1. e.pc = "path" /\ obj' = obj /\ w = [e EXCEPT !.pc = "select", !.path = obj[e.flow].path]
    BY <1>1, <1>2, <1>3, <1>7 DEF EgressGetPath
  <2> QED
    BY <1>1, <1>2, <1>3, <2>1
<1>8. CASE EgressSelect(t)
  <2>1. /\ e.pc = "select" /\ obj' = obj
        /\ \/ e.path # NoPath /\ w = [e EXCEPT !.pc = "set"]
           \/ e.path = NoPath /\ w = [e EXCEPT !.pc = "lead"]
           \/ /\ ~obj[e.flow].multipath
              /\ \E p \in Paths : w = [e EXCEPT !.pc = "set", !.path = p]
           \/ w = Ready
    BY <1>1, <1>2, <1>3, <1>4, <1>5, <1>8 DEF EgressSelect
  <2> QED
    BY <1>1, <1>2, <1>3, <2>1
<1>9. CASE EgressFindLead(t)
  <2>1. /\ e.pc = "lead" /\ obj' = obj
        /\ \/ /\ flows[e.sport] # None
              /\ w = [e EXCEPT !.pc = "multi", !.lead = flows[e.sport]]
           \/ w = Ready
    BY <1>1, <1>2, <1>3, <1>5, <1>9 DEF EgressFindLead
  <2> QED
    BY <1>1, <1>2, <1>3, <2>1
<1>10. CASE EgressSelectMulti(t)
  <2>1. /\ e.pc = "multi" /\ obj' = obj
        /\ \/ \E p \in Paths \ PathsOf(e.lead) : w = [e EXCEPT !.pc = "set", !.path = p]
           \/ w = Ready
    BY <1>1, <1>2, <1>3, <1>5, <1>10 DEF EgressSelectMulti
  <2> QED
    BY <1>1, <1>2, <1>3, <2>1
<1>11. CASE EgressSetPath(t)
  <2>1. e.pc = "set" /\ w = [e EXCEPT !.pc = "send"]
    BY <1>2, <1>4, <1>11 DEF EgressSetPath
  <2> QED
    BY <1>1, <1>2, <1>3, <2>1
<1>12. CASE EgressSend(t)
  <2>1. e.pc = "send" /\ w = Ready
    BY <1>2, <1>5, <1>12 DEF EgressSend
  <2> QED
    BY <1>1, <1>2, <1>3, <2>1
<1> QED
  BY <1>6, <1>7, <1>8, <1>9, <1>10, <1>11, <1>12 DEF EgressStep

\* A step changes the progress of an egress thread only if the thread takes it.
LEMMA EgressOwn ==
  ASSUME IInv, [Next]_vars, NEW t \in Queues
  PROVE  egress'[t] = egress[t] \/ EgressStep(t) \/ egress'[t].pc = "sub"
<1>1. CASE \E u \in Queues, p \in EgressPkts, ep \in LocalEps : EgressFlow(u, p, ep)
  BY <1>1, InUse DEF EgressFlow
<1>2. CASE \E u \in Queues : EgressStep(u)
  BY <1>2, OneMoves
<1>3. CASE \E q \in Ports : IngressStep(q)
  BY <1>3, OneMoves
<1>4. CASE \/ \E q \in Ports, p \in IngressPkts, path \in Paths : IngressFind(q, p, path)
           \/ MaintBegin
           \/ \E q \in Ports : UiCheck(q) \/ UiRemove(q)
           \/ GrowOld
  BY <1>4 DEF IngressFind, MaintBegin, UiCheck, UiRemove, GrowOld
<1>5. CASE Maintenance \/ \E p \in Paths : UiSetPath(p)
  BY <1>5 DEF Maintenance, MaintSubflows, MaintLead, MaintEnd, UiSetPath
<1>6. CASE UNCHANGED vars
  BY <1>6 DEF vars
<1> QED
  BY <1>1, <1>2, <1>3, <1>4, <1>5, <1>6 DEF Next, Start

\* A thread that looks for a path of a new subflow has none yet.
SeeksPath == \A t \in Queues : egress[t].pc \in {"lead", "multi"} => egress[t].path = NoPath

LEMMA SeeksPathStep == IInv /\ SeeksPath /\ [Next]_vars => SeeksPath'
<1> SUFFICES ASSUME IInv, SeeksPath, [Next]_vars, NEW t \in Queues,
                    egress'[t].pc \in {"lead", "multi"}
             PROVE  egress'[t].path = NoPath
  BY DEF SeeksPath
<1>1. CASE egress'[t] = egress[t]
  BY <1>1 DEF SeeksPath
<1>2. CASE EgressStep(t)
  <2>1. PICK e \in Egress : e = egress[t] /\ e # Ready
    BY <1>2, EgressNext
  <2>2. PICK w : w = egress'[t]
    OBVIOUS
  <2>3. \/ e.path = NoPath /\ w = [e EXCEPT !.pc = "lead"]
        \/ e.pc = "lead" /\ w = [e EXCEPT !.pc = "multi", !.lead = flows[e.sport]]
    <3>1. /\ \A x : [e EXCEPT !.pc = "select", !.path = x].pc = "select"
          /\ \A x : [e EXCEPT !.pc = "set", !.path = x].pc = "set"
          /\ [e EXCEPT !.pc = "set"].pc = "set" /\ [e EXCEPT !.pc = "send"].pc = "send"
          /\ Ready.pc = "ready"
      BY <2>1 DEF Egress, Ready
    <3> QED
      BY <1>2, <2>1, <2>2, <3>1, EgressNext
  <2> QED
    BY <2>1, <2>2, <2>3 DEF SeeksPath, Egress, Ready
<1> QED
  BY <1>1, <1>2, EgressOwn

\* The user is about to change a flow that is not multipath.
LEMMA UiOwn ==
  ASSUME IInv, [Next]_vars
  PROVE  ui' \in {ui, None} \/ ~obj[ui'].multipath
<1>1. CASE \E q \in Ports : UiCheck(q)
  BY <1>1 DEF UiCheck
<1>2. CASE Start /\ ~(\E q \in Ports : UiCheck(q))
  BY <1>2 DEF Start, EgressFlow, IngressFind, MaintBegin, UiRemove, GrowOld
<1>3. CASE (\E t \in Queues : EgressStep(t)) \/ (\E q \in Ports : IngressStep(q))
  BY <1>3, OneMoves DEF KeepsShared
<1>4. CASE Maintenance \/ \E p \in Paths : UiSetPath(p)
  BY <1>4 DEF Maintenance, MaintSubflows, MaintLead, MaintEnd, UiSetPath
<1>5. CASE UNCHANGED vars
  BY <1>5 DEF vars
<1> QED
  BY <1>1, <1>2, <1>3, <1>4, <1>5 DEF Next

\* No step gives a settled flow another path.
LEMMA SettledPath ==
  ASSUME IInv, [Next]_vars, NEW o \in Referenced, Settled(o)
  PROVE  obj'[o].path = obj[o].path /\ obj'[o].multipath
<1>1. obj[o].multipath /\ obj[o].path # NoPath /\ ui # o
  BY DEF Settled
<1>2. PathsKept => obj'[o].path = obj[o].path /\ obj'[o].multipath
  BY <1>1 DEF PathsKept, Kin
<1>3. CASE Start \/ Maintenance \/ UNCHANGED vars
  BY <1>2, <1>3, StartTwins, MaintenanceKin, SameTwins, TwinsFacts DEF vars
<1>4. ASSUME NEW t \in Queues, EgressStep(t)
      PROVE  obj'[o].path = obj[o].path /\ obj'[o].multipath
  <2>1. CASE EgressSetPath(t)
    <3>1. GetsPath(egress[t].flow, egress[t].path) /\ egress[t].pc = "set"
      BY <2>1, EgressSetPathGets DEF EgressSetPath
    <3>2. egress[t].flow = o => egress[t].path = obj[o].path
      BY <3>1 DEF Settled
    <3> QED
      BY <1>1, <3>1, <3>2 DEF GetsPath
  <2>2. CASE ~EgressSetPath(t)
    BY <1>2, <1>4, <2>2, EgressKin, TwinsFacts DEF NewIn
  <2> QED
    BY <2>1, <2>2
<1>5. ASSUME NEW q \in Ports, IngressStep(q)
      PROVE  obj'[o].path = obj[o].path /\ obj'[o].multipath
  <2>1. CASE IngressUpdate(q)
    BY <1>1, <2>1, IngressUpdateGets DEF GetsPath
  <2>2. CASE ~IngressUpdate(q)
    BY <1>2, <1>5, <2>2, IngressKin, TwinsFacts DEF NewIn
  <2> QED
    BY <2>1, <2>2
<1>6. ASSUME NEW p \in Paths, UiSetPath(p)
      PROVE  obj'[o].path = obj[o].path /\ obj'[o].multipath
  BY <1>1, <1>6, UiSetPathGets DEF GetsPath
<1> QED
  BY <1>3, <1>4, <1>5, <1>6 DEF Next

\* No thread takes up another path for a settled flow.
LEMMA SettledThread ==
  ASSUME IInv, SeeksPath, [Next]_vars, NEW o \in Referenced, Settled(o), NEW t \in Queues,
         egress'[t].pc \in {"select", "lead", "multi", "set"}, egress'[t].flow = o
  PROVE  egress'[t].path = obj[o].path
<1>1. CASE egress'[t] = egress[t]
  BY <1>1 DEF Settled
<1>2. CASE EgressStep(t)
  <2>1. PICK e \in Egress : e = egress[t] /\ e # Ready
    BY <1>2, EgressNext
  <2>2. PICK w : w = egress'[t]
    OBVIOUS
  <2>3. obj[o].multipath /\ obj[o].path # NoPath
    BY DEF Settled
  <2>4. e.flow = o /\ e.pc \in {"select", "lead", "multi"} =>
          e.path = obj[o].path /\ e.pc \notin {"lead", "multi"}
    BY <2>1, <2>3 DEF Settled, SeeksPath
  <2>5. CASE e.pc = "path" /\ w = [e EXCEPT !.pc = "select", !.path = obj[e.flow].path]
    BY <2>1, <2>2, <2>5 DEF Egress, Ready
  <2>6. CASE e.pc = "select" /\ w = [e EXCEPT !.pc = "set"]
    BY <2>1, <2>2, <2>4, <2>6 DEF Egress, Ready
  <2>7. CASE e.pc = "select" /\ e.path = NoPath /\ w = [e EXCEPT !.pc = "lead"]
    BY <2>1, <2>2, <2>3, <2>4, <2>7 DEF Egress, Ready
  <2>8. CASE /\ ~obj[e.flow].multipath
             /\ \E p \in Paths : w = [e EXCEPT !.pc = "set", !.path = p]
    BY <2>1, <2>2, <2>3, <2>8 DEF Egress, Ready
  <2>9. CASE e.pc = "lead" /\ w = [e EXCEPT !.pc = "multi", !.lead = flows[e.sport]]
    BY <2>1, <2>2, <2>4, <2>9 DEF Egress, Ready
  <2>10. CASE e.pc = "multi" /\ \E p \in Paths : w = [e EXCEPT !.pc = "set", !.path = p]
    BY <2>1, <2>2, <2>4, <2>10 DEF Egress, Ready
  <2>11. CASE w.pc = "path" \/ w = Ready \/ w = [e EXCEPT !.pc = "send"]
    BY <2>1, <2>2, <2>11 DEF Egress, Ready
  <2> QED
    BY <1>2, <2>1, <2>2, <2>5, <2>6, <2>7, <2>8, <2>9, <2>10, <2>11, EgressNext
<1> QED
  BY <1>1, <1>2, EgressOwn

(***************************************************************************)
(* Once the path of a multipath flow is decided it remains so: "MPTCP      *)
(* subflows can't reselect their paths", neither by packets of the local   *)
(* host (getPath(), setPath()) nor of the remote host                      *)
(* (updatePassivePath()) nor by the user (overrideFlowPath()), for any     *)
(* number of threads that interleave between their critical sections.      *)
(***************************************************************************)
THEOREM PathsStable == Spec => MultipathPathStable
<1>1. Init => SeeksPath
  BY DEF Init, SeeksPath, Ready
<1>2. ASSUME IInv, SeeksPath, [Next]_vars, NEW o \in Referenced, Settled(o)
      PROVE  obj'[o].path = obj[o].path /\ Settled(o)'
  <2>1. obj'[o].path = obj[o].path /\ obj'[o].multipath
    BY <1>2, SettledPath
  <2>2. obj'[o].path # NoPath
    BY <1>2, <2>1 DEF Settled
  <2>3. ui' # o
    BY <1>2, UiOwn, InUse, NoneIsNoObject DEF Settled
  <2>4. \A t \in Queues :
          egress'[t].pc \in {"select", "lead", "multi", "set"} /\ egress'[t].flow = o
            => egress'[t].path = obj'[o].path
    BY <1>2, <2>1, SettledThread
  <2> QED
    BY <2>1, <2>2, <2>3, <2>4 DEF Settled
<1>3. IInv /\ SeeksPath /\ [Next]_vars =>
        [\A o \in Referenced :
           Settled(o) => obj'[o].path = obj[o].path /\ Settled(o)']_vars
  BY <1>2
<1> QED
  BY <1>1, <1>3, SeeksPathStep, Invariance, PTL DEF Spec, MultipathPathStable

-----------------------------------------------------------------------------
(***************************************************************************)
(* The state of one connection: module FlowTcp                             *)
(***************************************************************************)
\* Host h has not closed the connection, nor fallen silent.
Early(h) == tcp[h] \in {"listen", "closed", "synsent", "synrcvd", "est"}

TcpTypes ==
  /\ flow # NoFlow => flow \in [state: FlowStates, age: Nat]
  /\ tcp \in [Hosts -> TcpStates]
  /\ tun \in Seq(Segments)
  /\ net \in [Hosts -> SUBSET Segments]
  /\ missed \in BOOLEAN

\* Only the local host has opened the connection.
OpenedLocally ==
  /\ tcp["local"] \notin {"listen", "synrcvd"}
  /\ tcp["remote"] \notin {"closed", "synsent"}
  /\ SYN \notin net["local"]
  /\ \A i \in DOMAIN tun : tun[i] # SYNACK

\* The flow has not seen a FIN as long as no host has sent one.
NoEarlyFin ==
  /\ Early("local") => \A i \in DOMAIN tun : tun[i] # FIN
  /\ Early("remote") => FIN \notin net["local"]
  /\ Early("local") /\ Early("remote") /\ flow # NoFlow => flow.state \notin {"FIN", "RST"}

(***************************************************************************)
(* A repeated SYN or SYN-ACK makes the flow leave ESTABLISHED, but the     *)
(* local host has then an ACK in the queue behind it, which corrects this  *)
(* unless the translator drops it.                                         *)
(***************************************************************************)
AckIsLast ==
  tcp["local"] = "est" /\ Early("remote") =>
    IF tun = << >> THEN missed \/ (flow # NoFlow /\ flow.state = "ESTABLISHED")
                   ELSE tun[Len(tun)] = ACK

TcpInv == TcpTypes /\ OpenedLocally /\ NoEarlyFin /\ AckIsLast

\* The segments are different sets of flags.
LEMMA SegmentsDiffer ==
  /\ SYN # SYNACK /\ SYN # ACK /\ SYN # FIN
  /\ SYNACK # ACK /\ SYNACK # FIN /\ ACK # FIN
<1>1. /\ "ACK" \notin SYN /\ "ACK" \in SYNACK /\ "ACK" \in ACK /\ "ACK" \in FIN
      /\ "SYN" \in SYNACK /\ "SYN" \notin ACK /\ "SYN" \notin FIN
      /\ "FIN" \in FIN /\ "FIN" \notin ACK
  BY DEF SYN, SYNACK, ACK, FIN
<1> QED
  BY <1>1

LEMMA SegmentSet == Segments = {SYN, SYNACK, ACK, FIN}
BY DEF Segments

\* What a host sends on its own.
Sends(s, seg, t) ==
  \/ s \in {"closed", "synsent"} /\ seg = SYN /\ t = "synsent"
  \/ s = "synrcvd" /\ seg = SYNACK /\ t = "synrcvd"
  \/ s \in {"est", "closewait"} /\ seg = ACK /\ t = s
  \/ s = "est" /\ seg = FIN /\ t = "finwait"
  \/ s = "closewait" /\ seg = FIN /\ t = "done"

LEMMA SendCases ==
  ASSUME NEW s \in TcpStates, NEW m \in Send(s)
  PROVE  Sends(s, m[1], m[2])
<1>1. CASE s \in {"closed", "synsent"}
  BY <1>1 DEF Send, Sends
<1>2. CASE s = "synrcvd"
  BY <1>2 DEF Send, Sends
<1>3. CASE s = "est"
  <2>1. m \in {<<ACK, "est">>, <<FIN, "finwait">>}
    BY <1>3 DEF Send
  <2> QED
    BY <1>3, <2>1 DEF Sends
<1>4. CASE s = "closewait"
  <2>1. m \in {<<ACK, "closewait">>, <<FIN, "done">>}
    BY <1>4 DEF Send
  <2> QED
    BY <1>4, <2>1 DEF Sends
<1>5. CASE s \notin {"closed", "synsent", "synrcvd", "est", "closewait"}
  BY <1>5 DEF Send
<1> QED
  BY <1>1, <1>2, <1>3, <1>4, <1>5

\* What a host in state s does when it receives seg: its next state and its reply.
Receives(s, seg, t, reply) ==
  \/ s \in {"listen", "synrcvd"} /\ seg = SYN /\ t = "synrcvd" /\ reply = {SYNACK}
  \/ s = "synsent" /\ seg = SYNACK /\ t = "est" /\ reply = {ACK}
  \/ s = "synrcvd" /\ seg = ACK /\ t = "est" /\ reply = {}
  \/ s = "est" /\ seg \in {SYN, SYNACK} /\ t = "est" /\ reply = {ACK}
  \/ s = "est" /\ seg = FIN /\ t = "closewait" /\ reply = {ACK}
  \/ s = "finwait" /\ seg = FIN /\ t = "done" /\ reply = {ACK}
  \/ (s = "est" => seg = ACK) /\ t = s /\ reply = {}

LEMMA ReceiveCases ==
  ASSUME NEW s \in TcpStates, NEW seg \in Segments
  PROVE  Receives(s, seg, Receive(s, seg)[1], Receive(s, seg)[2])
<1> DEFINE r == Receive(s, seg)
<1>1. \A x \in Segments : "SYN" \in x <=> x \in {SYN, SYNACK}
  BY SegmentSet DEF SYN, SYNACK, ACK, FIN
<1>2. CASE s \in {"listen", "synrcvd"} /\ seg = SYN
  <2>1. r = <<"synrcvd", {SYNACK}>>
    BY <1>2, SegmentsDiffer DEF Receive
  <2> QED
    BY <1>2, <2>1 DEF Receives
<1>3. CASE s = "synsent" /\ seg = SYNACK
  <2>1. r = <<"est", {ACK}>>
    BY <1>3, SegmentsDiffer DEF Receive
  <2> QED
    BY <1>3, <2>1 DEF Receives
<1>4. CASE s = "synrcvd" /\ seg = ACK
  <2>1. r = <<"est", {}>>
    BY <1>4, SegmentsDiffer DEF Receive
  <2> QED
    BY <1>4, <2>1 DEF Receives
<1>5. CASE s = "est" /\ seg \in {SYN, SYNACK}
  <2>1. r = <<"est", {ACK}>>
    BY <1>5, <1>1, SegmentsDiffer DEF Receive
  <2> QED
    BY <1>5, <2>1 DEF Receives
<1>6. CASE s = "est" /\ seg = FIN
  <2>1. r = <<"closewait", {ACK}>>
    BY <1>6, <1>1, SegmentsDiffer DEF Receive
  <2> QED
    BY <1>6, <2>1 DEF Receives
<1>7. CASE s = "finwait" /\ seg = FIN
  <2>1. r = <<"done", {ACK}>>
    BY <1>7, <1>1, SegmentsDiffer DEF Receive
  <2> QED
    BY <1>7, <2>1 DEF Receives
<1>8. CASE /\ ~(s \in {"listen", "synrcvd"} /\ seg = SYN)
           /\ ~(s = "synsent" /\ seg = SYNACK)
           /\ ~(s = "synrcvd" /\ seg = ACK)
           /\ ~(s = "est" /\ seg \in {SYN, SYNACK, FIN})
           /\ ~(s = "finwait" /\ seg = FIN)
  <2>1. r = <<s, {}>>
    BY <1>8, <1>1, SegmentsDiffer DEF Receive
  <2> QED
    BY <1>8, <2>1, SegmentSet DEF Receives
<1> QED
  BY <1>2, <1>3, <1>4, <1>5, <1>6, <1>7, <1>8

\* A reply is put into the queue as a sequence.
LEMMA SameCardinality == \A S : Cardinality(S) = Cardinality(S)
BY DEF Cardinality, Cardinality

LEMMA Replies == SetToSeq({}) = << >> /\ \A x : SetToSeq({x}) = <<x>>
<1>1. SetToSeq({}) = << >>
  <2>1. Cardinality({}) = 0
    BY SameCardinality, FS_EmptySet
  <2>2. \A f \in [1 .. 0 -> {}] : f = << >>
    <3> SUFFICES ASSUME NEW f \in [1 .. 0 -> {}] PROVE f = << >>
      OBVIOUS
    <3>1. f \in Seq({}) /\ Len(f) = 0
      OBVIOUS
    <3> QED
      BY <3>1
  <2>3. << >> \in [1 .. 0 -> {}] /\ IsInjective(<< >>)
    BY DEF IsInjective
  <2> QED
    BY <2>1, <2>2, <2>3 DEF SetToSeq
<1>2. ASSUME NEW x PROVE SetToSeq({x}) = <<x>>
  <2>1. Cardinality({x}) = 1
    BY SameCardinality, FS_Singleton
  <2>2. \A f \in [1 .. 1 -> {x}] : f = <<x>>
    <3> SUFFICES ASSUME NEW f \in [1 .. 1 -> {x}] PROVE f = <<x>>
      OBVIOUS
    <3>1. f \in Seq({x}) /\ Len(f) = 1 /\ f[1] = x
      OBVIOUS
    <3> QED
      BY <3>1
  <2>3. <<x>> \in [1 .. 1 -> {x}] /\ IsInjective(<<x>>)
    BY DEF IsInjective
  <2>4. \E f \in [1 .. 1 -> {x}] : IsInjective(f)
    BY <2>3
  <2>5. SetToSeq({x}) = CHOOSE f \in [1 .. 1 -> {x}] : IsInjective(f)
    BY <2>1 DEF SetToSeq
  <2>6. (CHOOSE f \in [1 .. 1 -> {x}] : IsInjective(f)) \in [1 .. 1 -> {x}]
    BY <2>4, Zenon
  <2> QED
    BY <2>2, <2>5, <2>6, Zenon
<1> QED
  BY <1>1, <1>2

\* How the flow's state follows the segments of each direction, and time.
LEMMA IngressState ==
  ASSUME NEW s \in FlowStates, NEW seg \in Segments
  PROVE  LET n == StateIngress(s, Plain(seg))
         IN /\ n \in FlowStates
            /\ seg # FIN /\ s \notin {"FIN", "RST"} => n \notin {"FIN", "RST"}
            /\ seg = ACK /\ s = "ESTABLISHED" => n = "ESTABLISHED"
<1>1. /\ \A x \in Segments : "FIN" \in x <=> x = FIN
      /\ \A x \in Segments : "RST" \notin x
      /\ "SYN" \notin ACK
  BY SegmentSet DEF SYN, SYNACK, ACK, FIN
<1> QED
  BY <1>1, SegmentsDiffer DEF StateIngress, GuessState, Plain, FlowStates

LEMMA EgressState ==
  ASSUME NEW s \in FlowStates, NEW seg \in Segments
  PROVE  LET n == StateEgress(s, Plain(seg))
         IN /\ n \in FlowStates
            /\ seg # FIN /\ s \notin {"FIN", "RST"} => n \notin {"FIN", "RST"}
            /\ seg = ACK /\ s \notin {"FIN", "RST"} => n = "ESTABLISHED"
<1>1. /\ \A x \in Segments : "FIN" \in x <=> x = FIN
      /\ \A x \in Segments : "RST" \notin x
      /\ "SYN" \notin ACK /\ {"ACK"} \subseteq ACK
  BY SegmentSet DEF SYN, SYNACK, ACK, FIN
<1> QED
  BY <1>1, SegmentsDiffer DEF StateEgress, GuessState, Plain, FlowStates

LEMMA TickState ==
  ASSUME NEW s \in FlowStates, NEW expired \in BOOLEAN
  PROVE  LET n == StateTick(s, FALSE, expired, TRUE)
         IN /\ n \in FlowStates
            /\ s \notin {"FIN", "RST"} => n \notin {"FIN", "RST"}
            /\ s = "ESTABLISHED" => n = "ESTABLISHED"
BY DEF StateTick, Advance, TearDown, FlowStates

\* A host changes its state.
LEMMA HostUpdate ==
  ASSUME TcpTypes, NEW h \in Hosts, NEW s \in TcpStates,
         tcp' = [tcp EXCEPT ![h] = s]
  PROVE  /\ tcp' \in [Hosts -> TcpStates]
         /\ tcp'[h] = s
         /\ \A k \in Hosts \ {h} : tcp'[k] = tcp[k]
BY DEF TcpTypes

LEMMA HostNames == "local" \in Hosts /\ "remote" \in Hosts
                   /\ Hosts \ {"local"} = {"remote"} /\ Hosts \ {"remote"} = {"local"}
BY DEF Hosts

LEMMA InitTcp == Openers \subseteq {"local"} /\ TcpInit => TcpInv
<1> SUFFICES ASSUME Openers \subseteq {"local"}, TcpInit PROVE TcpInv
  OBVIOUS
<1>1. tcp = [h \in Hosts |-> IF h = "local" THEN "closed" ELSE "listen"]
  BY DEF TcpInit
<1>2. tcp["local"] = "closed" /\ tcp["remote"] = "listen"
  BY <1>1, HostNames
<1>3. TcpTypes
  <2>1. missed \in BOOLEAN
    BY DEF TcpInit
  <2> QED
    BY <1>1, <2>1 DEF TcpTypes, TcpInit, TcpStates
<1>4. tun = << >> /\ net["local"] = {} /\ flow = NoFlow
  BY HostNames DEF TcpInit
<1> QED
  BY <1>2, <1>3, <1>4 DEF TcpInv, OpenedLocally, NoEarlyFin, AckIsLast

\* The queue after a segment has been appended.
LEMMA Appended ==
  ASSUME NEW q \in Seq(Segments), NEW seg \in Segments, NEW r, r = Append(q, seg)
  PROVE  /\ r \in Seq(Segments) /\ r # << >>
         /\ r[Len(r)] = seg
         /\ \A i \in DOMAIN r : r[i] = seg \/ \E j \in DOMAIN q : r[i] = q[j]
OBVIOUS

LEMMA LocalSendsInv == TcpInv /\ LocalSends => TcpInv'
<1> SUFFICES ASSUME TcpInv, LocalSends PROVE TcpInv'
  OBVIOUS
<1>1. tcp["local"] \in TcpStates
  BY HostNames DEF TcpInv, TcpTypes
<1>2. PICK m \in Send(tcp["local"]) :
        tun' = Append(tun, m[1]) /\ tcp' = [tcp EXCEPT !["local"] = m[2]]
  BY DEF LocalSends
<1>3. Sends(tcp["local"], m[1], m[2])
  BY <1>1, SendCases
<1>4. m[1] \in Segments /\ m[2] \in TcpStates
  BY <1>1, <1>3, SegmentSet DEF Sends, TcpStates
<1>5. /\ tcp' \in [Hosts -> TcpStates]
      /\ tcp'["local"] = m[2] /\ tcp'["remote"] = tcp["remote"]
  BY <1>2, <1>4, HostUpdate, HostNames DEF TcpInv
<1>6. /\ tun' \in Seq(Segments) /\ tun' # << >> /\ tun'[Len(tun')] = m[1]
      /\ \A i \in DOMAIN tun' : tun'[i] = m[1] \/ \E j \in DOMAIN tun : tun'[i] = tun[j]
  BY <1>2, <1>4, Appended DEF TcpInv, TcpTypes
<1>7. flow' = flow /\ net' = net /\ missed' = missed
  BY DEF LocalSends
<1>8. TcpTypes'
  BY <1>5, <1>6, <1>7 DEF TcpInv, TcpTypes
<1>9. OpenedLocally'
  BY <1>3, <1>5, <1>6, <1>7, SegmentsDiffer DEF TcpInv, OpenedLocally, Sends
<1>10. NoEarlyFin'
  BY <1>3, <1>5, <1>6, <1>7, SegmentsDiffer DEF TcpInv, NoEarlyFin, Sends, Early
<1>11. AckIsLast'
  BY <1>3, <1>5, <1>6, <1>7, SegmentsDiffer DEF TcpInv, AckIsLast, OpenedLocally, Sends, Early
<1> QED
  BY <1>8, <1>9, <1>10, <1>11 DEF TcpInv

LEMMA RemoteSendsInv == TcpInv /\ RemoteSends => TcpInv'
<1> SUFFICES ASSUME TcpInv, RemoteSends PROVE TcpInv'
  OBVIOUS
<1>1. tcp["remote"] \in TcpStates /\ net["local"] \in SUBSET Segments
  BY HostNames DEF TcpInv, TcpTypes
<1>2. PICK m \in Send(tcp["remote"]) :
        /\ net' = [net EXCEPT !["local"] = @ \cup {m[1]}]
        /\ tcp' = [tcp EXCEPT !["remote"] = m[2]]
  BY DEF RemoteSends
<1>3. Sends(tcp["remote"], m[1], m[2])
  BY <1>1, SendCases
<1>4. m[1] \in Segments /\ m[2] \in TcpStates
  BY <1>1, <1>3, SegmentSet DEF Sends, TcpStates
<1>5. /\ tcp' \in [Hosts -> TcpStates]
      /\ tcp'["remote"] = m[2] /\ tcp'["local"] = tcp["local"]
  BY <1>2, <1>4, HostUpdate, HostNames DEF TcpInv
<1>6. net' \in [Hosts -> SUBSET Segments] /\ net'["local"] = net["local"] \cup {m[1]}
  <2>1. PICK S \in SUBSET Segments : S = net["local"] \cup {m[1]}
    BY <1>1, <1>4
  <2>2. net' = [net EXCEPT !["local"] = S]
    BY <1>2, <2>1
  <2> QED
    BY <2>1, <2>2, HostNames DEF TcpInv, TcpTypes
<1>7. flow' = flow /\ tun' = tun /\ missed' = missed
  BY DEF RemoteSends
<1>8. TcpTypes'
  BY <1>5, <1>6, <1>7 DEF TcpInv, TcpTypes
<1>9. OpenedLocally'
  BY <1>3, <1>5, <1>6, <1>7, SegmentsDiffer DEF TcpInv, OpenedLocally, Sends
<1>10. NoEarlyFin'
  BY <1>3, <1>5, <1>6, <1>7, SegmentsDiffer DEF TcpInv, NoEarlyFin, Sends, Early
<1>11. AckIsLast'
  BY <1>3, <1>5, <1>7 DEF TcpInv, AckIsLast, Sends, Early
<1> QED
  BY <1>8, <1>9, <1>10, <1>11 DEF TcpInv

LEMMA RemoteReceivesInv == TcpInv /\ RemoteReceives => TcpInv'
<1> SUFFICES ASSUME TcpInv, RemoteReceives PROVE TcpInv'
  OBVIOUS
<1>1. /\ tcp["remote"] \in TcpStates
      /\ net["local"] \in SUBSET Segments /\ net["remote"] \in SUBSET Segments
  BY HostNames DEF TcpInv, TcpTypes
<1>2. PICK seg \in net["remote"], copy \in BOOLEAN :
        LET r == Receive(tcp["remote"], seg)
        IN /\ tcp' = [tcp EXCEPT !["remote"] = r[1]]
           /\ net' = [net EXCEPT !["remote"] = IF copy THEN @ ELSE @ \ {seg},
                                 !["local"] = @ \cup r[2]]
  BY DEF RemoteReceives
<1> DEFINE t == Receive(tcp["remote"], seg)[1]
           reply == Receive(tcp["remote"], seg)[2]
<1>3. Receives(tcp["remote"], seg, t, reply)
  BY <1>1, ReceiveCases
<1> HIDE DEF t, reply
<1>4. reply \in SUBSET Segments /\ t \in TcpStates
  BY <1>1, <1>3, SegmentSet DEF Receives, TcpStates
<1>5. tcp' = [tcp EXCEPT !["remote"] = t]
  BY <1>2 DEF t
<1>6. /\ tcp' \in [Hosts -> TcpStates]
      /\ tcp'["remote"] = t /\ tcp'["local"] = tcp["local"]
  BY <1>4, <1>5, HostUpdate, HostNames DEF TcpInv
<1>7. net' \in [Hosts -> SUBSET Segments] /\ net'["local"] = net["local"] \cup reply
  BY <1>1, <1>2, <1>4, HostNames DEF TcpInv, TcpTypes, reply
<1>8. flow' = flow /\ tun' = tun /\ missed' = missed
  BY DEF RemoteReceives
<1>9. TcpTypes'
  BY <1>6, <1>7, <1>8 DEF TcpInv, TcpTypes
<1>10. OpenedLocally'
  BY <1>3, <1>6, <1>7, <1>8, SegmentsDiffer DEF TcpInv, OpenedLocally, Receives
<1>11. NoEarlyFin'
  BY <1>3, <1>6, <1>7, <1>8, SegmentsDiffer DEF TcpInv, NoEarlyFin, Receives, Early
<1>12. AckIsLast'
  BY <1>3, <1>6, <1>8 DEF TcpInv, AckIsLast, Receives, Early
<1> QED
  BY <1>9, <1>10, <1>11, <1>12 DEF TcpInv

LEMMA CurrentState == TcpTypes => Current \in FlowStates
BY DEF TcpTypes, Current, FlowStates

\* A flow that has a state and an age is a flow.
LEMMA SomeFlow ==
  ASSUME NEW s \in FlowStates, NEW a \in Nat
  PROVE  LET f == [state |-> s, age |-> a]
         IN f # NoFlow /\ f \in [state: FlowStates, age: Nat] /\ f.state = s
BY FlowTcpAssumption

LEMMA Replied ==
  ASSUME NEW q \in Seq(Segments)
  PROVE  /\ q \o SetToSeq({}) = q
         /\ \A seg \in Segments : q \o SetToSeq({seg}) = Append(q, seg)
<1>1. q \o << >> = q /\ \A seg \in Segments : q \o <<seg>> = Append(q, seg)
  OBVIOUS
<1> QED
  BY <1>1, Replies

\* What the local host replies if it has opened the connection.
LEMMA LocalReplies ==
  ASSUME NEW s, s \notin {"listen", "synrcvd"}, NEW seg, NEW t, NEW reply, Receives(s, seg, t, reply)
  PROVE  /\ t \notin {"listen", "synrcvd"}
         /\ reply = {} \/ reply = {ACK}
         /\ reply = {} /\ t = "est" => s = "est" /\ seg = ACK
         /\ t \in {"closed", "synsent", "est"} => s \in {"closed", "synsent", "est"}
BY DEF Receives

LEMMA IngressInv ==
  ASSUME TcpInv, TcpIngress
  PROVE  TcpInv'
<1>1. /\ tcp["local"] \in TcpStates /\ tun \in Seq(Segments)
      /\ net["local"] \in SUBSET Segments /\ Current \in FlowStates
  BY HostNames, CurrentState DEF TcpInv, TcpTypes
<1>2. PICK seg \in net["local"], copy \in BOOLEAN :
        LET r == Receive(tcp["local"], seg)
        IN /\ flow' = [state |-> StateIngress(Current, Plain(seg)), age |-> 0]
           /\ tcp' = [tcp EXCEPT !["local"] = r[1]]
           /\ tun' = tun \o SetToSeq(r[2])
           /\ net' = [net EXCEPT !["local"] = IF copy THEN @ ELSE @ \ {seg}]
           /\ missed' = missed
  BY DEF TcpIngress
<1>3. seg \in Segments
  BY <1>1
<1> DEFINE t == Receive(tcp["local"], seg)[1]
           reply == Receive(tcp["local"], seg)[2]
           n == StateIngress(Current, Plain(seg))
<1>4. Receives(tcp["local"], seg, t, reply)
  BY <1>1, ReceiveCases
<1>5. /\ n \in FlowStates
      /\ seg # FIN /\ Current \notin {"FIN", "RST"} => n \notin {"FIN", "RST"}
      /\ seg = ACK /\ Current = "ESTABLISHED" => n = "ESTABLISHED"
  BY <1>1, IngressState
<1>6. /\ flow' = [state |-> n, age |-> 0]
      /\ tcp' = [tcp EXCEPT !["local"] = t]
      /\ tun' = tun \o SetToSeq(reply)
      /\ missed' = missed
  BY <1>2
<1> HIDE DEF t, reply, n
<1>7. /\ reply \in SUBSET Segments /\ t \in TcpStates
      /\ reply = {} \/ \E x \in Segments : reply = {x}
  BY <1>1, <1>4, SegmentSet DEF Receives, TcpStates
<1>8. /\ tcp' \in [Hosts -> TcpStates]
      /\ tcp'["local"] = t /\ tcp'["remote"] = tcp["remote"]
  BY <1>6, <1>7, HostUpdate, HostNames DEF TcpInv
<1>9. net' \in [Hosts -> SUBSET Segments] /\ net'["local"] \subseteq net["local"]
  <2>1. PICK S \in SUBSET Segments :
          S = IF copy THEN net["local"] ELSE net["local"] \ {seg}
    BY <1>1
  <2>2. net' = [net EXCEPT !["local"] = S]
    BY <1>2, <2>1
  <2> QED
    BY <2>1, <2>2, HostNames DEF TcpInv, TcpTypes
<1>10. /\ t \notin {"listen", "synrcvd"}
       /\ reply = {} \/ reply = {ACK}
       /\ reply = {} /\ t = "est" => tcp["local"] = "est" /\ seg = ACK
       /\ t \in {"closed", "synsent", "est"} => tcp["local"] \in {"closed", "synsent", "est"}
  <2>1. tcp["local"] \notin {"listen", "synrcvd"}
    BY DEF TcpInv, OpenedLocally
  <2> QED
    BY <1>4, <2>1, LocalReplies
<1>11. \/ reply = {} /\ tun' = tun
       \/ /\ reply = {ACK}
          /\ tun' \in Seq(Segments) /\ tun' # << >> /\ tun'[Len(tun')] = ACK
          /\ \A i \in DOMAIN tun' : tun'[i] = ACK \/ \E j \in DOMAIN tun : tun'[i] = tun[j]
  <2>1. /\ tun \o SetToSeq({}) = tun
        /\ tun \o SetToSeq({ACK}) = Append(tun, ACK)
        /\ ACK \in Segments
    BY <1>1, SegmentSet, Replied
  <2>2. CASE reply = {}
    BY <1>6, <2>1, <2>2
  <2>3. CASE reply = {ACK}
    <3>1. tun' = Append(tun, ACK)
      BY <1>6, <2>1, <2>3
    <3> QED
      BY <1>1, <2>1, <2>3, <3>1, Appended
  <2> QED
    BY <1>10, <2>2, <2>3
<1>12. flow' # NoFlow /\ flow' \in [state: FlowStates, age: Nat] /\ flow'.state = n
  BY <1>5, <1>6, SomeFlow
<1>13. tun' \in Seq(Segments)
  BY <1>1, <1>11
<1>14. TcpTypes'
  BY <1>6, <1>8, <1>9, <1>12, <1>13 DEF TcpInv, TcpTypes
<1>15. \A i \in DOMAIN tun' : tun'[i] = ACK \/ \E j \in DOMAIN tun : tun'[i] = tun[j]
  BY <1>11
<1>16. OpenedLocally'
  <2>1. tcp'["local"] \notin {"listen", "synrcvd"} /\ tcp'["remote"] \notin {"closed", "synsent"}
    BY <1>8, <1>10 DEF TcpInv, OpenedLocally
  <2>2. SYN \notin net'["local"]
    BY <1>9 DEF TcpInv, OpenedLocally
  <2>3. \A i \in DOMAIN tun' : tun'[i] # SYNACK
    BY <1>15, SegmentsDiffer DEF TcpInv, OpenedLocally
  <2> QED
    BY <2>1, <2>2, <2>3 DEF OpenedLocally
<1>17. NoEarlyFin'
  <2>1. Early("local")' => Early("local")
    BY <1>8, <1>10 DEF Early
  <2>2. Early("local")' => \A i \in DOMAIN tun' : tun'[i] # FIN
    BY <1>15, <2>1, SegmentsDiffer DEF TcpInv, NoEarlyFin
  <2>3. Early("remote")' => Early("remote") /\ FIN \notin net["local"]
    BY <1>8 DEF TcpInv, NoEarlyFin, Early
  <2>4. Early("local")' /\ Early("remote")' => Current \notin {"FIN", "RST"}
    BY <2>1, <2>3 DEF TcpInv, NoEarlyFin, Current
  <2>5. Early("remote")' => seg # FIN /\ FIN \notin net'["local"]
    BY <1>9, <2>3
  <2>6. Early("local")' /\ Early("remote")' => flow'.state \notin {"FIN", "RST"}
    BY <1>5, <1>12, <2>4, <2>5
  <2> QED
    BY <2>2, <2>5, <2>6 DEF NoEarlyFin
<1>18. AckIsLast'
  <2> SUFFICES ASSUME t = "est", Early("remote")
               PROVE  IF tun' = << >> THEN missed \/ n = "ESTABLISHED" ELSE tun'[Len(tun')] = ACK
    BY <1>6, <1>8, <1>12 DEF AckIsLast, Early
  <2>1. CASE reply = {ACK}
    BY <1>11, <2>1
  <2>2. CASE reply = {} /\ tun' = tun
    <3>1. tcp["local"] = "est" /\ seg = ACK
      BY <1>10, <2>2
    <3>2. IF tun = << >> THEN missed \/ Current = "ESTABLISHED" ELSE tun[Len(tun)] = ACK
      BY <3>1 DEF TcpInv, AckIsLast, Current
    <3> QED
      BY <1>5, <2>2, <3>1, <3>2
  <2> QED
    BY <1>11, <2>1, <2>2
<1> QED
  BY <1>14, <1>16, <1>17, <1>18 DEF TcpInv

\* The queue after its first segment has been read.
LEMMA Behind ==
  ASSUME NEW q \in Seq(Segments), q # << >>, NEW r, r = Tail(q)
  PROVE  /\ r \in Seq(Segments)
         /\ \A i \in DOMAIN r : \E j \in DOMAIN q : r[i] = q[j]
         /\ r # << >> => r[Len(r)] = q[Len(q)]
         /\ r = << >> => q[Len(q)] = Head(q)
<1>1. /\ r \in Seq(Segments) /\ Len(r) = Len(q) - 1 /\ Len(q) \in Nat \ {0}
      /\ \A i \in 1 .. Len(r) : r[i] = q[i + 1]
  OBVIOUS
<1>2. \A i \in DOMAIN r : i + 1 \in DOMAIN q /\ r[i] = q[i + 1]
  BY <1>1
<1>3. ASSUME r # << >> PROVE r[Len(r)] = q[Len(q)]
  <2>1. Len(r) # 0
    BY <1>1, <1>3
  <2> QED
    BY <1>1, <2>1
<1>4. ASSUME r = << >> PROVE q[Len(q)] = Head(q)
  <2>1. Len(r) = 0
    <3>1. Len(<< >>) = 0
      OBVIOUS
    <3> QED
      BY <1>4, <3>1, Zenon
  <2>2. Len(q) = 1
    BY <1>1, <2>1
  <2> QED
    BY <2>2
<1> QED
  BY <1>1, <1>2, <1>3, <1>4

LEMMA EgressInv ==
  ASSUME TcpInv, TcpEgress
  PROVE  TcpInv'
<1>1. /\ tun \in Seq(Segments) /\ tun # << >> /\ Current \in FlowStates
      /\ net["remote"] \in SUBSET Segments
  BY HostNames, CurrentState DEF TcpInv, TcpTypes, TcpEgress
<1> DEFINE seg == Head(tun)
           n == StateEgress(Current, Plain(seg))
<1>2. seg \in Segments /\ 1 \in DOMAIN tun /\ seg = tun[1]
  BY <1>1
<1>3. /\ n \in FlowStates
      /\ seg # FIN /\ Current \notin {"FIN", "RST"} => n \notin {"FIN", "RST"}
      /\ seg = ACK /\ Current \notin {"FIN", "RST"} => n = "ESTABLISHED"
  BY <1>1, <1>2, EgressState
<1>4. /\ flow' = [state |-> n, age |-> 0]
      /\ net' = [net EXCEPT !["remote"] = @ \cup {seg}]
      /\ tun' = Tail(tun) /\ tcp' = tcp /\ missed' = FALSE
  BY DEF TcpEgress
<1> HIDE DEF n
<1>5. flow' # NoFlow /\ flow' \in [state: FlowStates, age: Nat] /\ flow'.state = n
  BY <1>3, <1>4, SomeFlow
<1>6. net' \in [Hosts -> SUBSET Segments] /\ net'["local"] = net["local"]
  <2>1. PICK S \in SUBSET Segments : S = net["remote"] \cup {seg}
    BY <1>1, <1>2
  <2>2. net' = [net EXCEPT !["remote"] = S]
    BY <1>4, <2>1
  <2> QED
    BY <2>1, <2>2, HostNames DEF TcpInv, TcpTypes
<1>7. /\ tun' \in Seq(Segments)
      /\ \A i \in DOMAIN tun' : \E j \in DOMAIN tun : tun'[i] = tun[j]
      /\ tun' # << >> => tun'[Len(tun')] = tun[Len(tun)]
      /\ tun' = << >> => tun[Len(tun)] = seg
  <2>1. PICK q \in Seq(Segments) : q = tun /\ q # << >>
    BY <1>1
  <2>2. PICK r : r = Tail(q)
    OBVIOUS
  <2>3. /\ r \in Seq(Segments)
        /\ \A i \in DOMAIN r : \E j \in DOMAIN q : r[i] = q[j]
        /\ r # << >> => r[Len(r)] = q[Len(q)]
        /\ r = << >> => q[Len(q)] = Head(q)
    BY <2>1, <2>2, Behind
  <2>4. tun' = r
    BY <1>4, <2>1, <2>2
  <2> QED
    BY <2>1, <2>3, <2>4
<1>8. TcpTypes'
  BY <1>3, <1>4, <1>5, <1>6, <1>7 DEF TcpInv, TcpTypes
<1>9. OpenedLocally'
  BY <1>4, <1>6, <1>7 DEF TcpInv, OpenedLocally
<1>10. Early("local") /\ Early("remote") => Current \notin {"FIN", "RST"} /\ seg # FIN
  BY <1>2 DEF TcpInv, NoEarlyFin, Current
<1>11. NoEarlyFin'
  BY <1>3, <1>4, <1>5, <1>6, <1>7, <1>10 DEF TcpInv, NoEarlyFin, Early
<1>12. AckIsLast'
  <2> SUFFICES ASSUME tcp["local"] = "est", Early("remote")
               PROVE  IF tun' = << >> THEN n = "ESTABLISHED" ELSE tun'[Len(tun')] = ACK
    BY <1>4, <1>5 DEF AckIsLast, Early
  <2>1. tun[Len(tun)] = ACK
    BY <1>1 DEF TcpInv, AckIsLast
  <2>2. Early("local")
    BY DEF Early
  <2> QED
    BY <1>3, <1>7, <1>10, <2>1, <2>2
<1> QED
  BY <1>8, <1>9, <1>11, <1>12 DEF TcpInv

\* The flow hears of a segment that the local host does not get.
LEMMA IngressFailsInv ==
  ASSUME TcpInv, TcpIngressFails
  PROVE  TcpInv'
<1>1. net["local"] \in SUBSET Segments /\ Current \in FlowStates
  BY HostNames, CurrentState DEF TcpInv, TcpTypes
<1>2. PICK seg \in net["local"], copy \in BOOLEAN :
        /\ flow' = [state |-> StateIngress(Current, Plain(seg)), age |-> 0]
        /\ net' = [net EXCEPT !["local"] = IF copy THEN @ ELSE @ \ {seg}]
  BY DEF TcpIngressFails
<1>3. tcp' = tcp /\ tun' = tun /\ missed' = TRUE
  BY DEF TcpIngressFails
<1> DEFINE n == StateIngress(Current, Plain(seg))
<1>4. /\ n \in FlowStates
      /\ seg # FIN /\ Current \notin {"FIN", "RST"} => n \notin {"FIN", "RST"}
  BY <1>1, IngressState
<1> HIDE DEF n
<1>5. flow' # NoFlow /\ flow' \in [state: FlowStates, age: Nat] /\ flow'.state = n
  BY <1>2, <1>4, SomeFlow DEF n
<1>6. net' \in [Hosts -> SUBSET Segments] /\ net'["local"] \subseteq net["local"]
  <2>1. PICK S \in SUBSET Segments :
          S = IF copy THEN net["local"] ELSE net["local"] \ {seg}
    BY <1>1
  <2>2. net' = [net EXCEPT !["local"] = S]
    BY <1>2, <2>1
  <2> QED
    BY <2>1, <2>2, HostNames DEF TcpInv, TcpTypes
<1>7. TcpTypes'
  BY <1>3, <1>5, <1>6 DEF TcpInv, TcpTypes
<1>8. OpenedLocally'
  BY <1>3, <1>6 DEF TcpInv, OpenedLocally
<1>9. NoEarlyFin'
  <2>1. Early("remote") => seg # FIN /\ FIN \notin net'["local"]
    BY <1>6 DEF TcpInv, NoEarlyFin
  <2>2. Early("local") /\ Early("remote") => Current \notin {"FIN", "RST"}
    BY DEF TcpInv, NoEarlyFin, Current
  <2> QED
    BY <1>3, <1>4, <1>5, <2>1, <2>2 DEF TcpInv, NoEarlyFin, Early
<1>10. AckIsLast'
  BY <1>3 DEF TcpInv, AckIsLast, Early
<1> QED
  BY <1>7, <1>8, <1>9, <1>10 DEF TcpInv

\* The translator drops the first segment of the queue.
LEMMA EgressDropsInv ==
  ASSUME TcpInv, TcpEgressDrops
  PROVE  TcpInv'
<1>1. /\ tun \in Seq(Segments) /\ tun # << >> /\ tun' = Tail(tun)
      /\ tcp' = tcp /\ net' = net /\ missed' = TRUE
      /\ flow' = flow \/ (flow = NoFlow /\ flow' = Fresh)
  <2>1. flow' = flow \/ (flow = NoFlow /\ flow' = Fresh)
    BY DEF TcpEgressDrops
  <2>2. tun \in Seq(Segments)
    BY DEF TcpInv, TcpTypes
  <2>3. tun # << >> /\ tun' = Tail(tun) /\ tcp' = tcp /\ net' = net /\ missed' = TRUE
    BY Zenon DEF TcpEgressDrops
  <2> QED
    BY <2>1, <2>2, <2>3, Zenon
<1>2. /\ tun' \in Seq(Segments)
      /\ \A i \in DOMAIN tun' : \E j \in DOMAIN tun : tun'[i] = tun[j]
      /\ tun' # << >> => tun'[Len(tun')] = tun[Len(tun)]
  <2>1. PICK q \in Seq(Segments) : q = tun /\ q # << >>
    BY <1>1
  <2>2. PICK r : r = Tail(q)
    OBVIOUS
  <2>3. /\ r \in Seq(Segments)
        /\ \A i \in DOMAIN r : \E j \in DOMAIN q : r[i] = q[j]
        /\ r # << >> => r[Len(r)] = q[Len(q)]
    BY <2>1, <2>2, Behind
  <2>4. tun' = r
    BY <1>1, <2>1, <2>2
  <2> QED
    BY <2>1, <2>3, <2>4
<1>3. Fresh \in [state: FlowStates, age: Nat] /\ Fresh.state = "OPEN"
  BY FlowTcpAssumption DEF Fresh, FlowStates
<1>4. TcpTypes'
  BY <1>1, <1>2, <1>3 DEF TcpInv, TcpTypes
<1>5. OpenedLocally'
  BY <1>1, <1>2 DEF TcpInv, OpenedLocally
<1>6. NoEarlyFin'
  BY <1>1, <1>2, <1>3 DEF TcpInv, NoEarlyFin, Early
<1>7. AckIsLast'
  <2> SUFFICES ASSUME tcp["local"] = "est", Early("remote"), tun' # << >>
               PROVE  tun'[Len(tun')] = ACK
    BY <1>1 DEF AckIsLast, Early
  <2> QED
    BY <1>1, <1>2 DEF TcpInv, AckIsLast
<1> QED
  BY <1>4, <1>5, <1>6, <1>7 DEF TcpInv

LEMMA LoseInv == TcpInv /\ Lose => TcpInv'
<1> SUFFICES ASSUME TcpInv, Lose PROVE TcpInv'
  OBVIOUS
<1>1. PICK h \in Hosts : \E seg \in net[h] : net' = [net EXCEPT ![h] = @ \ {seg}]
  BY DEF Lose
<1>2. PICK seg \in net[h] : net' = [net EXCEPT ![h] = @ \ {seg}]
  BY <1>1
<1>3. net[h] \ {seg} \in SUBSET Segments
  BY DEF TcpInv, TcpTypes
<1>4. net' \in [Hosts -> SUBSET Segments] /\ net'["local"] \subseteq net["local"]
  <2>1. PICK S \in SUBSET Segments : S = net[h] \ {seg}
    BY <1>3
  <2>2. net' = [net EXCEPT ![h] = S]
    BY <1>2, <2>1
  <2> QED
    BY <2>1, <2>2, HostNames DEF TcpInv, TcpTypes
<1>5. flow' = flow /\ tcp' = tcp /\ tun' = tun /\ missed' = missed
  BY DEF Lose
<1> QED
  BY <1>4, <1>5 DEF TcpInv, TcpTypes, OpenedLocally, NoEarlyFin, AckIsLast, Early

LEMMA FallSilentInv == TcpInv /\ FallSilent => TcpInv'
<1> SUFFICES ASSUME TcpInv, FallSilent PROVE TcpInv'
  OBVIOUS
<1>1. PICK h \in Hosts : tcp' = [tcp EXCEPT ![h] = "done"]
  BY DEF FallSilent
<1>2. tcp' \in [Hosts -> TcpStates]
      /\ \A k \in Hosts : tcp'[k] \in {tcp[k], "done"}
  BY <1>1, HostUpdate DEF TcpInv, TcpStates
<1>3. tcp'["local"] \in {tcp["local"], "done"} /\ tcp'["remote"] \in {tcp["remote"], "done"}
  BY <1>2, HostNames
<1>4. flow' = flow /\ net' = net /\ tun' = tun /\ missed' = missed
  BY DEF FallSilent
<1> QED
  BY <1>2, <1>3, <1>4 DEF TcpInv, TcpTypes, OpenedLocally, NoEarlyFin, AckIsLast, Early

LEMMA MaintainInv ==
  ASSUME TcpInv, Maintain
  PROVE  TcpInv'
<1> DEFINE age == IF flow.age > FlowTimeout THEN flow.age ELSE flow.age + 1
           n == StateTick(flow.state, FALSE, age > FlowTimeout, TRUE)
<1>1. /\ flow # NoFlow /\ tun = << >>
      /\ flow' = IF flow.state = "CLOSED" THEN NoFlow ELSE [state |-> n, age |-> age]
      /\ tcp' = tcp /\ tun' = tun /\ net' = net /\ missed' = missed
  BY DEF Maintain
<1>2. flow.state \in FlowStates /\ flow.age \in Nat
  BY <1>1 DEF TcpInv, TcpTypes
<1>3. age \in Nat /\ (age > FlowTimeout) \in BOOLEAN
  BY <1>2, FlowTcpAssumption
<1>4. /\ n \in FlowStates
      /\ flow.state \notin {"FIN", "RST"} => n \notin {"FIN", "RST"}
      /\ flow.state = "ESTABLISHED" => n = "ESTABLISHED"
  BY <1>2, <1>3, TickState
<1> HIDE DEF n, age
<1>5. flow' # NoFlow => /\ flow' \in [state: FlowStates, age: Nat]
                        /\ flow'.state = n
  BY <1>1, <1>3, <1>4, SomeFlow
<1>6. flow.state = "ESTABLISHED" => flow' # NoFlow
  BY <1>1, <1>3, <1>4, SomeFlow
<1> QED
  BY <1>1, <1>4, <1>5, <1>6 DEF TcpInv, TcpTypes, OpenedLocally, NoEarlyFin, AckIsLast, Early

(***************************************************************************)
(* A connection that the local host has opened is known and ESTABLISHED    *)
(* while both hosts regard it as open, so that tick() does not expire it:  *)
(* for any number of segments that the network repeats, loses or delays or *)
(* that wait, and any timeout.  The translator may drop segments too; the  *)
(* statement holds again as soon as it passes one of the local host on.    *)
(***************************************************************************)
THEOREM OpenKept ==
  ASSUME Openers \subseteq {"local"}
  PROVE  TcpSpec => []OpenConnectionKept
<1>1. TcpInit => TcpInv
  BY InitTcp
<1>2. TcpInv /\ [TcpNext]_tcpVars => TcpInv'
  <2> SUFFICES ASSUME TcpInv, [TcpNext]_tcpVars PROVE TcpInv'
    OBVIOUS
  <2>1. CASE LocalSends
    BY <2>1, LocalSendsInv
  <2>2. CASE RemoteSends
    BY <2>2, RemoteSendsInv
  <2>3. CASE RemoteReceives
    BY <2>3, RemoteReceivesInv
  <2>4. CASE TcpIngress
    BY <2>4, IngressInv
  <2>5. CASE TcpEgress
    BY <2>5, EgressInv
  <2>6. CASE Lose
    BY <2>6, LoseInv
  <2>7. CASE FallSilent
    BY <2>7, FallSilentInv
  <2>8. CASE Maintain
    BY <2>8, MaintainInv
  <2>9. CASE TcpIngressFails
    BY <2>9, IngressFailsInv
  <2>10. CASE TcpEgressDrops
    BY <2>10, EgressDropsInv
  <2>11. CASE UNCHANGED tcpVars
    BY <2>11 DEF tcpVars, TcpInv, TcpTypes, OpenedLocally, NoEarlyFin, AckIsLast, Early
  <2> QED
    BY <2>1, <2>2, <2>3, <2>4, <2>5, <2>6, <2>7, <2>8, <2>9, <2>10, <2>11 DEF TcpNext
<1>3. TcpInv => OpenConnectionKept
  BY DEF TcpInv, AckIsLast, Early, OpenConnectionKept
<1> QED
  BY <1>1, <1>2, <1>3, PTL DEF TcpSpec
=============================================================================
