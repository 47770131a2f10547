------------------------------ MODULE FlowTcp ------------------------------
(***************************************************************************)
(* One TCP connection whose packets pass the translator, and the flow      *)
(* Scitra-TUN keeps for it.  The flow sees what the local host sends       *)
(* before the network loses, delays or repeats it, and what the remote     *)
(* host sends after that.  Packets of the local host wait in the queue of  *)
(* the TUN device until the translator's egress thread reads them.         *)
(*                                                                         *)
(* The two TCP hosts are external.  They open the connection from one      *)
(* side, retransmit, acknowledge, close and may fall silent.               *)
(*                                                                         *)
(* Names begin with Tcp where ScitraFlows has the same ones: the proofs    *)
(* extend both modules.                                                    *)
(***************************************************************************)
EXTENDS Flow, SequencesExt

CONSTANTS
  NoFlow,         \* the flow is not in the table
  FlowTimeout,    \* FLOW_TIMEOUT in maintenance intervals
  Openers,        \* hosts that may open the connection
  MaxQueue        \* bound on the queue of the TUN device

ASSUME FlowTcpAssumption ==
  /\ FlowTimeout \in Nat /\ Openers \subseteq {"local", "remote"} /\ MaxQueue \in Nat
  /\ NoFlow \notin [state: FlowStates, age: Nat]

VARIABLES
  flow,       \* NoFlow or [state, age]: age counts maintenance runs since the last use
  tcp,        \* states of the TCP endpoints
  tun,        \* segments the local host has sent, not yet translated
  net,        \* segments in flight to each host
  missed      \* history: since egress last passed a segment on, it has dropped
              \* one or ingress could not write one to the TUN device

tcpVars == <<flow, tcp, tun, net, missed>>

Hosts == {"local", "remote"}

SYN == {"SYN"}
SYNACK == {"SYN", "ACK"}
ACK == {"ACK"}
FIN == {"FIN", "ACK"}
Segments == {SYN, SYNACK, ACK, FIN}

TcpStates == {"listen", "closed", "synsent", "synrcvd", "est", "finwait", "closewait", "done"}

TcpTypeOK ==
  /\ flow # NoFlow => flow \in [state: FlowStates, age: 0 .. FlowTimeout + 1]
  /\ tcp \in [Hosts -> TcpStates]
  /\ tun \in Seq(Segments)
  /\ net \in [Hosts -> SUBSET Segments]
  /\ missed \in BOOLEAN

TcpInit ==
  /\ flow = NoFlow
  /\ \E o \in Openers : tcp = [h \in Hosts |-> IF h = o THEN "closed" ELSE "listen"]
  /\ tun = << >>
  /\ net = [h \in Hosts |-> {}]
  /\ missed = FALSE

Plain(seg) == [tcp |-> TRUE, flags |-> seg, opts |-> {}]

\* getFlowEgress(), getFlowIngress(): a new flow is in state OPEN.
Current == IF flow = NoFlow THEN "OPEN" ELSE flow.state

-----------------------------------------------------------------------------
(***************************************************************************)
(* The TCP hosts                                                           *)
(***************************************************************************)

\* State and reply of a host in state s that receives seg.
Receive(s, seg) ==
  CASE s \in {"listen", "synrcvd"} /\ seg = SYN -> <<"synrcvd", {SYNACK}>>
    [] s = "synsent" /\ seg = SYNACK -> <<"est", {ACK}>>
    [] s = "synrcvd" /\ seg = ACK -> <<"est", {}>>
    [] s = "est" /\ "SYN" \in seg -> <<"est", {ACK}>>
    [] s = "est" /\ seg = FIN -> <<"closewait", {ACK}>>
    [] s = "finwait" /\ seg = FIN -> <<"done", {ACK}>>
    [] OTHER -> <<s, {}>>

\* Segments a host may send on its own, and the state it is in afterwards.
Send(s) ==
  CASE s = "closed" -> {<<SYN, "synsent">>}
    [] s = "synsent" -> {<<SYN, "synsent">>}
    [] s = "synrcvd" -> {<<SYNACK, "synrcvd">>}
    [] s = "est" -> {<<ACK, "est">>, <<FIN, "finwait">>}
    [] s = "closewait" -> {<<ACK, "closewait">>, <<FIN, "done">>}
    [] OTHER -> {}

LocalSends ==
  /\ Len(tun) < MaxQueue
  /\ \E m \in Send(tcp["local"]) :
       /\ tun' = Append(tun, m[1])
       /\ tcp' = [tcp EXCEPT !["local"] = m[2]]
  /\ UNCHANGED <<flow, net, missed>>

RemoteSends ==
  /\ \E m \in Send(tcp["remote"]) :
       /\ net' = [net EXCEPT !["local"] = @ \cup {m[1]}]
       /\ tcp' = [tcp EXCEPT !["remote"] = m[2]]
  /\ UNCHANGED <<flow, tun, missed>>

\* A segment arrives at the remote host; a copy may stay in the network.
RemoteReceives ==
  /\ \E seg \in net["remote"], copy \in BOOLEAN :
       LET r == Receive(tcp["remote"], seg)
       IN /\ tcp' = [tcp EXCEPT !["remote"] = r[1]]
          /\ net' = [net EXCEPT !["remote"] = IF copy THEN @ ELSE @ \ {seg},
                                !["local"] = @ \cup r[2]]
  /\ UNCHANGED <<flow, tun, missed>>

\* A segment arrives: translateScionToIP() updates the flow and passes it on.
TcpIngress ==
  \E seg \in net["local"], copy \in BOOLEAN :
    LET r == Receive(tcp["local"], seg)
    IN /\ Len(tun) < MaxQueue
       /\ flow' = [state |-> StateIngress(Current, Plain(seg)), age |-> 0]
       /\ tcp' = [tcp EXCEPT !["local"] = r[1]]
       /\ tun' = tun \o SetToSeq(r[2])
       /\ net' = [net EXCEPT !["local"] = IF copy THEN @ ELSE @ \ {seg}]
       /\ UNCHANGED missed

(***************************************************************************)
(* The flow is updated, but the segment cannot be written to the TUN       *)
(* device: it is lost behind the flow.                                     *)
(***************************************************************************)
TcpIngressFails ==
  /\ \E seg \in net["local"], copy \in BOOLEAN :
       /\ flow' = [state |-> StateIngress(Current, Plain(seg)), age |-> 0]
       /\ net' = [net EXCEPT !["local"] = IF copy THEN @ ELSE @ \ {seg}]
  /\ missed' = TRUE
  /\ UNCHANGED <<tcp, tun>>

\* translateIPtoScion() reads a segment, updates the flow and sends it.
TcpEgress ==
  /\ tun # << >>
  /\ flow' = [state |-> StateEgress(Current, Plain(Head(tun))), age |-> 0]
  /\ net' = [net EXCEPT !["remote"] = @ \cup {Head(tun)}]
  /\ tun' = Tail(tun)
  /\ missed' = FALSE
  /\ UNCHANGED tcp

\* A flow that has been created and not updated: its last use is the zero time point.
Fresh == [state |-> "OPEN", age |-> FlowTimeout + 1]

(***************************************************************************)
(* translateIPtoScion() drops a segment: there is no path, the path is     *)
(* pending, broken or too small, or there is no socket.  getFlowEgress()   *)
(* may have created the flow before; it has no state of the segment.       *)
(***************************************************************************)
TcpEgressDrops ==
  /\ tun # << >>
  /\ flow' \in {flow, IF flow = NoFlow THEN Fresh ELSE flow}
  /\ tun' = Tail(tun)
  /\ missed' = TRUE
  /\ UNCHANGED <<tcp, net>>

Lose ==
  /\ \E h \in Hosts : \E seg \in net[h] : net' = [net EXCEPT ![h] = @ \ {seg}]
  /\ UNCHANGED <<flow, tcp, tun, missed>>

\* A host crashes or gives up without telling the other.
FallSilent ==
  /\ \E h \in Hosts : tcp' = [tcp EXCEPT ![h] = "done"]
  /\ UNCHANGED <<flow, tun, net, missed>>

-----------------------------------------------------------------------------
(***************************************************************************)
(* maintainFlowsAndSockets(): a flow that was CLOSED before is removed,    *)
(* any other one is advanced.  Packets do not wait in the TUN device that  *)
(* long.                                                                   *)
(***************************************************************************)
Maintain ==
  /\ flow # NoFlow
  /\ tun = << >>
  /\ LET age == IF flow.age > FlowTimeout THEN flow.age ELSE flow.age + 1
     IN flow' = IF flow.state = "CLOSED" THEN NoFlow
                ELSE [state |-> StateTick(flow.state, FALSE, age > FlowTimeout, TRUE),
                      age   |-> age]
  /\ UNCHANGED <<tcp, tun, net, missed>>

TcpNext ==
  \/ LocalSends \/ RemoteSends \/ RemoteReceives
  \/ TcpIngress \/ TcpIngressFails \/ TcpEgress \/ TcpEgressDrops
  \/ Lose \/ FallSilent \/ Maintain

TcpSpec == TcpInit /\ [][TcpNext]_tcpVars /\ WF_tcpVars(Maintain)
-----------------------------------------------------------------------------
(***************************************************************************)
(* Properties                                                              *)
(***************************************************************************)

(***************************************************************************)
(* flow.hpp, FlowState: "ESTABLISHED, // TCP established".  While both     *)
(* hosts regard the connection as open and no packet of the local host     *)
(* waits for its translation, the flow is known and ESTABLISHED, so that   *)
(* tick() never expires it: whatever segments of the handshake are lost,   *)
(* delayed or repeated and however long the connection is idle.  A segment *)
(* that the translator itself loses may mislead the flow, but only until   *)
(* the next one of the local host is passed on.                            *)
(***************************************************************************)
OpenConnectionKept ==
  tcp["local"] = "est" /\ tcp["remote"] = "est" /\ tun = << >> /\ ~missed
    => flow # NoFlow /\ flow.state = "ESTABLISHED"

(***************************************************************************)
(* The same without the exception, which the code does not keep: a         *)
(* repeated SYN-ACK takes the flow to SYN_RCVD, and it stays there if that *)
(* segment or the answer to it is lost in the translator.                  *)
(***************************************************************************)
OpenConnectionAlwaysKept ==
  tcp["local"] = "est" /\ tcp["remote"] = "est" /\ tun = << >>
    => flow # NoFlow /\ flow.state = "ESTABLISHED"

\* No packet is under way and none will be sent any more.
Silent == tcp = [h \in Hosts |-> "done"] /\ tun = << >> /\ net = [h \in Hosts |-> {}]

(***************************************************************************)
(* A flow that is not taken for an established connection is forgotten     *)
(* once its packets cease: the handshake that was never answered and the   *)
(* connection that was closed or reset do not stay in the flow table.      *)
(***************************************************************************)
UnusedFlowForgotten ==
  (Silent /\ flow # NoFlow /\ flow.state # "ESTABLISHED") ~> flow = NoFlow
=============================================================================
