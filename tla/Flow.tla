-------------------------------- MODULE Flow --------------------------------
(***************************************************************************)
(* The state of a packet flow through the translator                       *)
(* (scitra/include/scitra/scitra-tun/flow.hpp): how FlowProxy guesses the  *)
(* state of a TCP connection from the packets that pass by, and how time   *)
(* advances it.                                                            *)
(*                                                                         *)
(* A packet is a record [tcp, flags, opts].  MPTCP options with the same   *)
(* effect (DSS, ADD_ADDR, REMOVE_ADDR, MP_PRIO) are all called "signal".   *)
(***************************************************************************)
EXTENDS Naturals

\* FlowState
FlowStates == {"CLOSED", "CLOSED_WAIT", "OPEN", "SYN_SENT", "SYN_RCVD",
               "ESTABLISHED", "FIN", "RST", "TIMEOUT"}

\* FlowState > ESTABLISHED: the connection is being torn down.
TearDown == {"FIN", "RST", "TIMEOUT"}

Packets == [tcp: BOOLEAN, flags: SUBSET {"SYN", "ACK", "FIN", "RST"},
            opts: SUBSET {"capable", "join", "signal"}]

\* Fault: an answered handshake is not recognised.
GuessStateLate(s, p, half, reply, opened) ==
  IF ~p.tcp                     THEN "OPEN"
  ELSE IF "FIN" \in p.flags     THEN "FIN"
  ELSE IF "RST" \in p.flags     THEN "RST"
  ELSE IF "SYN" \in p.flags     THEN opened
  ELSE IF s \in {"FIN", "RST"}  THEN s
  ELSE IF s = half              THEN s
  ELSE "ESTABLISHED"

(***************************************************************************)
(* Both directions follow the same rules.  "half" is the state of a        *)
(* handshake that the other side has opened, which a packet with the flags *)
(* "reply" completes; "opened" is the state after a SYN in this direction. *)
(***************************************************************************)
GuessState(s, p, half, reply, opened) ==
  IF ~p.tcp                     THEN "OPEN"
  ELSE IF "FIN" \in p.flags     THEN "FIN"
  ELSE IF "RST" \in p.flags     THEN "RST"
  ELSE IF s = half              THEN (IF reply \subseteq p.flags THEN "ESTABLISHED" ELSE s)
  ELSE IF "SYN" \in p.flags     THEN opened
  ELSE IF s \in {"FIN", "RST"}  THEN s
  ELSE "ESTABLISHED"

\* The packet shows that the flow belongs to an MPTCP connection.
ShowsMultipath(s, p, half, reply) ==
  /\ p.tcp
  /\ p.flags \cap {"FIN", "RST"} = {}
  /\ \/ s = half /\ reply \subseteq p.flags /\ "capable" \in p.opts
     \/ s # half /\ "SYN" \in p.flags /\ "join" \in p.opts
     \/ /\ s \notin {half, "FIN", "RST"}
        /\ "SYN" \notin p.flags
        /\ p.opts \cap {"capable", "signal"} # {}

\* updateStateEgress()
StateEgress(s, p) == GuessState(s, p, "SYN_RCVD", {"ACK"}, "SYN_SENT")
MultipathEgress(s, p) == ShowsMultipath(s, p, "SYN_RCVD", {"ACK"})

\* updateStateIngress()
StateIngress(s, p) == GuessState(s, p, "SYN_SENT", {"SYN", "ACK"}, "SYN_RCVD")
MultipathIngress(s, p) == ShowsMultipath(s, p, "SYN_SENT", {"SYN", "ACK"})

\* Fault: an unused flow does not time out.
AdvanceNever(s, multipath, expired) ==
  IF s \in TearDown THEN (IF multipath THEN "CLOSED_WAIT" ELSE "CLOSED") ELSE s

(***************************************************************************)
(* tick(): "expired" means that the flow was last used more than           *)
(* FLOW_TIMEOUT ago, "alone" that it has no subflows.                      *)
(***************************************************************************)
Advance(s, multipath, expired) ==
  IF s \in TearDown THEN (IF multipath THEN "CLOSED_WAIT" ELSE "CLOSED")
  ELSE IF s \notin {"CLOSED", "ESTABLISHED"} /\ expired THEN "TIMEOUT"
  ELSE s

StateTick(s, multipath, expired, alone) ==
  LET t == Advance(s, multipath, expired)
  IN IF t = "CLOSED_WAIT" /\ alone THEN "CLOSED" ELSE t
=============================================================================
