----------------------------- MODULE StunSocket -----------------------------
(***************************************************************************)
(* Scitra-TUN's underlay socket behind a NAT                               *)
(* (scitra/src/scitra-tun/socket.cpp): packets leave with the external     *)
(* address that a STUN server reports.  Threads call sendPacket(), a       *)
(* coroutine receives the answers of the STUN server.                      *)
(*                                                                         *)
(* The NAT, the network and the STUN server are external.  Messages may be *)
(* lost, repeated and delayed up to MaxDelay.  The NAT may assign a new    *)
(* external address after more than NatTimeout of inactivity.  A tick is   *)
(* much longer than a call of sendPacket().                                *)
(***************************************************************************)
EXTENDS Integers, FiniteSets

CONSTANTS
  Threads,        \* threads that call sendPacket()
  External,       \* external addresses of the NAT
  Local,          \* the address the socket is bound to
  Unmapped,       \* m_mapped is a null pointer
  Txs,            \* STUN transaction IDs
  NoTx,           \* the ID before the first request
  NoPacket,       \* no packet is held
  NatTimeout,     \* NAT_TIMEOUT
  MaxDelay,       \* bound on the age of a message in the network
  Start,          \* the steady clock, which counts from boot, at the start
  MaxTime,        \* bound on the clock
  MaxPackets,     \* bound on packets
  Broken          \* TRUE if the underlay may refuse to send a packet

Limit == 3        \* requests without an answer after which STUN is given up

ASSUME StunSocketAssumption ==
  /\ {NatTimeout, MaxDelay, Start, MaxTime, MaxPackets} \subseteq Nat
  /\ MaxDelay <= NatTimeout
  /\ Start <= MaxTime
  /\ Local \notin External
  /\ Unmapped \notin External \cup {Local}
  /\ NoTx \notin Txs
  /\ NoPacket \notin Nat
  /\ Broken \in BOOLEAN

VARIABLES
  now,        \* steady_clock
  mapped,     \* m_mapped
  lastUsed,   \* m_lastUsed
  expect,     \* expectStunResponse
  stunTx,     \* stunTx
  held,       \* heldPacket
  thread,     \* [Threads -> state of the call of sendPacket()]
  packets,    \* number of packets so far; packets are numbered
  sent,       \* history: packets sent to a router
  waiting,    \* history: packets in a row without an attempt to send one, since the
              \* last answer of the STUN server
  lostHeld,   \* history: the last held packet could not be sent
  net,        \* STUN messages in flight
  nat         \* external address and ticks since it was last used

vars == <<now, mapped, lastUsed, expect, stunTx, held, thread, packets, sent, waiting, lostHeld, net, nat>>

Addrs == External \cup {Local, Unmapped}
Ready == [pc |-> "ready"]

Call == {Ready} \cup
  [pc: {"request", "nat", "emit"}, pkt: 1 .. MaxPackets, t: Nat, src: Addrs]

\* A response without an address has Unmapped in ep.
Message ==
  [kind: {"request", "response"}, tx: Txs, ep: External \cup {Unmapped}, age: 0 .. MaxDelay]

TypeOK ==
  /\ now \in Start .. MaxTime
  /\ mapped \in Addrs
  /\ lastUsed \in Nat
  /\ expect \in 0 .. Limit
  /\ stunTx \in Txs \cup {NoTx}
  /\ held \in (1 .. MaxPackets) \cup {NoPacket}
  /\ thread \in [Threads -> Call]
  /\ packets \in 0 .. MaxPackets
  /\ sent \subseteq 1 .. MaxPackets
  /\ waiting \in 0 .. MaxPackets
  /\ lostHeld \in BOOLEAN
  /\ net \subseteq Message
  /\ nat \in [ep: External, idle: 0 .. NatTimeout + 1]

Init ==
  /\ now = Start
  /\ mapped = Unmapped
  /\ lastUsed = 0
  /\ expect = 0
  /\ stunTx = NoTx
  /\ held = NoPacket
  /\ thread = [t \in Threads |-> Ready]
  /\ packets = 0
  /\ sent = {}
  /\ waiting = 0
  /\ lostHeld = FALSE
  /\ net = {}
  /\ nat \in [ep: External, idle: {0}]

-----------------------------------------------------------------------------
(***************************************************************************)
(* sendPacket()                                                            *)
(***************************************************************************)
Stun == <<mapped, expect, stunTx, held>>

Goto(t, pc) == thread' = [thread EXCEPT ![t].pc = pc]
Return(t) == thread' = [thread EXCEPT ![t] = Ready]

\* Fault: the discovery is repeated one tick too late.
BeginLate(t) ==
  /\ thread[t] = Ready
  /\ packets < MaxPackets
  /\ packets' = packets + 1
  /\ waiting' = waiting + 1
  /\ thread' = [thread EXCEPT ![t] =
       [pc  |-> IF now - lastUsed > NatTimeout + 1 THEN "request" ELSE "nat",
        pkt |-> packets + 1, t |-> now, src |-> Unmapped]]
  /\ UNCHANGED <<now, mapped, lastUsed, expect, stunTx, held, sent, lostHeld, net, nat>>

\* The discovery is due if the socket was not used for more than NAT_TIMEOUT.
Begin(t) ==
  /\ thread[t] = Ready
  /\ packets < MaxPackets
  /\ packets' = packets + 1
  /\ waiting' = waiting + 1
  /\ thread' = [thread EXCEPT ![t] =
       [pc  |-> IF now - lastUsed > NatTimeout THEN "request" ELSE "nat",
        pkt |-> packets + 1, t |-> now, src |-> Unmapped]]
  /\ UNCHANGED <<now, mapped, lastUsed, expect, stunTx, held, sent, lostHeld, net, nat>>

\* requestStunMapping(): no answer to three requests, try without STUN.
GiveUp(t) ==
  /\ thread[t].pc = "request"
  /\ expect >= Limit
  /\ expect' = 0
  /\ mapped' = Local
  /\ Goto(t, "nat")
  /\ UNCHANGED <<now, lastUsed, stunTx, held, packets, sent, waiting, lostHeld, net, nat>>

\* Fault: requests are not counted, the socket waits for an answer forever.
RequestUncounted(t) ==
  /\ thread[t].pc = "request"
  /\ \E tx \in Txs \ ({stunTx} \cup {m.tx : m \in net}) :
       /\ stunTx' = tx
       /\ net' = net \cup {[kind |-> "request", tx |-> tx, ep |-> nat.ep, age |-> 0]}
  /\ held' = thread[t].pkt
  /\ nat' = [nat EXCEPT !.idle = 0]
  /\ Return(t)
  /\ UNCHANGED <<now, mapped, lastUsed, expect, packets, sent, waiting, lostHeld>>

\* requestStunMapping(): the packet is held until the answer arrives.
Request(t) ==
  /\ thread[t].pc = "request"
  /\ expect < Limit
  /\ \E tx \in Txs \ ({stunTx} \cup {m.tx : m \in net}) :
       /\ stunTx' = tx
       /\ net' = net \cup {[kind |-> "request", tx |-> tx, ep |-> nat.ep, age |-> 0]}
  /\ expect' = expect + 1
  /\ held' = thread[t].pkt
  /\ nat' = [nat EXCEPT !.idle = 0]
  /\ Return(t)
  /\ UNCHANGED <<now, mapped, lastUsed, packets, sent, waiting, lostHeld>>

\* The request or the packet cannot be sent: an error is returned.
Fail(t) ==
  /\ Broken
  /\ \/ thread[t].pc = "request" /\ expect < Limit
     \/ thread[t].pc = "emit"
  /\ waiting' = 0
  /\ Return(t)
  /\ UNCHANGED <<now, mapped, lastUsed, expect, stunTx, held, packets, sent, lostHeld, net, nat>>

\* egressNat()
EgressNat(t) ==
  /\ thread[t].pc = "nat"
  /\ thread' = [thread EXCEPT ![t].pc = "emit", ![t].src = mapped]
  /\ UNCHANGED <<now, mapped, lastUsed, expect, stunTx, held, packets, sent, waiting, lostHeld, net, nat>>

Emit(t) ==
  /\ thread[t].pc = "emit"
  /\ sent' = sent \cup {thread[t].pkt}
  /\ waiting' = 0
  /\ lastUsed' = thread[t].t
  /\ nat' = [nat EXCEPT !.idle = 0]
  /\ Return(t)
  /\ UNCHANGED <<now, mapped, expect, stunTx, held, packets, lostHeld, net>>

-----------------------------------------------------------------------------
(***************************************************************************)
(* recvPacket(): the branch for STUN binding responses                     *)
(***************************************************************************)

\* Fault: the held packet is not released after it was sent.
SendHeldAgain ==
  \/ /\ held = NoPacket
     /\ UNCHANGED <<held, lastUsed, sent, waiting, lostHeld, nat>>
  \/ /\ held # NoPacket
     /\ lastUsed' = now
     /\ waiting' = 0
     /\ sent' = sent \cup {held}
     /\ lostHeld' = FALSE
     /\ nat' = [nat EXCEPT !.idle = 0]
     /\ UNCHANGED held

\* Fault: m_lastUsed is updated even if no packet is held.
SendHeldStamped ==
  /\ held' = NoPacket
  /\ lastUsed' = now
  /\ IF held = NoPacket
     THEN UNCHANGED <<sent, waiting, lostHeld, nat>>
     ELSE /\ waiting' = 0
          /\ sent' = sent \cup {held}
          /\ lostHeld' = FALSE
          /\ nat' = [nat EXCEPT !.idle = 0]

\* sendHeldPacket(), if a packet is held: its errors are ignored.
SendHeld ==
  \/ /\ held = NoPacket
     /\ UNCHANGED <<held, lastUsed, sent, waiting, lostHeld, nat>>
  \/ /\ held # NoPacket
     /\ held' = NoPacket
     /\ lastUsed' = now
     /\ waiting' = 0
     /\ \/ /\ sent' = sent \cup {held}
           /\ lostHeld' = FALSE
           /\ nat' = [nat EXCEPT !.idle = 0]
        \/ /\ Broken
           /\ lostHeld' = TRUE
           /\ UNCHANGED <<sent, nat>>

\* An answer to another request than the last one is ignored.  One that tells
\* no address ends the wait for an answer, but the packet stays held.
Response(m) ==
  /\ m.kind = "response"
  /\ m.tx = stunTx
  /\ expect' = 0
  /\ \/ /\ m.ep # Unmapped
        /\ mapped' = m.ep
        /\ SendHeld
     \/ /\ m.ep = Unmapped
        /\ waiting' = 0
        /\ UNCHANGED <<mapped, held, lastUsed, sent, lostHeld, nat>>
  /\ \E copy \in BOOLEAN : net' = IF copy THEN net ELSE net \ {m}
  /\ UNCHANGED <<now, stunTx, thread, packets>>

-----------------------------------------------------------------------------
(***************************************************************************)
(* The STUN server, the network and the NAT (external)                     *)
(***************************************************************************)
\* The address of the request is part of the response, or not.
Server(m) ==
  /\ m.kind = "request"
  /\ \E ep \in {m.ep, Unmapped} :
       net' = (net \ {m}) \cup {[m EXCEPT !.kind = "response", !.ep = ep]}
  /\ UNCHANGED <<now, mapped, lastUsed, expect, stunTx, held, thread, packets, sent, waiting, lostHeld, nat>>

Lose(m) ==
  /\ net' = net \ {m}
  /\ UNCHANGED <<now, mapped, lastUsed, expect, stunTx, held, thread, packets, sent, waiting, lostHeld, nat>>

Tick ==
  /\ now < MaxTime
  /\ \A t \in Threads : thread[t] = Ready
  /\ \A m \in net : m.age < MaxDelay
  /\ now' = now + 1
  /\ net' = {[m EXCEPT !.age = @ + 1] : m \in net}
  /\ IF nat.idle < NatTimeout
     THEN nat' = [nat EXCEPT !.idle = @ + 1]
     ELSE nat' \in [ep: External, idle: {NatTimeout + 1}]
  /\ UNCHANGED <<mapped, lastUsed, expect, stunTx, held, thread, packets, sent, waiting, lostHeld>>

Next ==
  \/ \E t \in Threads : Begin(t) \/ GiveUp(t) \/ Request(t) \/ Fail(t) \/ EgressNat(t) \/ Emit(t)
  \/ \E m \in net : Response(m) \/ Server(m) \/ Lose(m)
  \/ Tick

Spec == Init /\ [][Next]_vars
-----------------------------------------------------------------------------
(***************************************************************************)
(* Properties                                                              *)
(***************************************************************************)

(***************************************************************************)
(* scitra-tun.8.md: the mapping "requires STUN address discovery to be     *)
(* repeated" after --nat-timeout of inactivity.  A packet that is about to *)
(* be sent carries the address the NAT assigns to it at this moment,       *)
(* unless STUN was given up: whatever threads race, however answers are    *)
(* lost, late or repeated or tell no address, and whatever sendPacket()    *)
(* fails to send.  After a failure of sendHeldPacket() this is not         *)
(* guaranteed: see LastUsedIsSent.  A socket opened within NAT_TIMEOUT of  *)
(* the epoch of the clock sends without a mapping: m_lastUsed starts there.*)
(***************************************************************************)
Current(a) == a \in {nat.ep, Local} \/ (a = Unmapped /\ Start <= NatTimeout)

MappingCurrent ==
  \A t \in Threads :
    thread[t].pc = "emit" => lostHeld \/ Current(thread[t].src)

(***************************************************************************)
(* sendPacket() never holds back more than three packets in a row unless   *)
(* an answer comes in between: a STUN server that does not answer cannot   *)
(* block the socket.  One that answers can: see SomePacketSent.            *)
(***************************************************************************)
NotBlocked ==
  (\A t \in Threads : thread[t] = Ready) => waiting <= Limit

(***************************************************************************)
(* No packet is sent twice: a packet is on its way in one thread or held,  *)
(* never both, and neither after it was sent.  Repeated answers of the     *)
(* STUN server do not repeat the held packet.                              *)
(***************************************************************************)
SentOnce ==
  /\ held \notin sent
  /\ \A t \in Threads : thread[t] # Ready => thread[t].pkt \notin sent \cup {held}

(***************************************************************************)
(* m_lastUsed never runs ahead of what the NAT has seen, otherwise the     *)
(* discovery is not repeated when the NAT may have forgotten the mapping;  *)
(* again with the exception of a held packet that could not be sent.       *)
(***************************************************************************)
IdleNotUnderestimated ==
  lostHeld \/ now - lastUsed >= nat.idle \/ nat.idle > NatTimeout

-----------------------------------------------------------------------------
(***************************************************************************)
(* Statements of the headers that the code does not keep                   *)
(***************************************************************************)

(***************************************************************************)
(* requestStunMapping(): "Give up on STUN and try direct connection" after *)
(* three requests, so that of four packets in a row one leaves, in case of *)
(* one thread and if sending does not fail (Broken = FALSE).  An answer    *)
(* without an address starts the count again: a server that tells none     *)
(* blocks the socket.                                                      *)
(***************************************************************************)
SomePacketSent ==
  (\A t \in Threads : thread[t] = Ready) /\ packets > Limit
    => \E p \in sent : p >= packets - Limit

(***************************************************************************)
(* The first packet already leaves with the address the NAT assigns to it. *)
(* Not so if the socket is opened within NAT_TIMEOUT of the clock's epoch. *)
(***************************************************************************)
NeverUnmapped == \A t \in Threads : thread[t].pc = "emit" => thread[t].src # Unmapped

(***************************************************************************)
(* socket.hpp, heldPacket: "Packet that must be sent once the address      *)
(* mapping is known."  A held packet is given up only by sending it.       *)
(***************************************************************************)
HeldPacketSent ==
  [][held # NoPacket /\ held' # held => held \in sent']_vars

(***************************************************************************)
(* socket.hpp, m_lastUsed: "Last time something was sent from the socket." *)
(* recvPacket() stores the time even if sendHeldPacket() has failed.       *)
(***************************************************************************)
LastUsedIsSent ==
  [][lastUsed' # lastUsed => sent' # sent]_vars
=============================================================================
