------------------------- MODULE StunSocket_proofs -------------------------
(***************************************************************************)
(* Proofs about Scitra-TUN's underlay socket for any number of threads,    *)
(* addresses, packets and transactions, any timeout of the NAT and any     *)
(* delay of messages that does not exceed it.                              *)
(***************************************************************************)
EXTENDS StunSocket, FiniteSetTheorems, TLAPS

\* A packet of the thread is neither sent nor held.
Owns(t) == thread[t].pkt <= packets /\ thread[t].pkt \notin sent \cup {held}

\* Packets are numbered, and each is in one place at a time.
PacketInv ==
  /\ waiting <= packets
  /\ sent \subseteq 1 .. packets
  /\ held # NoPacket => held <= packets /\ held \notin sent
  /\ \A t \in Threads : thread[t] # Ready => Owns(t)
  /\ \A t, u \in Threads : t # u /\ thread[t] # Ready /\ thread[u] # Ready =>
       thread[t].pkt # thread[u].pkt

\* A call takes no time, and the socket does not believe to have been used
\* later than the NAT has seen a packet.
ClockInv ==
  /\ lastUsed <= now
  /\ \A t \in Threads : thread[t] # Ready => thread[t].t = now
  /\ lostHeld \/ now - lastUsed >= nat.idle

\* A message in flight has kept the NAT's mapping alive.
NetInv == \A m \in net : m.ep \in {nat.ep, Unmapped} /\ nat.idle <= m.age

Requesting == {t \in Threads : thread[t].pc = "request"}
Sending    == {t \in Threads : thread[t].pc \in {"nat", "emit"}}

\* Packets are held back only by requests that were not answered yet.
WaitInv ==
  /\ held = NoPacket => expect = 0
  /\ IsFiniteSet(Requesting)
  /\ Sending # {} \/ waiting <= expect + Cardinality(Requesting)

Recent == now - lastUsed <= NatTimeout

\* The socket relies on a mapping that the NAT has forgotten.
Stale == Recent /\ ~Current(mapped)

\* The mapping can be stale only after a held packet was lost, and then
\* nobody is about to request a new one and no answer is expected.
StaleInv ==
  /\ Stale => /\ lostHeld
              /\ Requesting = {}
              /\ \A m \in net : m.tx # stunTx
  /\ ~Stale => \A t \in Sending :
       Current(mapped) /\ (thread[t].pc = "emit" => Current(thread[t].src))

IInv == TypeOK /\ PacketInv /\ ClockInv /\ NetInv /\ WaitInv

-----------------------------------------------------------------------------
\* A call in progress is told from a thread at rest by its program counter.
LEMMA CallPc ==
  ASSUME NEW c \in Call
  PROVE  /\ c = Ready <=> c.pc = "ready"
         /\ c # Ready => /\ c.pc \in {"request", "nat", "emit"}
                         /\ c.pkt \in 1 .. MaxPackets
                         /\ c.t \in Nat
                         /\ c.src \in Addrs
BY DEF Call, Ready

\* What a step of a thread does to the calls of all threads.
LEMMA ThreadStep ==
  ASSUME TypeOK, NEW t \in Threads, NEW c, thread' = [thread EXCEPT ![t] = c]
  PROVE  /\ thread'[t] = c
         /\ \A u \in Threads \ {t} : thread'[u] = thread[u]
         /\ c \in Call => thread' \in [Threads -> Call]
BY DEF TypeOK

\* A call goes on to pc.
LEMMA GotoStep ==
  ASSUME TypeOK, NEW t \in Threads, thread[t] # Ready, NEW pc \in {"nat", "emit"},
         NEW a \in Addrs,
         \/ Goto(t, pc) /\ a = thread[t].src
         \/ thread' = [thread EXCEPT ![t].pc = pc, ![t].src = a]
  PROVE  /\ thread' \in [Threads -> Call]
         /\ \A u \in Threads \ {t} : thread'[u] = thread[u]
         /\ thread'[t] = [pc |-> pc, pkt |-> thread[t].pkt, t |-> thread[t].t, src |-> a]
         /\ thread'[t] # Ready
<1> DEFINE c == [pc |-> pc, pkt |-> thread[t].pkt, t |-> thread[t].t, src |-> a]
<1>1. thread \in [Threads -> Call]
  BY DEF TypeOK
<1>2. /\ thread[t] \in [pc: {"request", "nat", "emit"}, pkt: 1 .. MaxPackets, t: Nat, src: Addrs]
  BY <1>1 DEF Call
<1>3. c \in Call /\ c # Ready
  BY <1>2 DEF Call, Ready
<1>4. thread' = [thread EXCEPT ![t] = c]
  BY <1>1, <1>2 DEF Goto
<1> HIDE DEF c
<1>5. QED
  BY <1>3, <1>4, ThreadStep DEF c

\* A call starts.
LEMMA BeginStep ==
  ASSUME TypeOK, NEW t \in Threads, Begin(t)
  PROVE  /\ thread[t] = Ready
         /\ \A u \in Threads \ {t} : thread'[u] = thread[u]
         /\ thread'[t].pc = IF now - lastUsed > NatTimeout THEN "request" ELSE "nat"
         /\ thread'[t].pkt = packets + 1
         /\ thread'[t].t = now
<1> DEFINE c == [pc  |-> IF now - lastUsed > NatTimeout THEN "request" ELSE "nat",
                 pkt |-> packets + 1, t |-> now, src |-> Unmapped]
<1>1. thread' = [thread EXCEPT ![t] = c] /\ thread[t] = Ready
  BY DEF Begin
<1>2. /\ c.pc = IF now - lastUsed > NatTimeout THEN "request" ELSE "nat"
      /\ c.pkt = packets + 1
      /\ c.t = now
  OBVIOUS
<1> HIDE DEF c
<1>3. thread'[t] = c /\ \A u \in Threads \ {t} : thread'[u] = thread[u]
  BY <1>1, ThreadStep
<1>4. QED BY <1>1, <1>2, <1>3

\* STUN is given up.
LEMMA GiveUpStep ==
  ASSUME TypeOK, NEW t \in Threads, GiveUp(t)
  PROVE  /\ thread' \in [Threads -> Call]
         /\ \A u \in Threads \ {t} : thread'[u] = thread[u]
         /\ thread[t] # Ready /\ thread'[t] # Ready
         /\ thread'[t].pc = "nat"
         /\ thread'[t].pkt = thread[t].pkt
         /\ thread'[t].t = thread[t].t
<1>1. thread[t] # Ready /\ thread[t].src \in Addrs
  BY CallPc DEF GiveUp, TypeOK
<1>2. Goto(t, "nat")
  BY DEF GiveUp
<1>3. /\ thread' \in [Threads -> Call]
      /\ \A u \in Threads \ {t} : thread'[u] = thread[u]
      /\ thread'[t] = [pc |-> "nat", pkt |-> thread[t].pkt, t |-> thread[t].t,
                       src |-> thread[t].src]
      /\ thread'[t] # Ready
  BY <1>1, <1>2, GotoStep
<1>4. QED BY <1>1, <1>3

\* The mapping becomes the source address of the packet.
LEMMA EgressNatStep ==
  ASSUME TypeOK, NEW t \in Threads, EgressNat(t)
  PROVE  /\ thread' \in [Threads -> Call]
         /\ \A u \in Threads \ {t} : thread'[u] = thread[u]
         /\ thread[t] # Ready /\ thread'[t] # Ready
         /\ thread'[t].pc = "emit"
         /\ thread'[t].src = mapped
         /\ thread'[t].pkt = thread[t].pkt
         /\ thread'[t].t = thread[t].t
<1>1. thread[t] # Ready /\ mapped \in Addrs
  BY CallPc DEF EgressNat, TypeOK
<1>2. thread' = [thread EXCEPT ![t].pc = "emit", ![t].src = mapped]
  BY DEF EgressNat
<1>3. /\ thread' \in [Threads -> Call]
      /\ \A u \in Threads \ {t} : thread'[u] = thread[u]
      /\ thread'[t] = [pc |-> "emit", pkt |-> thread[t].pkt, t |-> thread[t].t,
                       src |-> mapped]
      /\ thread'[t] # Ready
  BY <1>1, <1>2, GotoStep
<1>4. QED BY <1>1, <1>3

\* A call is over.
LEMMA ReturnStep ==
  ASSUME TypeOK, NEW t \in Threads, Return(t)
  PROVE  /\ thread'[t] = Ready
         /\ \A u \in Threads \ {t} : thread'[u] = thread[u]
BY ThreadStep DEF Return

LEMMA Bounds ==
  /\ NatTimeout \in Nat /\ MaxDelay \in Nat /\ Start \in Nat /\ MaxTime \in Nat
  /\ MaxPackets \in Nat /\ MaxDelay <= NatTimeout /\ Start <= MaxTime
  /\ NoPacket \notin Nat
BY StunSocketAssumption

LEMMA TypeInit == Init => TypeOK /\ PacketInv
<1> SUFFICES ASSUME Init PROVE TypeOK /\ PacketInv
  OBVIOUS
<1>1. thread \in [Threads -> Call] /\ \A t \in Threads : thread[t] = Ready
  BY DEF Init, Call
<1>2. now \in Start .. MaxTime /\ nat \in [ep: External, idle: 0 .. NatTimeout + 1]
  BY Bounds DEF Init
<1>3. TypeOK
  <2>1. /\ mapped \in Addrs /\ lastUsed \in Nat /\ expect \in 0 .. Limit
        /\ packets \in 0 .. MaxPackets /\ waiting \in 0 .. MaxPackets
    BY Bounds DEF Init, Addrs, Limit
  <2>2. /\ stunTx \in Txs \cup {NoTx} /\ held \in (1 .. MaxPackets) \cup {NoPacket}
        /\ sent \subseteq 1 .. MaxPackets /\ net \subseteq Message
    BY DEF Init
  <2>3. lostHeld \in BOOLEAN
    BY DEF Init
  <2>4. QED BY <1>1, <1>2, <2>1, <2>2, <2>3 DEF TypeOK
<1>4. PacketInv
  BY <1>1 DEF Init, PacketInv
<1>5. QED BY <1>3, <1>4

LEMMA TypeStep == TypeOK /\ PacketInv /\ [Next]_vars => TypeOK'
<1> SUFFICES ASSUME TypeOK, PacketInv, [Next]_vars PROVE TypeOK'
  OBVIOUS
<1>1. ASSUME NEW t \in Threads, Begin(t) PROVE TypeOK'
  <2> DEFINE c == [pc  |-> IF now - lastUsed > NatTimeout THEN "request" ELSE "nat",
                   pkt |-> packets + 1, t |-> now, src |-> Unmapped]
  <2>1. now \in Nat /\ packets + 1 \in 1 .. MaxPackets /\ waiting + 1 \in 0 .. MaxPackets
    BY <1>1, Bounds DEF TypeOK, PacketInv, Begin
  <2>2. c \in Call
    BY <2>1 DEF Call, Addrs
  <2>3. thread' = [thread EXCEPT ![t] = c]
    BY <1>1 DEF Begin
  <2> HIDE DEF c
  <2>4. thread' \in [Threads -> Call]
    BY <2>2, <2>3, ThreadStep
  <2>5. QED BY <1>1, <2>1, <2>4 DEF Begin, TypeOK
<1>2. ASSUME NEW t \in Threads, GiveUp(t) PROVE TypeOK'
  <2>1. thread' \in [Threads -> Call]
    BY <1>2, GiveUpStep
  <2>3. QED BY <1>2, <2>1 DEF GiveUp, TypeOK, Addrs, Limit
<1>3. ASSUME NEW t \in Threads, Request(t) PROVE TypeOK'
  <2>1. thread[t].pkt \in 1 .. MaxPackets
    BY <1>3, CallPc DEF Request, TypeOK, Ready
  <2>2. thread' \in [Threads -> Call]
    BY <1>3, ThreadStep DEF Request, Return, Call
  <2>3. expect + 1 \in 0 .. Limit
    BY <1>3 DEF Request, TypeOK, Limit
  <2>4. stunTx' \in Txs /\ net' \subseteq Message
    BY <1>3, Bounds DEF Request, TypeOK, Message
  <2>5. nat' \in [ep: External, idle: 0 .. NatTimeout + 1]
    BY <1>3, Bounds DEF Request, TypeOK
  <2>6. QED BY <1>3, <2>1, <2>2, <2>3, <2>4, <2>5 DEF Request, TypeOK
<1>4. ASSUME NEW t \in Threads, Fail(t) PROVE TypeOK'
  <2>1. thread' \in [Threads -> Call]
    BY <1>4, ThreadStep DEF Fail, Return, Call
  <2>2. QED BY <1>4, <2>1, Bounds DEF Fail, TypeOK
<1>5. ASSUME NEW t \in Threads, EgressNat(t) PROVE TypeOK'
  <2>1. thread' \in [Threads -> Call]
    BY <1>5, EgressNatStep
  <2>2. QED BY <1>5, <2>1 DEF EgressNat, TypeOK
<1>6. ASSUME NEW t \in Threads, Emit(t) PROVE TypeOK'
  <2>1. thread[t].pkt \in 1 .. MaxPackets /\ thread[t].t \in Nat
    BY <1>6, CallPc DEF Emit, TypeOK, Ready
  <2>2. thread' \in [Threads -> Call]
    BY <1>6, ThreadStep DEF Emit, Return, Call
  <2>3. nat' \in [ep: External, idle: 0 .. NatTimeout + 1]
    BY <1>6, Bounds DEF Emit, TypeOK
  <2>4. QED BY <1>6, <2>1, <2>2, <2>3, Bounds DEF Emit, TypeOK
<1>7. ASSUME NEW m \in net, Response(m) PROVE TypeOK'
  <2>1. mapped' \in Addrs /\ net' \subseteq Message
    BY <1>7 DEF Response, TypeOK, Message, Addrs
  <2>2. /\ held' \in (1 .. MaxPackets) \cup {NoPacket}
        /\ lastUsed' \in Nat
        /\ sent' \subseteq 1 .. MaxPackets
        /\ waiting' \in 0 .. MaxPackets
    <3>0. CASE m.ep = Unmapped
      <4>1. UNCHANGED <<held, lastUsed, sent>> /\ waiting' \in {0, waiting}
        BY <1>7, <3>0 DEF Response, SendHeld
      <4>2. QED BY <4>1, Bounds DEF TypeOK
    <3>1. CASE m.ep # Unmapped /\ held = NoPacket
      <4>1. UNCHANGED <<held, lastUsed, sent, waiting>>
        BY <1>7, <3>1 DEF Response, SendHeld
      <4>2. QED BY <4>1 DEF TypeOK
    <3>2. CASE m.ep # Unmapped /\ held # NoPacket
      <4>1. /\ held' = NoPacket /\ lastUsed' = now /\ waiting' = 0
            /\ sent' \subseteq sent \cup {held}
        BY <1>7, <3>2 DEF Response, SendHeld
      <4>2. QED BY <3>2, <4>1, Bounds DEF TypeOK
    <3>3. QED BY <3>0, <3>1, <3>2
  <2>3. lostHeld' \in BOOLEAN
    BY <1>7 DEF Response, SendHeld, TypeOK
  <2>4. nat' \in [ep: External, idle: 0 .. NatTimeout + 1]
    BY <1>7, Bounds DEF Response, SendHeld, TypeOK
  <2>5. QED BY <1>7, <2>1, <2>2, <2>3, <2>4 DEF Response, TypeOK, Limit
<1>8. ASSUME NEW m \in net, Server(m) PROVE TypeOK'
  BY <1>8 DEF Server, TypeOK, Message
<1>9. ASSUME NEW m \in net, Lose(m) PROVE TypeOK'
  BY <1>9 DEF Lose, TypeOK
<1>10. CASE Tick
  <2>1. now' \in Start .. MaxTime
    BY <1>10, Bounds DEF Tick, TypeOK
  <2>2. net' \subseteq Message
    <3> SUFFICES ASSUME NEW m \in net PROVE [m EXCEPT !.age = @ + 1] \in Message
      BY <1>10 DEF Tick
    <3>1. m \in Message /\ m.age < MaxDelay
      BY <1>10 DEF Tick, TypeOK
    <3>2. QED BY <3>1, Bounds DEF Message
  <2>3. nat' \in [ep: External, idle: 0 .. NatTimeout + 1]
    BY <1>10, Bounds DEF Tick, TypeOK
  <2>4. QED BY <1>10, <2>1, <2>2, <2>3 DEF Tick, TypeOK
<1>11. CASE UNCHANGED vars
  BY <1>11 DEF vars, TypeOK
<1>12. QED
  BY <1>1, <1>2, <1>3, <1>4, <1>5, <1>6, <1>7, <1>8, <1>9, <1>10, <1>11 DEF Next

-----------------------------------------------------------------------------
(***************************************************************************)
(* Every packet is in one place.                                           *)
(***************************************************************************)

\* A call gives up its packet, or goes on with it.
LEMMA PacketsKept ==
  ASSUME TypeOK, PacketInv, NEW t \in Threads,
         \A u \in Threads \ {t} : thread'[u] = thread[u],
         thread'[t] = Ready \/ (thread'[t].pkt = thread[t].pkt /\ thread[t] # Ready),
         packets' = packets, UNCHANGED held,
         waiting' \in {0, waiting},
         \/ sent' = sent
         \/ sent' = sent \cup {thread[t].pkt} /\ thread'[t] = Ready /\ thread[t] # Ready
  PROVE  PacketInv'
<1>1. packets \in Nat /\ waiting \in Nat /\ \A u \in Threads : thread[u] # Ready => thread[u].pkt \in 1 .. MaxPackets
  BY CallPc DEF TypeOK
<1>2. waiting' <= packets'
  BY <1>1 DEF PacketInv
<1>3. sent' \subseteq 1 .. packets'
  <2>1. sent \subseteq 1 .. packets
    BY DEF PacketInv
  <2>2. thread[t] # Ready => thread[t].pkt \in 1 .. packets
    BY <1>1 DEF PacketInv, Owns
  <2>3. QED BY <2>1, <2>2
<1>4. held' # NoPacket => held' <= packets' /\ held' \notin sent'
  BY DEF PacketInv, Owns
<1>5. \A u \in Threads : thread'[u] # Ready => Owns(u)'
  BY DEF PacketInv, Owns
<1>6. \A u, v \in Threads : u # v /\ thread'[u] # Ready /\ thread'[v] # Ready =>
        thread'[u].pkt # thread'[v].pkt
  BY DEF PacketInv
<1>7. QED BY <1>2, <1>3, <1>4, <1>5, <1>6 DEF PacketInv

LEMMA PacketStep == TypeOK /\ PacketInv /\ [Next]_vars => PacketInv'
<1> SUFFICES ASSUME TypeOK, PacketInv, [Next]_vars PROVE PacketInv'
  OBVIOUS
<1>1. ASSUME NEW t \in Threads, Begin(t) PROVE PacketInv'
  <2>1. /\ thread'[t].pkt = packets + 1 /\ thread[t] = Ready
        /\ \A u \in Threads \ {t} : thread'[u] = thread[u]
    BY <1>1, BeginStep
  <2>2. packets \in Nat /\ waiting \in Nat /\ packets' = packets + 1 /\ waiting' = waiting + 1
    BY <1>1 DEF Begin, TypeOK
  <2>3. held' = held /\ sent' = sent /\ (held # NoPacket => held \in 1 .. packets)
    BY <1>1 DEF Begin, TypeOK, PacketInv
  <2>4. packets + 1 \notin sent \cup {held}
    BY <2>2, <2>3, Bounds DEF PacketInv
  <2>5. waiting' <= packets' /\ sent' \subseteq 1 .. packets'
    BY <2>2, <2>3 DEF PacketInv
  <2>6. \A u \in Threads : thread'[u] # Ready => Owns(u)'
    <3> SUFFICES ASSUME NEW u \in Threads, thread'[u] # Ready PROVE Owns(u)'
      OBVIOUS
    <3>1. CASE u = t
      BY <2>1, <2>2, <2>3, <2>4, <3>1 DEF Owns
    <3>2. CASE u # t
      <4>1. Owns(u) /\ thread'[u] = thread[u] /\ thread[u].pkt \in Nat
        BY <2>1, <3>2, CallPc DEF PacketInv, TypeOK
      <4>2. QED BY <2>2, <2>3, <4>1 DEF Owns
    <3>3. QED BY <3>1, <3>2
  <2>7. ASSUME NEW u \in Threads, thread[u] # Ready PROVE thread[u].pkt # packets + 1
    BY <2>2, <2>7, CallPc DEF PacketInv, Owns, TypeOK
  <2>8. \A u, v \in Threads : u # v /\ thread'[u] # Ready /\ thread'[v] # Ready =>
          thread'[u].pkt # thread'[v].pkt
    BY <2>1, <2>7 DEF PacketInv
  <2>9. held' # NoPacket => held' <= packets' /\ held' \notin sent'
    BY <2>2, <2>3 DEF PacketInv
  <2>10. QED BY <2>5, <2>6, <2>8, <2>9 DEF PacketInv
<1>2. ASSUME NEW t \in Threads, GiveUp(t) PROVE PacketInv'
  <2>1. /\ \A u \in Threads \ {t} : thread'[u] = thread[u]
        /\ thread'[t].pkt = thread[t].pkt /\ thread[t] # Ready
    BY <1>2, GiveUpStep
  <2>2. UNCHANGED <<packets, held, waiting, sent>>
    BY <1>2 DEF GiveUp
  <2>3. QED BY <2>1, <2>2, PacketsKept
<1>3. ASSUME NEW t \in Threads, Request(t) PROVE PacketInv'
  <2>1. /\ thread'[t] = Ready /\ \A u \in Threads \ {t} : thread'[u] = thread[u]
        /\ thread[t] # Ready
    <3>1. Return(t) /\ thread[t].pc # "ready"
      BY <1>3 DEF Request
    <3>2. QED BY <3>1, ReturnStep, CallPc DEF TypeOK
  <2>2. /\ held' = thread[t].pkt /\ UNCHANGED <<packets, waiting, sent>>
    BY <1>3 DEF Request
  <2>3. Owns(t) /\ \A u \in Threads \ {t} : thread[u] # Ready => thread[u].pkt # thread[t].pkt
    BY <2>1 DEF PacketInv
  <2>4. QED BY <2>1, <2>2, <2>3 DEF PacketInv, Owns
<1>4. ASSUME NEW t \in Threads, Fail(t) PROVE PacketInv'
  <2>1. /\ thread'[t] = Ready /\ \A u \in Threads \ {t} : thread'[u] = thread[u]
    BY <1>4, ReturnStep DEF Fail
  <2>2. UNCHANGED <<packets, held>> /\ waiting' = 0 /\ sent' = sent
    BY <1>4 DEF Fail
  <2>3. waiting' \in {0, waiting} /\ packets' = packets /\ UNCHANGED held
    BY <2>2
  <2>4. thread[t].pc # "ready"
    BY <1>4 DEF Fail
  <2>5. thread[t] # Ready
    BY <2>4, CallPc DEF TypeOK
  <2>6. QED BY <2>1, <2>2, <2>3, <2>5, PacketsKept
<1>5. ASSUME NEW t \in Threads, EgressNat(t) PROVE PacketInv'
  <2>1. /\ \A u \in Threads \ {t} : thread'[u] = thread[u]
        /\ thread'[t].pkt = thread[t].pkt /\ thread[t] # Ready
    BY <1>5, EgressNatStep
  <2>2. UNCHANGED <<packets, held, waiting, sent>>
    BY <1>5 DEF EgressNat
  <2>3. QED BY <2>1, <2>2, PacketsKept
<1>6. ASSUME NEW t \in Threads, Emit(t) PROVE PacketInv'
  <2>1. /\ thread'[t] = Ready /\ \A u \in Threads \ {t} : thread'[u] = thread[u]
        /\ thread[t] # Ready
    <3>1. Return(t) /\ thread[t].pc # "ready"
      BY <1>6 DEF Emit
    <3>2. QED BY <3>1, ReturnStep, CallPc DEF TypeOK
  <2>2. UNCHANGED <<packets, held>> /\ waiting' = 0 /\ sent' = sent \cup {thread[t].pkt}
    BY <1>6 DEF Emit
  <2>3. QED BY <2>1, <2>2, PacketsKept
<1>7. ASSUME NEW m \in net, Response(m) PROVE PacketInv'
  <2>0. packets \in Nat
    BY DEF TypeOK
  <2>1. CASE held = NoPacket \/ m.ep = Unmapped
    BY <1>7, <2>0, <2>1 DEF Response, SendHeld, PacketInv, Owns
  <2>2. CASE held # NoPacket /\ m.ep # Unmapped
    <3>1. /\ UNCHANGED <<thread, packets>> /\ held' = NoPacket /\ waiting' = 0
          /\ sent' \subseteq sent \cup {held}
      BY <1>7, <2>2 DEF Response, SendHeld
    <3>2. held \in 1 .. packets /\ packets \in Nat
      BY <2>2 DEF TypeOK, PacketInv
    <3>3. sent \subseteq 1 .. packets
      BY DEF PacketInv
    <3>4. sent' \subseteq 1 .. packets /\ NoPacket \notin sent'
      <4>1. sent' \subseteq 1 .. packets
        BY <3>1, <3>2, <3>3
      <4>2. NoPacket \notin 1 .. packets
        BY <3>2, Bounds
      <4>3. QED BY <4>1, <4>2
    <3>5. ASSUME NEW t \in Threads, thread[t] # Ready PROVE thread[t].pkt # NoPacket
      BY <3>5, Bounds, CallPc DEF TypeOK
    <3>6. \A t \in Threads : thread'[t] # Ready => Owns(t)'
      BY <3>1, <3>5 DEF PacketInv, Owns
    <3>7. QED BY <3>1, <3>2, <3>4, <3>6 DEF PacketInv
  <2>3. QED BY <2>1, <2>2
<1>8. ASSUME NEW m \in net, Server(m) PROVE PacketInv'
  BY <1>8 DEF Server, PacketInv, Owns
<1>9. ASSUME NEW m \in net, Lose(m) PROVE PacketInv'
  BY <1>9 DEF Lose, PacketInv, Owns
<1>10. CASE Tick
  BY <1>10 DEF Tick, PacketInv, Owns
<1>11. CASE UNCHANGED vars
  BY <1>11 DEF vars, PacketInv, Owns
<1>12. QED
  BY <1>1, <1>2, <1>3, <1>4, <1>5, <1>6, <1>7, <1>8, <1>9, <1>10, <1>11 DEF Next

-----------------------------------------------------------------------------
(***************************************************************************)
(* The time since the last use of the socket, and messages in flight.      *)
(***************************************************************************)
LEMMA ClockStep == TypeOK /\ ClockInv /\ [Next]_vars => ClockInv'
<1> SUFFICES ASSUME TypeOK, ClockInv, [Next]_vars PROVE ClockInv'
  OBVIOUS
<1>0. now \in Nat /\ lastUsed \in Nat /\ nat.idle \in Nat /\ nat \in [ep: External, idle: Nat]
  BY Bounds DEF TypeOK
<1>1. ASSUME NEW t \in Threads, Begin(t) PROVE ClockInv'
  <2>1. thread'[t].t = now /\ \A u \in Threads \ {t} : thread'[u] = thread[u]
    BY <1>1, BeginStep
  <2>2. QED BY <1>1, <2>1 DEF Begin, ClockInv
<1>2. ASSUME NEW t \in Threads, GiveUp(t) PROVE ClockInv'
  <2>1. /\ \A u \in Threads \ {t} : thread'[u] = thread[u]
        /\ thread'[t].t = thread[t].t /\ thread[t] # Ready
    BY <1>2, GiveUpStep
  <2>2. QED BY <1>2, <2>1 DEF GiveUp, ClockInv
<1>3. ASSUME NEW t \in Threads, Request(t) PROVE ClockInv'
  <2>1. thread'[t] = Ready /\ \A u \in Threads \ {t} : thread'[u] = thread[u]
    BY <1>3, ThreadStep DEF Request, Return
  <2>2. nat'.idle = 0
    BY <1>0, <1>3 DEF Request
  <2>3. QED BY <1>0, <1>3, <2>1, <2>2 DEF Request, ClockInv
<1>4. ASSUME NEW t \in Threads, Fail(t) PROVE ClockInv'
  <2>1. thread'[t] = Ready /\ \A u \in Threads \ {t} : thread'[u] = thread[u]
    BY <1>4, ThreadStep DEF Fail, Return
  <2>2. QED BY <1>4, <2>1 DEF Fail, ClockInv
<1>5. ASSUME NEW t \in Threads, EgressNat(t) PROVE ClockInv'
  <2>1. /\ \A u \in Threads \ {t} : thread'[u] = thread[u]
        /\ thread'[t].t = thread[t].t /\ thread[t] # Ready
    BY <1>5, EgressNatStep
  <2>2. QED BY <1>5, <2>1 DEF EgressNat, ClockInv
<1>6. ASSUME NEW t \in Threads, Emit(t) PROVE ClockInv'
  <2>1. thread'[t] = Ready /\ \A u \in Threads \ {t} : thread'[u] = thread[u]
    BY <1>6, ThreadStep DEF Emit, Return
  <2>2. nat'.idle = 0 /\ lastUsed' = now
    BY <1>0, <1>6 DEF Emit, ClockInv, Ready
  <2>3. QED BY <1>0, <1>6, <2>1, <2>2 DEF Emit, ClockInv
<1>7. ASSUME NEW m \in net, Response(m) PROVE ClockInv'
  <2>1. UNCHANGED <<now, thread>>
    BY <1>7 DEF Response
  <2>2. \/ UNCHANGED <<lastUsed, lostHeld, nat>>
        \/ lastUsed' = now /\ nat'.idle = 0
        \/ lastUsed' = now /\ lostHeld' = TRUE
    BY <1>0, <1>7 DEF Response, SendHeld
  <2>3. QED BY <1>0, <2>1, <2>2 DEF ClockInv
<1>8. ASSUME NEW m \in net, Server(m) PROVE ClockInv'
  BY <1>8 DEF Server, ClockInv
<1>9. ASSUME NEW m \in net, Lose(m) PROVE ClockInv'
  BY <1>9 DEF Lose, ClockInv
<1>10. CASE Tick
  <2>1. UNCHANGED <<thread, lastUsed, lostHeld>> /\ now' = now + 1
        /\ \A t \in Threads : thread[t] = Ready
    BY <1>10 DEF Tick
  <2>2. nat'.idle \in Nat /\ nat'.idle <= nat.idle + 1
    BY <1>0, <1>10, Bounds DEF Tick
  <2>3. QED BY <1>0, <2>1, <2>2 DEF ClockInv
<1>11. CASE UNCHANGED vars
  BY <1>11 DEF vars, ClockInv
<1>12. QED
  BY <1>1, <1>2, <1>3, <1>4, <1>5, <1>6, <1>7, <1>8, <1>9, <1>10, <1>11 DEF Next

\* A packet that passes the NAT keeps its mapping: no message becomes too old.
LEMMA NetKept ==
  ASSUME TypeOK, NetInv, net' \subseteq net,
         nat' = nat \/ nat' = [nat EXCEPT !.idle = 0]
  PROVE  NetInv'
<1>1. \A m \in net : m.age \in Nat
  BY Bounds DEF TypeOK, Message
<1>2. nat \in [ep: External, idle: 0 .. NatTimeout + 1]
  BY DEF TypeOK
<1>3. QED BY <1>1, <1>2 DEF NetInv

LEMMA NetStep == TypeOK /\ NetInv /\ [Next]_vars => NetInv'
<1> SUFFICES ASSUME TypeOK, NetInv, [Next]_vars PROVE NetInv'
  OBVIOUS
<1>0. \A m \in net : m \in Message /\ m.age \in Nat
  BY Bounds DEF TypeOK, Message
<1>1. ASSUME NEW t \in Threads, Begin(t) \/ GiveUp(t) \/ Fail(t) \/ EgressNat(t) \/ Emit(t)
      PROVE  NetInv'
  BY <1>1, NetKept DEF Begin, GiveUp, Fail, EgressNat, Emit
<1>2. ASSUME NEW t \in Threads, Request(t) PROVE NetInv'
  <2>1. PICK tx \in Txs :
          net' = net \cup {[kind |-> "request", tx |-> tx, ep |-> nat.ep, age |-> 0]}
    BY <1>2 DEF Request
  <2>2. nat'.ep = nat.ep /\ nat'.idle = 0
    BY <1>2 DEF Request, TypeOK
  <2>3. QED BY <1>0, <2>1, <2>2 DEF NetInv
<1>3. ASSUME NEW m \in net, Response(m) PROVE NetInv'
  <2>1. net' \subseteq net /\ (nat' = nat \/ nat' = [nat EXCEPT !.idle = 0])
    BY <1>3 DEF Response, SendHeld
  <2>2. QED BY <2>1, NetKept
<1>4. ASSUME NEW m \in net, Server(m) PROVE NetInv'
  BY <1>0, <1>4 DEF Server, NetInv, Message
<1>5. ASSUME NEW m \in net, Lose(m) PROVE NetInv'
  BY <1>5, NetKept DEF Lose
<1>6. CASE Tick
  <2> SUFFICES ASSUME NEW m \in net
               PROVE  LET n == [m EXCEPT !.age = @ + 1]
                      IN n.ep \in {nat'.ep, Unmapped} /\ nat'.idle <= n.age
    BY <1>6 DEF Tick, NetInv
  <2>1. m \in Message /\ m.age \in Nat /\ m.age < MaxDelay /\ m.ep \in {nat.ep, Unmapped} /\ nat.idle <= m.age
    BY <1>0, <1>6 DEF Tick, NetInv
  <2>2. nat \in [ep: External, idle: Nat] /\ nat.idle < NatTimeout
    BY <2>1, Bounds DEF TypeOK
  <2>3. nat'.ep = nat.ep /\ nat'.idle = nat.idle + 1
    BY <1>6, <2>2 DEF Tick
  <2>4. QED BY <2>1, <2>2, <2>3 DEF Message
<1>7. CASE UNCHANGED vars
  BY <1>7 DEF vars, NetInv
<1>8. QED
  BY <1>1, <1>2, <1>3, <1>4, <1>5, <1>6, <1>7 DEF Next

-----------------------------------------------------------------------------
(***************************************************************************)
(* Packets held back in a row.                                             *)
(***************************************************************************)

\* One thread moves: what becomes of the threads that request and that send.
LEMMA Movement ==
  ASSUME TypeOK, IsFiniteSet(Requesting), NEW t \in Threads,
         \A u \in Threads \ {t} : thread'[u] = thread[u]
  PROVE  /\ IsFiniteSet(Requesting') /\ Cardinality(Requesting') \in Nat
         /\ Cardinality(Requesting) \in Nat
         /\ t \notin Requesting /\ thread'[t].pc = "request" =>
              Cardinality(Requesting') = Cardinality(Requesting) + 1
         /\ t \in Requesting /\ thread'[t].pc # "request" =>
              Cardinality(Requesting') = Cardinality(Requesting) - 1
         /\ t \notin Requesting /\ thread'[t].pc # "request" => Requesting' = Requesting
         /\ thread'[t].pc \in {"nat", "emit"} => t \in Sending'
         /\ t \notin Sending => Sending \subseteq Sending'
<1>1. CASE thread'[t].pc = "request"
  <2>1. Requesting' = Requesting \cup {t}
    BY <1>1 DEF Requesting
  <2>2. IsFiniteSet(Requesting') /\ Cardinality(Requesting') \in Nat /\ Cardinality(Requesting) \in Nat
    BY <2>1, FS_AddElement, FS_CardinalityType
  <2>3. t \notin Requesting => Cardinality(Requesting') = Cardinality(Requesting) + 1
    BY <2>1, FS_AddElement
  <2>4. t \notin Sending => Sending \subseteq Sending'
    BY DEF Sending
  <2>5. QED BY <1>1, <2>2, <2>3, <2>4
<1>2. CASE thread'[t].pc # "request"
  <2>1. Requesting' = Requesting \ {t}
    BY <1>2 DEF Requesting
  <2>2. IsFiniteSet(Requesting') /\ Cardinality(Requesting') \in Nat /\ Cardinality(Requesting) \in Nat
    BY <2>1, FS_RemoveElement, FS_CardinalityType
  <2>3. t \in Requesting => Cardinality(Requesting') = Cardinality(Requesting) - 1
    BY <2>1, FS_RemoveElement
  <2>4. t \notin Requesting => Requesting' = Requesting
    BY <2>1
  <2>5. thread'[t].pc \in {"nat", "emit"} => t \in Sending'
    BY DEF Sending
  <2>6. t \notin Sending => Sending \subseteq Sending'
    BY DEF Sending
  <2>7. QED BY <1>2, <2>2, <2>3, <2>4, <2>5, <2>6
<1>3. QED BY <1>1, <1>2

LEMMA WaitInit == Init => WaitInv
<1> SUFFICES ASSUME Init PROVE WaitInv
  OBVIOUS
<1>1. Requesting = {} /\ held = NoPacket /\ expect = 0 /\ waiting = 0
  BY DEF Init, Requesting, Ready
<1>2. IsFiniteSet(Requesting) /\ Cardinality(Requesting) = 0
  BY <1>1, FS_EmptySet
<1>3. QED BY <1>1, <1>2 DEF WaitInv

LEMMA WaitStep == TypeOK /\ WaitInv /\ [Next]_vars => WaitInv'
<1> SUFFICES ASSUME TypeOK, WaitInv, [Next]_vars PROVE WaitInv'
  OBVIOUS
<1>0. /\ waiting \in Nat /\ expect \in Nat /\ IsFiniteSet(Requesting)
      /\ Ready.pc = "ready"
  BY DEF TypeOK, WaitInv, Limit, Ready
<1>1. ASSUME NEW t \in Threads, Begin(t) PROVE WaitInv'
  <2>1. /\ thread[t].pc = "ready" /\ thread'[t].pc \in {"request", "nat"}
        /\ \A u \in Threads \ {t} : thread'[u] = thread[u]
    BY <1>0, <1>1, BeginStep
  <2>2. t \notin Requesting /\ t \notin Sending
    BY <2>1 DEF Requesting, Sending
  <2>3. UNCHANGED <<held, expect>> /\ waiting' = waiting + 1
    BY <1>1 DEF Begin
  <2>4. IsFiniteSet(Requesting') /\ Cardinality(Requesting) \in Nat
    BY <1>0, <2>1, Movement
  <2>5. Sending' # {} \/ waiting' <= expect' + Cardinality(Requesting')
    BY <1>0, <2>1, <2>2, <2>3, <2>4, Movement DEF WaitInv
  <2>6. QED BY <2>3, <2>4, <2>5 DEF WaitInv
<1>2. ASSUME NEW t \in Threads, GiveUp(t) PROVE WaitInv'
  <2>1. IsFiniteSet(Requesting') /\ t \in Sending'
    BY <1>0, <1>2, GiveUpStep, Movement
  <2>2. expect' = 0
    BY <1>2 DEF GiveUp
  <2>3. QED BY <2>1, <2>2 DEF WaitInv
<1>3. ASSUME NEW t \in Threads, Request(t) PROVE WaitInv'
  <2>1. thread'[t] = Ready /\ \A u \in Threads \ {t} : thread'[u] = thread[u]
    BY <1>3, ReturnStep DEF Request
  <2>2. t \in Requesting /\ t \notin Sending /\ thread[t].pkt # NoPacket
    BY <1>3, CallPc, Bounds DEF Request, Requesting, Sending, TypeOK
  <2>3. held' # NoPacket /\ expect' = expect + 1 /\ waiting' = waiting
    BY <1>3, <2>2 DEF Request
  <2>4. IsFiniteSet(Requesting') /\ Cardinality(Requesting) \in Nat
    BY <1>0, <2>1, Movement
  <2>5. Sending' # {} \/ waiting' <= expect' + Cardinality(Requesting')
    BY <1>0, <2>1, <2>2, <2>3, <2>4, Movement DEF WaitInv
  <2>6. QED BY <2>3, <2>4, <2>5 DEF WaitInv
<1>4. ASSUME NEW t \in Threads, Fail(t) \/ Emit(t) PROVE WaitInv'
  <2>1. thread'[t] = Ready /\ \A u \in Threads \ {t} : thread'[u] = thread[u]
    BY <1>4, ReturnStep DEF Fail, Emit
  <2>2. UNCHANGED <<held, expect>> /\ waiting' = 0
    BY <1>4 DEF Fail, Emit
  <2>3. IsFiniteSet(Requesting') /\ Cardinality(Requesting') \in Nat
    BY <1>0, <2>1, Movement
  <2>4. QED BY <1>0, <2>2, <2>3 DEF WaitInv
<1>5. ASSUME NEW t \in Threads, EgressNat(t) PROVE WaitInv'
  <2>1. IsFiniteSet(Requesting') /\ t \in Sending'
    BY <1>0, <1>5, EgressNatStep, Movement
  <2>2. UNCHANGED <<held, expect>>
    BY <1>5 DEF EgressNat
  <2>3. QED BY <2>1, <2>2 DEF WaitInv
<1>6. ASSUME NEW m \in net, Response(m) PROVE WaitInv'
  <2>1. Requesting' = Requesting /\ Sending' = Sending /\ expect' = 0
    BY <1>6 DEF Response, Requesting, Sending
  <2>2. waiting' = 0 \/ (waiting' = waiting /\ expect = 0)
    BY <1>6 DEF Response, SendHeld, WaitInv
  <2>3. Cardinality(Requesting) \in Nat
    BY <1>0, FS_CardinalityType
  <2>4. QED BY <1>0, <2>1, <2>2, <2>3 DEF WaitInv
<1>7. CASE UNCHANGED <<thread, held, expect, waiting>>
  BY <1>7 DEF WaitInv, Requesting, Sending
<1>8. ASSUME NEW m \in net, Server(m) \/ Lose(m) PROVE WaitInv'
  BY <1>7, <1>8 DEF Server, Lose
<1>9. QED
  BY <1>1, <1>2, <1>3, <1>4, <1>5, <1>6, <1>7, <1>8 DEF Next, Tick, vars

-----------------------------------------------------------------------------
(***************************************************************************)
(* The mapping of the NAT.                                                 *)
(***************************************************************************)

\* The mapping in use is not stale after a step: nothing else is to be shown
\* of the threads that send.
LEMMA StaleStep ==
  TypeOK /\ ClockInv /\ NetInv /\ StaleInv /\ [Next]_vars => StaleInv'
<1> SUFFICES ASSUME TypeOK, ClockInv, NetInv, StaleInv, [Next]_vars PROVE StaleInv'
  OBVIOUS
<1>0. now \in Nat /\ lastUsed \in Nat /\ lastUsed <= now /\ NatTimeout \in Nat
      /\ nat \in [ep: External, idle: Nat] /\ Ready.pc = "ready"
  BY Bounds DEF TypeOK, ClockInv, Ready
<1>1. ASSUME NEW t \in Threads, Begin(t) PROVE StaleInv'
  <2>1. /\ thread'[t].pc = IF now - lastUsed > NatTimeout THEN "request" ELSE "nat"
        /\ \A u \in Threads \ {t} : thread'[u] = thread[u]
    BY <1>1, BeginStep
  <2>2. UNCHANGED <<now, lastUsed, mapped, nat, lostHeld, net, stunTx>>
    BY <1>1 DEF Begin
  <2>3. CASE Stale
    BY <1>0, <2>1, <2>2, <2>3 DEF StaleInv, Stale, Recent, Current, Requesting
  <2>4. CASE ~Stale
    BY <1>0, <2>1, <2>2, <2>4 DEF StaleInv, Stale, Recent, Current, Sending
  <2>5. QED BY <2>3, <2>4
<1>2. ASSUME NEW t \in Threads, GiveUp(t) PROVE StaleInv'
  <2>1. /\ thread'[t].pc = "nat" /\ thread[t].pc = "request"
        /\ \A u \in Threads \ {t} : thread'[u] = thread[u]
    BY <1>2, GiveUpStep DEF GiveUp
  <2>2. mapped' = Local /\ nat' = nat
    BY <1>2 DEF GiveUp
  <2>3. ~Stale
    BY <2>1 DEF StaleInv, Requesting
  <2>4. QED BY <2>1, <2>2, <2>3 DEF StaleInv, Stale, Current, Sending
<1>3. ASSUME NEW t \in Threads, Request(t) PROVE StaleInv'
  <2>1. /\ thread'[t].pc = "ready" /\ thread[t].pc = "request"
        /\ \A u \in Threads \ {t} : thread'[u] = thread[u]
    BY <1>0, <1>3, ReturnStep DEF Request
  <2>2. UNCHANGED <<now, lastUsed, mapped>> /\ nat'.ep = nat.ep
    BY <1>3 DEF Request, TypeOK
  <2>3. ~Stale
    BY <2>1 DEF StaleInv, Requesting
  <2>4. QED BY <2>1, <2>2, <2>3 DEF StaleInv, Stale, Recent, Current, Sending
<1>4. ASSUME NEW t \in Threads, Fail(t) PROVE StaleInv'
  <2>1. /\ thread'[t].pc = "ready" /\ \A u \in Threads \ {t} : thread'[u] = thread[u]
    BY <1>0, <1>4, ReturnStep DEF Fail
  <2>2. UNCHANGED <<now, lastUsed, mapped, nat, lostHeld, net, stunTx>>
    BY <1>4 DEF Fail
  <2>3. QED BY <2>1, <2>2 DEF StaleInv, Stale, Recent, Current, Sending, Requesting
<1>5. ASSUME NEW t \in Threads, EgressNat(t) PROVE StaleInv'
  <2>1. /\ thread'[t].pc = "emit" /\ thread'[t].src = mapped /\ t \in Sending
        /\ \A u \in Threads \ {t} : thread'[u] = thread[u]
    BY <1>5, EgressNatStep DEF EgressNat, Sending
  <2>2. UNCHANGED <<now, lastUsed, mapped, nat, lostHeld, net, stunTx>>
    BY <1>5 DEF EgressNat
  <2>3. QED BY <2>1, <2>2 DEF StaleInv, Stale, Recent, Current, Sending, Requesting
<1>6. ASSUME NEW t \in Threads, Emit(t) PROVE StaleInv'
  <2>1. /\ thread'[t].pc = "ready" /\ t \in Sending
        /\ \A u \in Threads \ {t} : thread'[u] = thread[u]
    BY <1>0, <1>6, ReturnStep DEF Emit, Sending
  <2>2. UNCHANGED <<now, mapped, lostHeld, net, stunTx>> /\ nat'.ep = nat.ep
    BY <1>6 DEF Emit, TypeOK
  <2>3. CASE Stale
    <3>1. Requesting' = {}
      BY <2>1, <2>3 DEF StaleInv, Requesting
    <3>2. lastUsed' = now
      BY <1>6 DEF Emit, ClockInv, Ready
    <3>3. Stale'
      BY <1>0, <2>2, <2>3, <3>2 DEF Stale, Recent, Current
    <3>4. QED BY <2>2, <2>3, <3>1, <3>3 DEF StaleInv
  <2>4. CASE ~Stale
    BY <2>1, <2>2, <2>4 DEF StaleInv, Stale, Current, Sending
  <2>5. QED BY <2>3, <2>4
<1>7. ASSUME NEW m \in net, Response(m) PROVE StaleInv'
  <2>1. ~Stale
    BY <1>7 DEF StaleInv, Response
  <2>2. CASE m.ep = Unmapped
    <3>1. UNCHANGED <<now, lastUsed, mapped, nat, thread>>
      BY <1>7, <2>2 DEF Response
    <3>2. QED BY <2>1, <3>1 DEF StaleInv, Stale, Recent, Current, Sending
  <2>3. CASE m.ep # Unmapped
    <3>1. mapped' = nat.ep /\ nat'.ep = nat.ep /\ thread' = thread
      BY <1>7, <2>3 DEF Response, SendHeld, NetInv, TypeOK
    <3>2. QED BY <2>1, <3>1 DEF StaleInv, Stale, Current, Sending
  <2>4. QED BY <2>2, <2>3
<1>8. ASSUME NEW m \in net, Server(m) \/ Lose(m) PROVE StaleInv'
  <2>1. \A n \in net' : \E k \in net : n.tx = k.tx
    BY <1>8 DEF Server, Lose, TypeOK, Message
  <2>2. UNCHANGED <<now, lastUsed, mapped, nat, thread, lostHeld, stunTx>>
    BY <1>8 DEF Server, Lose
  <2>3. QED BY <2>1, <2>2 DEF StaleInv, Stale, Recent, Current, Sending, Requesting
<1>9. CASE Tick
  <2>1. /\ Requesting' = {} /\ Sending' = {}
    BY <1>0, <1>9 DEF Tick, Requesting, Sending
  <2>2. UNCHANGED <<mapped, lastUsed, lostHeld, stunTx>> /\ now' = now + 1
    BY <1>9 DEF Tick
  <2>3. CASE nat.idle < NatTimeout
    <3>1. nat'.ep = nat.ep
      BY <1>9, <2>3 DEF Tick, TypeOK
    <3>2. Stale' => Stale
      BY <1>0, <2>2, <3>1 DEF Stale, Recent, Current
    <3>3. Stale => \A n \in net' : n.tx # stunTx
      BY <1>9 DEF Tick, StaleInv, TypeOK, Message
    <3>4. QED BY <2>1, <2>2, <3>2, <3>3 DEF StaleInv
  <2>4. CASE nat.idle >= NatTimeout
    <3>1. net = {}
      <4> SUFFICES ASSUME NEW m \in net PROVE FALSE
        OBVIOUS
      <4>1. m.age < MaxDelay /\ nat.idle <= m.age /\ m.age \in Nat
        BY <1>9 DEF Tick, NetInv, TypeOK, Message
      <4>2. QED BY <1>0, <2>4, <4>1, Bounds
    <3>2. net' = {}
      BY <1>9, <3>1 DEF Tick
    <3>3. lostHeld \/ ~Recent'
      BY <1>0, <2>2, <2>4 DEF ClockInv, Recent
    <3>4. QED BY <2>1, <2>2, <3>2, <3>3 DEF StaleInv, Stale
  <2>5. QED BY <1>0, <2>3, <2>4
<1>10. CASE UNCHANGED vars
  BY <1>10 DEF vars, StaleInv, Stale, Recent, Current, Sending, Requesting
<1>11. QED
  BY <1>1, <1>2, <1>3, <1>4, <1>5, <1>6, <1>7, <1>8, <1>9, <1>10 DEF Next

-----------------------------------------------------------------------------
LEMMA InitInv == Init => IInv
<1> SUFFICES ASSUME Init PROVE IInv
  OBVIOUS
<1>1. ClockInv
  BY Bounds DEF Init, ClockInv
<1>2. NetInv
  BY DEF Init, NetInv
<1>3. QED BY <1>1, <1>2, TypeInit, WaitInit DEF IInv

LEMMA NextInv == IInv /\ [Next]_vars => IInv'
BY TypeStep, PacketStep, ClockStep, NetStep, WaitStep DEF IInv

LEMMA StaleInit == Init => StaleInv
<1> SUFFICES ASSUME Init PROVE StaleInv
  OBVIOUS
<1>1. ~Stale
  BY Bounds DEF Init, Stale, Recent, Current
<1>2. Sending = {}
  BY DEF Init, Sending, Ready
<1>3. QED BY <1>1, <1>2 DEF StaleInv

\* The invariant holds in every reachable state.
THEOREM Invariance == Spec => []IInv
BY InitInv, NextInv, PTL DEF Spec

\* No call of sendPacket() and no answer leaves the state ill-typed.
THEOREM TypeCorrect == Spec => []TypeOK
BY Invariance, PTL DEF IInv

\* No packet is sent twice, in however many threads sendPacket() runs and
\* however often the answer of the STUN server is repeated.
THEOREM PacketsSentOnce == Spec => []SentOnce
<1>1. IInv => SentOnce
  BY Bounds DEF IInv, TypeOK, PacketInv, Owns, SentOnce
<1>2. QED BY <1>1, Invariance, PTL

\* requestStunMapping() gives up in time: at most three packets are held back
\* in a row if the STUN server does not answer, whatever else the network does.
THEOREM NeverBlocked == Spec => []NotBlocked
<1>1. IInv => NotBlocked
  <2> SUFFICES ASSUME IInv, \A t \in Threads : thread[t] = Ready PROVE waiting <= Limit
    BY DEF NotBlocked
  <2>1. Requesting = {} /\ Sending = {}
    BY DEF Requesting, Sending, Ready
  <2>2. waiting <= expect + 0
    BY <2>1, FS_EmptySet DEF IInv, WaitInv
  <2>3. QED BY <2>2 DEF IInv, TypeOK, Limit
<1>2. QED BY <1>1, Invariance, PTL

\* m_lastUsed never runs ahead of the NAT, except after sendHeldPacket() failed.
THEOREM IdleTimeCorrect == Spec => []IdleNotUnderestimated
<1>1. IInv => IdleNotUnderestimated
  BY DEF IInv, ClockInv, IdleNotUnderestimated
<1>2. QED BY <1>1, Invariance, PTL

\* A packet leaves with the address the NAT assigns to it, unless STUN was
\* given up or a held packet was lost.  Only a socket opened within NAT_TIMEOUT
\* of the epoch of the steady clock sends without a mapping.
THEOREM SourceIsCurrent == Spec => []MappingCurrent
<1>1. Init => IInv /\ StaleInv
  BY InitInv, StaleInit
<1>2. IInv /\ StaleInv /\ [Next]_vars => IInv' /\ StaleInv'
  BY NextInv, StaleStep DEF IInv
<1>3. IInv /\ StaleInv => MappingCurrent
  BY DEF StaleInv, Sending, MappingCurrent
<1>4. QED BY <1>1, <1>2, <1>3, PTL DEF Spec
=============================================================================
