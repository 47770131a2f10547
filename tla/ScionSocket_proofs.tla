------------------------- MODULE ScionSocket_proofs -------------------------
(***************************************************************************)
(* The mapping a socket learns by STUN is genuine and learned once, and    *)
(* packets are handled once and shown before they are taken, for every set *)
(* of endpoints, servers, packets and flags, every queue and any number of *)
(* requests and packets.                                                   *)
(***************************************************************************)
EXTENDS ScionSocket, SequenceTheorems, TLAPS

PackagerType ==
  [local: Locals \cup {None}, mapped: Endpoints \cup {None}, remote: Remotes \cup {None},
   expect: BOOLEAN, server: Servers \cup {None}, tx: 0 .. MaxTx]

\* The part of the type invariant the proof needs
Typed ==
  /\ packager \in PackagerType
  /\ rxq \in Seq(Packet)
  /\ bound \in Locals \cup {None}
  /\ requests \subseteq [tx: 1 .. MaxTx, server: Servers, from: Locals]
  /\ learned \in 0 .. MaxTx
  /\ accepted \in [1 .. MaxTx -> 0 .. 2]

\* p, if it is an answer, has been given by a server.
Given(p, a) == p.kind = "stun" /\ p.tx > 0 => [tx |-> p.tx, ep |-> p.ep] \in a

QueueGiven == \A i \in 1 .. Len(rxq) : Given(rxq[i], answers)

\* No answer has been accepted for the request that is open, or one to come.
OpenUnanswered ==
  /\ packager.expect => packager.tx > 0 /\ accepted[packager.tx] = 0
  /\ \A x \in 1 .. MaxTx : x > packager.tx => accepted[x] = 0

IInv == Typed /\ QueueGiven /\ OpenUnanswered /\ MappingGenuine /\ LearnedOnce

-----------------------------------------------------------------------------
\* Taking a packet from the queue leaves packets of the queue.
LEMMA TailPackets ==
  ASSUME NEW q \in Seq(Packet), q # <<>>
  PROVE  /\ Tail(q) \in Seq(Packet)
         /\ Head(q) \in Packet
         /\ Head(q) = q[1] /\ 1 \in 1 .. Len(q)
         /\ \A i \in 1 .. Len(Tail(q)) : i + 1 \in 1 .. Len(q) /\ Tail(q)[i] = q[i + 1]
<1>1. Len(q) \in Nat /\ Len(q) # 0
  OBVIOUS
<1> QED BY <1>1

\* Actions that touch neither the mapping nor the state of STUN, and at most
\* take packets from the queue, preserve the invariant.
LEMMA QueueStep ==
  ASSUME IInv,
         UNCHANGED <<packager, requests, answers, learned, accepted>>,
         bound' \in Locals \cup {None},
         \/ rxq' = rxq
         \/ rxq' = <<>>
         \/ rxq # <<>> /\ rxq' = Tail(rxq)
  PROVE  IInv'
<1>1. Typed'
  <2>1. rxq \in Seq(Packet) /\ <<>> \in Seq(Packet)
    BY DEF IInv, Typed
  <2>2. rxq # <<>> => Tail(rxq) \in Seq(Packet)
    BY <2>1
  <2>3. rxq' \in Seq(Packet)
    BY <2>1, <2>2
  <2> QED BY <2>3 DEF IInv, Typed
<1>2. QueueGiven'
  <2>1. CASE rxq' = rxq
    BY <2>1 DEF IInv, QueueGiven
  <2>2. CASE rxq' = <<>>
    BY <2>2 DEF QueueGiven
  <2>3. CASE rxq # <<>> /\ rxq' = Tail(rxq)
    <3>1. ASSUME NEW i \in 1 .. Len(rxq')
          PROVE  Given(rxq'[i], answers)
      BY <2>3, <3>1, TailPackets DEF IInv, Typed, QueueGiven
    <3> QED BY <3>1 DEF QueueGiven
  <2> QED BY <2>1, <2>2, <2>3
<1>3. (OpenUnanswered /\ MappingGenuine /\ LearnedOnce)'
  BY DEF IInv, OpenUnanswered, MappingGenuine, LearnedOnce
<1> QED BY <1>1, <1>2, <1>3 DEF IInv

\* An accepted answer is one that a server gave to the open request.
LEMMA UnpackStep ==
  ASSUME IInv, rxq # <<>>, Unpack(Head(rxq)),
         UNCHANGED <<bound, requests, answers>>,
         rxq' = rxq \/ rxq' = Tail(rxq)
  PROVE  IInv'
<1> DEFINE p == Head(rxq)
<1>1. CASE ~(p.kind = "stun" /\ Accepts(p))
  <2>1. UNCHANGED <<packager, learned, accepted>>
    BY <1>1 DEF Unpack, stun
  <2> QED BY <2>1, QueueStep DEF IInv, Typed
<1>2. CASE p.kind = "stun" /\ Accepts(p)
  <2> DEFINE ep == IF p.ep = None THEN packager.mapped ELSE p.ep
             from == IF p.ep = None THEN learned ELSE packager.tx
  <2>1. /\ packager' = [packager EXCEPT !.expect = FALSE, !.mapped = ep]
        /\ learned' = from
        /\ accepted' = [accepted EXCEPT ![packager.tx] = Min2(@ + 1)]
    BY <1>2 DEF Unpack
  <2>2. /\ p \in Packet /\ Given(p, answers)
        /\ rxq' \in Seq(Packet)
    BY TailPackets DEF IInv, Typed, QueueGiven
  <2>3. packager.expect /\ packager.tx > 0 /\ p.tx = packager.tx /\ accepted[packager.tx] = 0
    BY <1>2 DEF Accepts, IInv, OpenUnanswered
  <2>4. ep \in Endpoints \cup {None}
    <3>1. p.ep \in External \cup {None} /\ packager.mapped \in Endpoints \cup {None}
      BY <1>2, <2>2 DEF Packet, Stun, Scion, IInv, Typed, PackagerType
    <3> QED BY <3>1 DEF Endpoints
  <2>5. packager.tx \in 1 .. MaxTx
    BY <2>3 DEF IInv, Typed, PackagerType
  <2>6. Min2(0 + 1) = 1
    BY DEF Min2
  <2>7. accepted' = [accepted EXCEPT ![packager.tx] = 1]
    BY <2>1, <2>3, <2>6
  <2>8. Typed'
    <3>2. packager' \in PackagerType
      <4>1. packager \in PackagerType
        BY DEF IInv, Typed
      <4> HIDE DEF ep
      <4> QED BY <2>1, <2>4, <4>1 DEF PackagerType
    <3>3. accepted' \in [1 .. MaxTx -> 0 .. 2]
      BY <2>5, <2>7 DEF IInv, Typed
    <3>4. learned' \in 0 .. MaxTx
      BY <2>1, <2>5 DEF IInv, Typed
    <3> QED BY <2>2, <3>2, <3>3, <3>4 DEF IInv, Typed
  <2>9. QueueGiven'
    <3>1. ASSUME NEW i \in 1 .. Len(rxq')
          PROVE  Given(rxq'[i], answers)
      <4>1. CASE rxq' = rxq
        BY <3>1, <4>1 DEF IInv, QueueGiven
      <4>2. CASE rxq' = Tail(rxq)
        BY <3>1, <4>2, TailPackets DEF IInv, Typed, QueueGiven
      <4> QED BY <4>1, <4>2
    <3> QED BY <3>1 DEF QueueGiven
  <2>10. packager'.tx = packager.tx /\ packager'.expect = FALSE /\ packager'.mapped = ep
    BY <2>1 DEF IInv, Typed, PackagerType
  <2>11. OpenUnanswered'
    BY <2>7, <2>5, <2>10 DEF IInv, Typed, OpenUnanswered
  <2>12. MappingGenuine'
    BY <1>2, <2>1, <2>2, <2>3, <2>10 DEF IInv, MappingGenuine, Given
  <2>13. LearnedOnce'
    BY <2>5, <2>7 DEF IInv, Typed, LearnedOnce
  <2> QED BY <2>8, <2>9, <2>11, <2>12, <2>13 DEF IInv
<1> QED BY <1>1, <1>2

\* Setting addresses forgets what STUN has learned.
LEMMA AddressStep ==
  ASSUME IInv,
         packager' \in PackagerType,
         packager'.expect = packager.expect, packager'.tx = packager.tx,
         (packager'.mapped = packager.mapped /\ learned' = learned) \/ learned' = 0,
         UNCHANGED <<requests, answers, accepted>>,
         rxq' \in {rxq, <<>>}, bound' \in Locals \cup {None}
  PROVE  IInv'
<1>1. Typed'
  <2>1. rxq' \in Seq(Packet)
    <3>1. rxq \in Seq(Packet) /\ <<>> \in Seq(Packet)
      BY DEF IInv, Typed
    <3> QED BY <3>1
  <2>2. learned' \in 0 .. MaxTx
    BY ScionSocketAssumption DEF IInv, Typed
  <2> QED BY <2>1, <2>2 DEF IInv, Typed
<1>2. QueueGiven'
  BY DEF IInv, QueueGiven
<1>3. OpenUnanswered' /\ MappingGenuine' /\ LearnedOnce'
  BY DEF IInv, Typed, PackagerType, OpenUnanswered, MappingGenuine, LearnedOnce
<1> QED BY <1>1, <1>2, <1>3 DEF IInv

\* A new request: no answer has been accepted for it.
LEMMA RequestStep ==
  ASSUME IInv, NEW s \in Servers, NEW sent \in BOOLEAN, Request(s, sent)
  PROVE  IInv'
<1>1. /\ packager' = WithRequest(s)
      /\ packager.tx < MaxTx
      /\ UNCHANGED <<bound, rxq, answers, learned, accepted>>
      /\ requests' \in {requests, requests \cup {[tx |-> packager'.tx, server |-> s, from |-> bound]}}
      /\ bound = None => requests' = requests
  BY DEF Request, stun
<1>2. /\ packager' = [packager EXCEPT !.expect = TRUE, !.server = s, !.tx = @ + 1]
  BY <1>1 DEF WithRequest
<1>3. /\ packager'.tx = packager.tx + 1 /\ packager'.expect /\ packager'.mapped = packager.mapped
      /\ packager.tx + 1 \in 1 .. MaxTx
  BY <1>1, <1>2, ScionSocketAssumption DEF IInv, Typed, PackagerType
<1>4. Typed'
  <2>1. packager' \in PackagerType
    <3> DEFINE t == packager.tx + 1
    <3>1. t \in 0 .. MaxTx /\ s \in Servers \cup {None} /\ packager \in PackagerType
      BY <1>3 DEF IInv, Typed
    <3>2. packager' = [packager EXCEPT !.expect = TRUE, !.server = s, !.tx = t]
      BY <1>2
    <3> HIDE DEF t
    <3> QED BY <3>1, <3>2 DEF PackagerType
  <2>2. requests' \subseteq [tx: 1 .. MaxTx, server: Servers, from: Locals]
    BY <1>1, <1>3 DEF IInv, Typed, PackagerType
  <2> QED BY <1>1, <2>1, <2>2 DEF IInv, Typed
<1>5. QueueGiven'
  BY <1>1 DEF IInv, QueueGiven
<1>6. OpenUnanswered'
  BY <1>1, <1>3 DEF IInv, Typed, PackagerType, OpenUnanswered
<1>7. MappingGenuine' /\ LearnedOnce'
  BY <1>1, <1>3 DEF IInv, MappingGenuine, LearnedOnce
<1> QED BY <1>4, <1>5, <1>6, <1>7 DEF IInv

\* A packet that arrives is no answer, or a server has given it.
LEMMA ArriveStep ==
  ASSUME IInv, NEW p \in Packet, Arrive(p), answers \subseteq answers', Given(p, answers')
  PROVE  IInv'
<1>1. UNCHANGED <<bound, packager, requests, learned, accepted>> /\ rxq' = Append(rxq, p)
  BY DEF Arrive, stun
<1>2. Typed'
  BY <1>1 DEF IInv, Typed
<1>3. QueueGiven'
  <2>1. ASSUME NEW i \in 1 .. Len(rxq')
        PROVE  Given(rxq'[i], answers')
    <3>1. Len(rxq') = Len(rxq) + 1 /\ Len(rxq) \in Nat
      BY <1>1 DEF IInv, Typed
    <3>2. CASE i \in 1 .. Len(rxq)
      <4>1. rxq'[i] = rxq[i]
        BY <1>1, <3>2 DEF IInv, Typed
      <4> QED BY <3>2, <4>1 DEF IInv, QueueGiven, Given
    <3>3. CASE i = Len(rxq) + 1
      <4>1. rxq'[i] = p
        BY <1>1, <3>1, <3>3 DEF IInv, Typed
      <4> QED BY <4>1
    <3> QED BY <3>1, <3>2, <3>3
  <2> QED BY <2>1 DEF QueueGiven
<1>4. OpenUnanswered' /\ LearnedOnce' /\ MappingGenuine'
  BY <1>1 DEF IInv, OpenUnanswered, LearnedOnce, MappingGenuine
<1> QED BY <1>2, <1>3, <1>4 DEF IInv

-----------------------------------------------------------------------------
\* The invariant holds initially.
LEMMA InitIInv == Init => IInv
<1> SUFFICES ASSUME Init PROVE IInv
  OBVIOUS
<1>1. packager \in PackagerType /\ packager.tx = 0 /\ packager.expect = FALSE
  BY ScionSocketAssumption DEF Init, PackagerType
<1>2. accepted \in [1 .. MaxTx -> 0 .. 2] /\ \A x \in 1 .. MaxTx : accepted[x] = 0
  BY DEF Init
<1>3. Typed
  BY <1>1, <1>2, ScionSocketAssumption DEF Init, Typed
<1>4. QueueGiven
  BY DEF Init, QueueGiven
<1>5. OpenUnanswered /\ MappingGenuine /\ LearnedOnce
  BY <1>1, <1>2 DEF Init, OpenUnanswered, MappingGenuine, LearnedOnce
<1> QED BY <1>3, <1>4, <1>5 DEF IInv

\* The application's calls preserve the invariant.
LEMMA AppIInv == IInv /\ App => IInv'
<1> SUFFICES ASSUME IInv, App PROVE IInv'
  OBVIOUS
<1>0. /\ packager \in PackagerType /\ bound \in Locals \cup {None}
      /\ \A l \in Locals : l \in Endpoints
  BY DEF IInv, Typed, Endpoints
<1>1. ASSUME NEW l \in Locals
      PROVE  /\ WithLocal(l) \in PackagerType
             /\ WithLocal(l).expect = packager.expect /\ WithLocal(l).tx = packager.tx
  BY <1>0, <1>1 DEF WithLocal, PackagerType
<1>2. ASSUME NEW l \in Locals, Bind(l) PROVE IInv'
  <2>1. CASE packager' = WithLocal(l) /\ learned' = 0 /\ bound' = l
    BY <1>0, <1>1, <1>2, <2>1, AddressStep DEF Bind, net
  <2>2. CASE UNCHANGED <<packager, learned>> /\ bound' \in {l, None}
    BY <1>0, <1>2, <2>2, AddressStep DEF Bind, net
  <2> QED BY <1>2, <2>1, <2>2 DEF Bind
<1>3. ASSUME NEW l \in Locals, SetLocalEp(l) PROVE IInv'
  BY <1>0, <1>1, <1>3, AddressStep DEF SetLocalEp, net
<1>4. ASSUME NEW e \in External, SetMappedIpAndPort(e) PROVE IInv'
  <2>1. /\ [packager EXCEPT !.mapped = e] \in PackagerType
        /\ [packager EXCEPT !.mapped = e].expect = packager.expect
        /\ [packager EXCEPT !.mapped = e].tx = packager.tx
    BY <1>0, <1>4 DEF PackagerType, Endpoints
  <2> QED BY <1>0, <1>4, <2>1, AddressStep DEF SetMappedIpAndPort, net
<1>5. ASSUME NEW r \in Remotes \cup {None}, Connect(r) PROVE IInv'
  <2>1. /\ [packager EXCEPT !.remote = r] \in PackagerType
        /\ [packager EXCEPT !.remote = r].expect = packager.expect
        /\ [packager EXCEPT !.remote = r].tx = packager.tx
        /\ [packager EXCEPT !.remote = r].mapped = packager.mapped
    BY <1>0, <1>5 DEF PackagerType
  <2> QED BY <1>0, <1>5, <2>1, AddressStep DEF Connect, net, stun
<1>6. CASE Close
  BY <1>6, QueueStep DEF Close, net, stun
<1>7. CASE Cancel
  BY <1>0, <1>7, QueueStep DEF Cancel, net, stun
<1>8. ASSUME NEW s \in Servers, RequestStunMapping(s) PROVE IInv'
  BY <1>8, RequestStep DEF RequestStunMapping
<1>9. ASSUME NEW op, NEW async, NEW f, NEW pc, NEW s, Begin(op, async, f, pc, s) PROVE IInv'
  BY <1>0, <1>9, QueueStep DEF Begin, net, stun
<1>10. ASSUME NEW s \in Servers, BeginGetStunMapping(s) PROVE IInv'
  BY <1>9, <1>10 DEF BeginGetStunMapping
<1>11. ASSUME NEW op \in {"recv", "recvScmp"}, NEW f \in FlagSets, BeginRecv(op, f) PROVE IInv'
  BY <1>9, <1>11 DEF BeginRecv
<1>12. ASSUME NEW f \in FlagSets, BeginStun(f) PROVE IInv'
  BY <1>9, <1>12 DEF BeginStun
<1> QED BY <1>2, <1>3, <1>4, <1>5, <1>6, <1>7, <1>8, <1>10, <1>11, <1>12 DEF App

\* The receive methods preserve the invariant.
LEMMA RecvIInv == IInv /\ Recv => IInv'
<1> SUFFICES ASSUME IInv, Recv PROVE IInv'
  OBVIOUS
<1>0. bound \in Locals \cup {None}
  BY DEF IInv, Typed
<1>1. ASSUME NEW keep \in BOOLEAN, rxq # <<>>, RecvRound(Head(rxq), keep) PROVE IInv'
  BY <1>1, UnpackStep DEF RecvRound, ReceiveFrom, Unaffected, net
<1>2. CASE RecvImplPosix
  <2>1. rxq # <<>> /\ \E keep \in BOOLEAN : RecvRound(Head(rxq), keep)
    <3>1. Peeking \in BOOLEAN
      BY DEF Peeking
    <3> QED BY <1>2, <3>1 DEF RecvImplPosix
  <2> QED BY <1>1, <2>1
<1>3. CASE RecvImplAsio
  BY <1>1, <1>3 DEF RecvImplAsio
<1>4. CASE RecvAsyncImpl
  BY <1>4, UnpackStep DEF RecvAsyncImpl, Take, Unaffected, net
<1>5. CASE RecvScmpImpl
  BY <1>5, UnpackStep DEF RecvScmpImpl, ReceiveFrom, Unaffected, net
<1>6. CASE RecvScmpAsyncImpl
  BY <1>6, UnpackStep DEF RecvScmpAsyncImpl, Take, Unaffected, net
<1>7. ASSUME rxq # <<>>, StunRound(Head(rxq)) PROVE IInv'
  <2>1. CASE Head(rxq).kind = "stun"
    BY <1>7, <2>1, UnpackStep DEF StunRound, Take, Unaffected, net
  <2>2. CASE Head(rxq).kind # "stun"
    BY <1>0, <1>7, <2>2, QueueStep DEF StunRound, Take, Unaffected, net, stun
  <2> QED BY <2>1, <2>2
<1>8. CASE RecvStunResponsePosix
  <2>1. CASE StunRound(Head(rxq))
    BY <1>7, <1>8, <2>1 DEF RecvStunResponsePosix
  <2>2. CASE Take /\ Unaffected /\ UNCHANGED <<packager, stun>>
    BY <1>0, <1>8, <2>2, QueueStep DEF RecvStunResponsePosix, Take, Unaffected, net, stun
  <2> QED BY <1>8, <2>1, <2>2 DEF RecvStunResponsePosix
<1>9. CASE RecvStunResponseAsio
  BY <1>7, <1>9 DEF RecvStunResponseAsio
<1>10. CASE Discard
  BY <1>0, <1>10, QueueStep DEF Discard, Unaffected, net, stun
<1>11. CASE WouldBlock \/ Timeout
  BY <1>0, <1>11, QueueStep DEF WouldBlock, Timeout, Unaffected, net, stun
<1>12. CASE GetStunMapping
  BY <1>12, RequestStep DEF GetStunMapping
<1> QED
  BY <1>2, <1>3, <1>4, <1>5, <1>6, <1>8, <1>9, <1>10, <1>11, <1>12 DEF Recv

\* Packets that arrive preserve the invariant.
LEMMA NetworkIInv == IInv /\ Network => IInv'
<1> SUFFICES ASSUME IInv, Network PROVE IInv'
  OBVIOUS
<1>1. ASSUME NEW p \in Mail, Deliver(p) PROVE IInv'
  <2>1. p \in Packet /\ (p.kind = "stun" => p.tx = 0)
    BY ScionSocketAssumption
  <2>2. Given(p, answers')
    BY <2>1 DEF Given
  <2> QED BY <1>1, <2>1, <2>2, ArriveStep DEF Deliver
<1>2. ASSUME NEW r \in requests, NEW e \in External \cup {None}, Answer(r, e) PROVE IInv'
  <2> DEFINE p == [kind |-> "stun", from |-> r.server, form |-> "response", tx |-> r.tx, ep |-> e]
  <2>1. r.tx \in 1 .. MaxTx /\ r.server \in Servers
    BY <1>2 DEF IInv, Typed
  <2>2. p \in Packet
    BY <1>2, <2>1 DEF Packet, Stun
  <2>3. Arrive(p) /\ answers' = answers \cup {[tx |-> r.tx, ep |-> e]}
    BY <1>2 DEF Answer
  <2>4. Given(p, answers') /\ answers \subseteq answers'
    BY <2>3 DEF Given
  <2> QED BY <2>2, <2>3, <2>4, ArriveStep
<1> QED BY <1>1, <1>2 DEF Network

\* The inductive invariant: whatever receive method takes a STUN packet from
\* the queue, at most one answer is accepted for a request, and only one that a
\* server gave to the latest request.
THEOREM Invariance == Spec => []IInv
<1>1. IInv /\ [Next]_vars => IInv'
  <2> SUFFICES ASSUME IInv, [Next]_vars PROVE IInv'
    OBVIOUS
  <2>1. CASE Next
    BY <2>1, AppIInv, RecvIInv, NetworkIInv DEF Next
  <2>2. CASE UNCHANGED vars
    BY <2>2, QueueStep DEF vars, net, stun, IInv, Typed
  <2> QED BY <2>1, <2>2
<1> QED BY <1>1, InitIInv, PTL DEF Spec

\* An answer that is late never replaces the mapping of a later request
\* (createStunRequest(), parseStun()), for any number of requests, packets and
\* packets in the queue.
THEOREM MappingIsGenuine == Spec => []MappingGenuine
<1>1. IInv => MappingGenuine
  BY DEF IInv
<1> QED BY <1>1, Invariance, PTL

\* An answer that is repeated never changes the mapping again
\* (updateMappedAddressFromStun()).
THEOREM MappingIsLearnedOnce == Spec => []LearnedOnce
<1>1. IInv => LearnedOnce
  BY DEF IInv
<1> QED BY <1>1, Invariance, PTL
-----------------------------------------------------------------------------
(***************************************************************************)
(* The SCMP handler and SMSG_PEEK.                                         *)
(***************************************************************************)
\* The packet the handler was called for is about to be discarded.
HandledInv ==
  /\ handled \in 0 .. 1
  /\ handled > 0 => /\ call # Idle /\ call.op = "recv" /\ call.pc = "discard"
                    /\ call.async = FALSE

\* The packet shown last is still the next one.
PeekInv == peeked # None => rxq # <<>> /\ Head(rxq) = peeked

LEMMA HandledApp == HandledInv /\ App => HandledInv'
<1> SUFFICES ASSUME HandledInv, App PROVE HandledInv'
  OBVIOUS
<1>1. CASE handled' = 0
  BY <1>1 DEF HandledInv
<1>2. CASE UNCHANGED <<handled, call>>
  BY <1>2 DEF HandledInv
<1>3. CASE handled = 0 /\ handled' = handled
  BY <1>1, <1>3
<1>4. ASSUME NEW l \in Locals, Bind(l) \/ SetLocalEp(l) PROVE HandledInv'
  BY <1>1, <1>2, <1>4 DEF Bind, SetLocalEp
<1>5. ASSUME NEW e \in External, SetMappedIpAndPort(e) PROVE HandledInv'
  BY <1>2, <1>5 DEF SetMappedIpAndPort
<1>6. ASSUME NEW r \in Remotes \cup {None}, Connect(r) PROVE HandledInv'
  BY <1>2, <1>6 DEF Connect
<1>7. CASE Close
  BY <1>1, <1>7 DEF Close
<1>8. CASE Cancel
  <2>1. call # Idle /\ handled' = handled
    BY <1>8 DEF Cancel
  <2>2. call.async # FALSE
    BY <1>8, Zenon DEF Cancel
  <2>3. ~(handled > 0)
    BY <2>2, Zenon DEF HandledInv
  <2>4. handled = 0
    BY <2>3 DEF HandledInv
  <2>5. QED BY <1>3, <2>1, <2>4
<1>9. ASSUME NEW s \in Servers, RequestStunMapping(s) PROVE HandledInv'
  BY <1>2, <1>9 DEF RequestStunMapping, Request
<1>10. ASSUME NEW op, NEW async, NEW f, NEW pc, NEW s, Begin(op, async, f, pc, s)
       PROVE  HandledInv'
  BY <1>3, <1>10 DEF Begin, HandledInv
<1>11. ASSUME NEW s \in Servers, BeginGetStunMapping(s) PROVE HandledInv'
  BY <1>10, <1>11 DEF BeginGetStunMapping
<1>12. ASSUME NEW op \in {"recv", "recvScmp"}, NEW f \in FlagSets, BeginRecv(op, f)
       PROVE  HandledInv'
  BY <1>10, <1>12 DEF BeginRecv
<1>13. ASSUME NEW f \in FlagSets, BeginStun(f) PROVE HandledInv'
  BY <1>10, <1>13 DEF BeginStun
<1>14. QED BY <1>4, <1>5, <1>6, <1>7, <1>8, <1>9, <1>11, <1>12, <1>13 DEF App

LEMMA HandledRecv == HandledInv /\ Recv => HandledInv'
<1> SUFFICES ASSUME HandledInv, Recv PROVE HandledInv'
  OBVIOUS
<1>1. CASE handled' = 0
  BY <1>1 DEF HandledInv
<1>2. CASE call.pc # "discard" /\ handled' = handled
  BY <1>1, <1>2 DEF HandledInv
<1>3. CASE RecvImplPosix
  <2> DEFINE p == Head(rxq)
  <2>1. /\ call # Idle /\ call.op = "recv" /\ call.async = FALSE /\ call.pc = "receive"
        /\ RecvRound(p, Peeking)
    BY <1>3 DEF RecvImplPosix, At
  <2>2. handled = 0
    BY <2>1 DEF HandledInv
  <2>3. CASE Peeking /\ Code(p) = "ScmpReceived"
    <3>1. NotData(Code(p)) /\ handled' = Min2(handled + 1)
      BY <2>1, <2>3 DEF RecvRound
    <3>2. call' = [call EXCEPT !.pc = "discard", !.code = Code(p)]
      BY <2>3, <3>1 DEF NotData
    <3>3. handled' = 1
      BY <2>2, <3>1 DEF Min2
    <3>4. call'.op = "recv" /\ call'.pc = "discard" /\ call'.async = FALSE
      BY <2>1, <3>2
    <3>5. call' # Idle
      BY <3>4 DEF Idle
    <3>6. QED BY <3>3, <3>4, <3>5 DEF HandledInv
  <2>4. CASE ~(Peeking /\ Code(p) = "ScmpReceived")
    <3>1. handled' = 0
      BY <2>1, <2>2, <2>4 DEF RecvRound
    <3>2. QED BY <1>1, <3>1
  <2>5. QED BY <2>3, <2>4
<1>4. CASE RecvImplAsio
  <2>1. handled' = 0
    BY <1>4 DEF RecvImplAsio, RecvRound
  <2>2. QED BY <1>1, <2>1
<1>5. CASE RecvAsyncImpl \/ RecvScmpAsyncImpl \/ Discard
  BY <1>1, <1>5 DEF RecvAsyncImpl, RecvScmpAsyncImpl, Discard, Take
<1>6. CASE RecvScmpImpl
  <2>1. call.pc # "discard" /\ (handled' = handled \/ handled' = 0)
    BY <1>6 DEF RecvScmpImpl, At
  <2>2. QED BY <1>1, <1>2, <2>1
<1>7. CASE RecvStunResponsePosix \/ RecvStunResponseAsio
  BY <1>1, <1>7 DEF RecvStunResponsePosix, RecvStunResponseAsio, StunRound, Take
<1>8. CASE GetStunMapping
  <2>1. call.pc # "discard" /\ handled' = handled
    BY <1>8 DEF GetStunMapping, At, Request
  <2>2. QED BY <1>2, <2>1
<1>9. CASE WouldBlock \/ Timeout
  <2>1. call.pc # "discard" /\ handled' = handled
    BY <1>9 DEF WouldBlock, Timeout, At
  <2>2. QED BY <1>2, <2>1
<1>10. QED BY <1>3, <1>4, <1>5, <1>6, <1>7, <1>8, <1>9 DEF Recv

(***************************************************************************)
(* The SCMP handler is called once for a packet, although recvImpl() reads *)
(* it twice with SMSG_PEEK, whatever calls are made in between and however *)
(* many packets arrive.                                                    *)
(***************************************************************************)
THEOREM PacketsHandledOnce == Spec => []HandledOnce
<1>1. Init => HandledInv
  BY DEF Init, HandledInv
<1>2. HandledInv /\ [Next]_vars => HandledInv'
  <2> SUFFICES ASSUME HandledInv, [Next]_vars PROVE HandledInv'
    OBVIOUS
  <2>1. CASE Network
    <3>1. UNCHANGED <<handled, call>>
      BY <2>1 DEF Network, Deliver, Answer, Arrive
    <3>2. QED BY <3>1 DEF HandledInv
  <2>2. CASE UNCHANGED vars
    BY <2>2 DEF vars, HandledInv
  <2>3. QED BY <2>1, <2>2, HandledApp, HandledRecv DEF Next
<1>3. HandledInv => HandledOnce
  BY DEF HandledInv, HandledOnce
<1>4. QED BY <1>1, <1>2, <1>3, PTL DEF Spec
LEMMA PeekStep ==
  ASSUME PeekInv, peeked' = None \/ (peeked' = peeked /\ rxq' = rxq)
  PROVE  PeekInv'
BY DEF PeekInv

LEMMA PeekApp == PeekInv /\ App => PeekInv'
<1> SUFFICES ASSUME PeekInv, App PROVE PeekInv'
  OBVIOUS
<1>1. ASSUME NEW op, NEW async, NEW f, NEW pc, NEW s, Begin(op, async, f, pc, s) PROVE PeekInv'
  BY <1>1, PeekStep DEF Begin
<1>2. ASSUME NEW l \in Locals, Bind(l) \/ SetLocalEp(l) PROVE PeekInv'
  BY <1>2, PeekStep DEF Bind, SetLocalEp
<1>3. ASSUME NEW e \in External, SetMappedIpAndPort(e) PROVE PeekInv'
  BY <1>3, PeekStep DEF SetMappedIpAndPort
<1>4. ASSUME NEW r \in Remotes \cup {None}, Connect(r) PROVE PeekInv'
  BY <1>4, PeekStep DEF Connect
<1>5. CASE Close \/ Cancel
  BY <1>5, PeekStep DEF Close, Cancel
<1>6. ASSUME NEW s \in Servers, RequestStunMapping(s) \/ BeginGetStunMapping(s) PROVE PeekInv'
  BY <1>1, <1>6, PeekStep DEF RequestStunMapping, Request, BeginGetStunMapping
<1>7. ASSUME NEW op \in {"recv", "recvScmp"}, NEW f \in FlagSets, BeginRecv(op, f) PROVE PeekInv'
  BY <1>1, <1>7 DEF BeginRecv
<1>8. ASSUME NEW f \in FlagSets, BeginStun(f) PROVE PeekInv'
  BY <1>1, <1>8 DEF BeginStun
<1>9. QED BY <1>2, <1>3, <1>4, <1>5, <1>6, <1>7, <1>8 DEF App

LEMMA PeekRecv == PeekInv /\ Recv => PeekInv'
<1> SUFFICES ASSUME PeekInv, Recv PROVE PeekInv'
  OBVIOUS
<1>1. ASSUME NEW keep \in BOOLEAN, rxq # <<>>, RecvRound(Head(rxq), keep) PROVE PeekInv'
  <2>1. rxq' = (IF keep THEN rxq ELSE Tail(rxq))
        /\ peeked' = (IF Code(Head(rxq)) = "Ok" /\ keep THEN Head(rxq) ELSE None)
    BY <1>1 DEF RecvRound, ReceiveFrom
  <2>2. CASE rxq' = rxq /\ peeked' = Head(rxq)
    BY <1>1, <2>2 DEF PeekInv
  <2>3. CASE peeked' = None
    BY <2>3, PeekStep
  <2>4. QED BY <2>1, <2>2, <2>3
<1>2. CASE RecvImplPosix \/ RecvImplAsio
  <2>1. Peeking \in BOOLEAN
    BY DEF Peeking
  <2>2. rxq # <<>> /\ \E keep \in BOOLEAN : RecvRound(Head(rxq), keep)
    BY <1>2, <2>1 DEF RecvImplPosix, RecvImplAsio
  <2>3. QED BY <1>1, <2>2
<1>3. CASE RecvAsyncImpl \/ RecvScmpImpl \/ RecvScmpAsyncImpl
  BY <1>3, PeekStep DEF RecvAsyncImpl, RecvScmpImpl, RecvScmpAsyncImpl, Take, ReceiveFrom
<1>4. CASE RecvStunResponsePosix \/ RecvStunResponseAsio
  BY <1>4, PeekStep DEF RecvStunResponsePosix, RecvStunResponseAsio, StunRound, Take
<1>5. CASE Discard
  BY <1>5, PeekStep DEF Discard
<1>6. CASE GetStunMapping \/ WouldBlock \/ Timeout
  BY <1>6, PeekStep DEF GetStunMapping, Request, WouldBlock, Timeout
<1>7. QED BY <1>2, <1>3, <1>4, <1>5, <1>6 DEF Recv

LEMMA PeekNetwork == Typed /\ PeekInv /\ Network => PeekInv'
<1> SUFFICES ASSUME Typed, PeekInv, Network PROVE PeekInv'
  OBVIOUS
<1>1. PICK p : rxq' = Append(rxq, p)
  BY DEF Network, Deliver, Answer, Arrive
<1>2. peeked' = peeked
  BY DEF Network, Deliver, Answer, Arrive
<1>3. ASSUME peeked # None PROVE rxq' # <<>> /\ Head(rxq') = peeked
  <2>1. rxq \in Seq(Packet) /\ rxq # <<>> /\ Head(rxq) = peeked
    BY <1>3 DEF Typed, PeekInv
  <2>2. Head(Append(rxq, p)) = Head(rxq)
    BY <2>1, HeadTailAppend
  <2>3. Append(rxq, p) # <<>>
    BY <2>1
  <2>4. QED BY <1>1, <2>1, <2>2, <2>3
<1>4. QED BY <1>2, <1>3 DEF PeekInv

(***************************************************************************)
(* On a POSIX socket, a receive call returns the packet that the last one  *)
(* has shown with SMSG_PEEK (recvImpl()): it is still the next packet,     *)
(* whatever arrives.  A change of the socket or of its addresses, or any   *)
(* other receive call, ends what is claimed of the packet.  Nothing is     *)
(* said of Asio sockets, which do not pass SMSG_PEEK on for data.          *)
(***************************************************************************)
THEOREM PeekShowsNext == Spec => PeekAgrees
<1>1. Init => PeekInv
  BY DEF Init, PeekInv
<1>2. Typed /\ PeekInv /\ [Next]_vars => PeekInv'
  <2>1. UNCHANGED vars /\ PeekInv => PeekInv'
    BY PeekStep DEF vars
  <2>2. QED BY <2>1, PeekApp, PeekRecv, PeekNetwork DEF Next
<1>3. PeekInv => (Returns("Ok") /\ peeked # None => Head(rxq) = peeked)
  BY DEF PeekInv
<1>4. IInv => Typed
  BY DEF IInv
<1>5. QED BY <1>1, <1>2, <1>3, <1>4, Invariance, PTL DEF Spec, PeekAgrees
=============================================================================
