------------------------- MODULE CInterface_proofs -------------------------
(***************************************************************************)
(* Proofs about the C interface for any number of operations, paths,       *)
(* endpoints and payloads.                                                 *)
(***************************************************************************)
EXTENDS CInterface, WellFoundedInduction, TLAPS

Payload == [size : Nat, sum : Nat]
\* Headers in the cache: those of a UDP packet without extensions, the sum kept
\* for the checksum is that of the pseudo header.
Cached(h) ==
  /\ h \in UdpCache
  /\ h.plen = uint16(8 + h.payloadSize)
  /\ h.scionHdrChksum = AddressSum(h.to) + AddressSum(h.from) + h.plen + UDP

Operation == [kind : Kinds \cup {"none"}, st : States, result : Results, gone : BOOLEAN,
              payload : Payloads \cup {None}]

Context == [daemon : BOOLEAN, callback : BOOLEAN, stopped : BOOLEAN]

\* Everything but the operations.
EnvInv ==
  /\ ctx = None \/ ctx \in Context
  /\ sock \in Socket \cup {None}
  /\ hdr = None \/ hdr = EmptyCache \/ Cached(hdr)
  /\ inbox \in Seq(Inputs)
  /\ dead \in BOOLEAN

OpTypes == op \in [Ops -> Operation] /\ calls \in [Ops -> Nat] /\ recvq \in Seq(Ops)

\* The handler has been called if and only if the operation is done.
CountInv ==
  \A o \in Ops :
    /\ op[o].st # "done" => calls[o] = 0
    /\ op[o].st = "done" => calls[o] \in IF op[o].kind = "stun" THEN {1, 2} ELSE {1}

\* The operations that wait for a packet: each is there once and not finished.
QueueInv ==
  /\ \A i \in 1 .. Len(recvq) :
       op[recvq[i]].st = "pending" /\ op[recvq[i]].kind \in {"recv", "recv_stun"}
  /\ \A i, j \in 1 .. Len(recvq) : recvq[i] = recvq[j] => i = j
  /\ sock = None => recvq = << >>

\* Operations that outlive their socket are marked.
GoneInv ==
  \A o \in Ops : InFlight(o) /\ op[o].kind \in SocketKinds /\ ~op[o].gone => sock # None

\* The headers suit every send the event loop still has to do.
SendInv ==
  \A o \in Ops : op[o].kind = "send" /\ op[o].st = "pending" =>
    hdr # None /\ ValidPacket(Packet(hdr, op[o].payload))

MemInv ==
  /\ mem \in [refs : [Paths -> Int], held : [Paths -> Nat], cached : SUBSET Paths]
  /\ PathsHeldAlive

OpInv == OpTypes /\ CountInv /\ QueueInv /\ GoneInv

IInv == EnvInv /\ OpInv /\ SendInv /\ PacketValid /\ MemInv

-----------------------------------------------------------------------------
\* The checksum makes the sum of all words a multiple of the modulus.
LEMMA ChecksumZero ==
  ASSUME NEW sum \in Int
  PROVE  internetChecksum(sum) \in Nat /\ (sum + internetChecksum(sum)) % Modulus = 0
BY DEF internetChecksum, Modulus

\* A packet without extensions is valid if its lengths and its checksum are
\* those of its payload.
LEMMA ValidUdp ==
  ASSUME NEW pkt, NEW sum \in Int,
         pkt.options = << >>, pkt.nh = UDP, pkt.l4 \in UdpHeader, pkt.payload \in Payload,
         pkt.to \in Endpoint, pkt.from \in Endpoint,
         pkt.plen = uint16(8 + pkt.payload.size), pkt.length = uint16(8 + pkt.payload.size),
         sum = AddressSum(pkt.to) + AddressSum(pkt.from) + pkt.plen + UDP
               + (pkt.l4.sport + pkt.l4.dport + pkt.length) + pkt.payload.sum,
         pkt.chksum = internetChecksum(sum)
  PROVE  ValidPacket(pkt)
<1>1. pkt.l4.proto = UDP /\ L4Size(pkt.l4) = 8 /\ pkt.l4.sport \in Nat /\ pkt.l4.dport \in Nat
  BY DEF UdpHeader, L4Size
<1>2. Len(pkt.options) = 0
  OBVIOUS
<1>3. HeadersChained(pkt)
  <2> DEFINE types == [i \in 1 .. Len(pkt.options) |-> pkt.options[i].type]
             nexts == [i \in 1 .. Len(pkt.options) |-> pkt.options[i].nh]
  <2>1. types = << >> /\ nexts = << >>
    BY <1>2
  <2>2. HeadersChained(pkt) <=> types \o <<pkt.l4.proto>> = <<pkt.nh>> \o nexts
    BY DEF HeadersChained
  <2> HIDE DEF types, nexts
  <2>3. << >> \o <<UDP>> = <<UDP>> /\ <<UDP>> \o << >> = <<UDP>>
    OBVIOUS
  <2>4. QED BY <1>1, <2>1, <2>2, <2>3
<1>4. LengthsAgree(pkt)
  <2>1. OptionsSize(pkt.options) = 0
    BY <1>2 DEF OptionsSize
  <2>2. 0 + 8 + pkt.payload.size = 8 + pkt.payload.size
    BY DEF Payload
  <2>3. QED BY <1>1, <2>1, <2>2 DEF LengthsAgree
<1>5. ChecksumCorrect(pkt)
  <2>1. PseudoHeader(pkt.to, pkt.from, L4Size(pkt.l4) + pkt.payload.size, pkt.l4.proto)
          = AddressSum(pkt.to) + AddressSum(pkt.from) + pkt.plen + UDP
    BY <1>1 DEF PseudoHeader
  <2>2. L4Sum(pkt.l4, pkt.payload) = pkt.l4.sport + pkt.l4.dport + pkt.length
    BY <1>1 DEF L4Sum
  <2>3. (sum + pkt.chksum) % Modulus = 0
    BY ChecksumZero
  <2>4. QED BY <2>1, <2>2, <2>3 DEF ChecksumCorrect
<1>6. QED BY <1>3, <1>4, <1>5 DEF ValidPacket

\* uint16() of what uint16() has cut off already.
LEMMA Uint16Again ==
  ASSUME NEW a \in Nat, NEW b \in Nat
  PROVE  /\ uint16(a) \in Nat
         /\ uint16(uint16(8 + a) - 8 - a + 8 + b) = uint16(8 + b)
BY DEF uint16

\* pack() builds headers that suit their payload.
LEMMA PackValid ==
  ASSUME NEW k \in Socket, NEW to \in Endpoint, NEW path \in RawPath, NEW payload \in Payload
  PROVE  LET h == pack(k, to, path, NoExtensions, AnyUdp, payload)
         IN Cached(h) /\ ValidPacket(Packet(h, payload))
<1> DEFINE h == pack(k, to, path, NoExtensions, AnyUdp, payload)
           dst == Destination(k, to)
           src == getSourceAddress(k, path)
           l4 == [proto |-> UDP, sport |-> src.port, dport |-> dst.port]
           sum == PseudoHeader(dst, src, 8 + payload.size, UDP)
<1>1. dst \in Endpoint /\ src \in Endpoint
  BY DEF Socket, Endpoint, RawPath, Destination, getSourceAddress
<1>2. payload.size \in Nat /\ payload.sum \in Nat
  BY DEF Payload
<1> HIDE DEF dst, src
<1>3. l4 \in UdpHeader /\ l4.proto = UDP /\ l4.sport = src.port /\ l4.dport = dst.port
  BY <1>1 DEF Endpoint, UdpHeader
<1>4. /\ [AnyUdp EXCEPT !.sport = src.port, !.dport = dst.port] = l4
      /\ AnyUdp.proto = UDP /\ L4Size(AnyUdp) = 8
  <2>1. [AnyUdp EXCEPT !.sport = src.port, !.dport = dst.port] = l4
    <3> DEFINE r == [AnyUdp EXCEPT !.sport = src.port]
    <3>1. [AnyUdp EXCEPT !.sport = src.port, !.dport = dst.port] = [r EXCEPT !.dport = dst.port]
      OBVIOUS
    <3>2. r = [proto |-> UDP, sport |-> src.port, dport |-> 0]
      BY DEF AnyUdp
    <3> HIDE DEF r
    <3>3. QED BY <3>1, <3>2
  <2>2. AnyUdp.proto = UDP
    BY DEF AnyUdp
  <2>3. L4Size(AnyUdp) = 8
    BY <2>2 DEF L4Size
  <2>4. QED BY <2>1, <2>2, <2>3
<1>5. /\ NoExtensions.hbh = 0 /\ NoExtensions.e2e = 0 /\ writeHeaders(NoExtensions, UDP) = << >>
      /\ uint16(0 + 0 + 8 + payload.size) = uint16(8 + payload.size)
  BY <1>2 DEF NoExtensions, writeHeaders
<1> HIDE DEF l4
<1> DEFINE g == [empty |-> FALSE, to |-> dst, from |-> src, path |-> path, nh |-> UDP,
                 plen |-> uint16(8 + payload.size), fl |-> computeFlowLabel(dst, src, l4),
                 options |-> << >>, l4 |-> l4, length |-> uint16(8 + payload.size),
                 chksum |-> internetChecksum(sum + L4Sum(l4, payload) + payload.sum),
                 scionHdrChksum |-> sum, payloadSize |-> payload.size]
<1>6. h = g
  <2>1. h = build(dst, src, path, NoExtensions, AnyUdp, payload)
    BY DEF pack, dst, src
  <2>2. /\ ~ (NoExtensions.e2e > 0) /\ ~ (NoExtensions.hbh > 0)
        /\ uint16(NoExtensions.hbh + NoExtensions.e2e + 8 + payload.size) = uint16(8 + payload.size)
    BY <1>5
  <2> HIDE DEF h
  <2>3. QED BY <2>1, <2>2, <1>4, <1>5 DEF build
<1>7. sum = AddressSum(dst) + AddressSum(src) + uint16(8 + payload.size) + UDP
  BY DEF PseudoHeader
<1>8. AddressSum(dst) \in Nat /\ AddressSum(src) \in Nat /\ uint16(8 + payload.size) \in Nat
      /\ l4.sport \in Nat /\ l4.dport \in Nat /\ UDP \in Nat
  BY <1>1, <1>2, <1>3 DEF AddressSum, Endpoint, uint16, UDP, UdpHeader
<1>9. L4Sum(l4, payload) = l4.sport + l4.dport + uint16(8 + payload.size)
  BY <1>3 DEF L4Sum, L4Size
<1> HIDE DEF sum
<1>10. Cached(g)
  <2>1. computeFlowLabel(dst, src, l4) \in FlowLabel
    BY <1>1, <1>3, <1>8 DEF computeFlowLabel, FlowLabel, Endpoint
  <2>2. sum \in Nat
    BY <1>7, <1>8
  <2>3. internetChecksum(sum + L4Sum(l4, payload) + payload.sum) \in Nat
    BY <1>2, <1>8, <1>9, <2>2, ChecksumZero
  <2>4. g \in UdpCache
    BY <1>1, <1>2, <1>3, <1>8, <2>1, <2>2, <2>3 DEF UdpCache
  <2>5. QED BY <1>7, <2>4 DEF Cached
<1>11. ValidPacket(Packet(g, payload))
  <2> DEFINE pkt == Packet(g, payload)
             all == sum + L4Sum(l4, payload) + payload.sum
  <2>1. /\ pkt.options = << >> /\ pkt.nh = UDP /\ pkt.l4 = l4 /\ pkt.payload = payload
        /\ pkt.to = dst /\ pkt.from = src
        /\ pkt.plen = uint16(8 + payload.size) /\ pkt.length = uint16(8 + payload.size)
        /\ pkt.chksum = internetChecksum(all)
    BY DEF Packet
  <2>2. /\ all \in Int
        /\ all = AddressSum(dst) + AddressSum(src) + uint16(8 + payload.size) + UDP
                 + (l4.sport + l4.dport + uint16(8 + payload.size)) + payload.sum
    BY <1>2, <1>7, <1>8, <1>9
  <2> HIDE DEF pkt, all, g
  <2>3. /\ pkt.plen = uint16(8 + pkt.payload.size) /\ pkt.length = uint16(8 + pkt.payload.size)
        /\ all = AddressSum(pkt.to) + AddressSum(pkt.from) + pkt.plen + UDP
               + (pkt.l4.sport + pkt.l4.dport + pkt.length) + pkt.payload.sum
    BY <2>1, <2>2
  <2>4. ValidPacket(pkt)
    BY <1>1, <1>3, <2>1, <2>2, <2>3, ValidUdp
  <2>5. QED BY <2>4 DEF pkt
<1>12. QED BY <1>6, <1>10, <1>11

\* updatePayload() keeps the sum of the pseudo header right without summing
\* it up again.
LEMMA CachedValid ==
  ASSUME NEW h, Cached(h), NEW l4 \in UdpHeader, NEW payload \in Payload
  PROVE  LET n == packCached(h, l4, payload)
         IN Cached(n) /\ ValidPacket(Packet(n, payload))
<1> DEFINE n == packCached(h, l4, payload)
           plen == uint16(8 + payload.size)
           sum == AddressSum(h.to) + AddressSum(h.from) + plen + UDP
<1>1. payload.size \in Nat /\ payload.sum \in Nat /\ h.payloadSize \in Nat
  BY DEF Payload, Cached, UdpCache
<1>2. L4Size(h.l4) = 8 /\ L4Size(l4) = 8 /\ l4.proto = UDP /\ l4.sport \in Nat /\ l4.dport \in Nat
  BY DEF Cached, UdpCache, UdpHeader, L4Size
<1>3. uint16(h.plen - L4Size(h.l4) - h.payloadSize + L4Size(l4) + payload.size) = plen
      /\ plen \in Nat
  <2>1. h.plen = uint16(8 + h.payloadSize)
    BY DEF Cached
  <2>2. uint16(uint16(8 + h.payloadSize) - 8 - h.payloadSize + 8 + payload.size) = plen
    BY <1>1, Uint16Again
  <2>3. plen \in Nat
    BY <1>1 DEF uint16
  <2> HIDE DEF plen
  <2>4. QED BY <1>2, <2>1, <2>2, <2>3
<1>4. AddressSum(h.to) \in Nat /\ AddressSum(h.from) \in Nat /\ UDP \in Nat /\ h.plen \in Nat
  <2>1. h.to \in Endpoint /\ h.from \in Endpoint /\ h.plen = uint16(8 + h.payloadSize)
    BY DEF Cached, UdpCache
  <2>2. QED BY <1>1, <2>1 DEF AddressSum, Endpoint, UDP, uint16
<1>5. h.scionHdrChksum + (l4.proto - h.nh) + (plen - h.plen) = sum
  <2>1. h.scionHdrChksum = AddressSum(h.to) + AddressSum(h.from) + h.plen + UDP /\ h.nh = UDP
    BY DEF Cached, UdpCache
  <2> HIDE DEF plen
  <2>2. QED BY <1>2, <1>3, <1>4, <2>1
<1> HIDE DEF plen, sum
<1> DEFINE all == sum + L4Sum(l4, payload) + payload.sum
<1>6. /\ n \in UdpCache /\ n.to = h.to /\ n.from = h.from
      /\ n.options = << >> /\ n.nh = UDP /\ n.l4 = l4 /\ n.plen = plen /\ n.length = plen
      /\ n.scionHdrChksum = sum /\ n.chksum = internetChecksum(all)
      /\ n.payloadSize = payload.size
  <2>1. n = [updateHeaders(h, l4.proto) EXCEPT
               !.plen = plen, !.l4 = l4, !.length = plen, !.scionHdrChksum = sum,
               !.chksum = internetChecksum(all), !.payloadSize = payload.size]
    BY <1>2, <1>3, <1>5 DEF packCached, updatePayload, plen
  <2>2. updateHeaders(h, l4.proto) = [h EXCEPT !.nh = UDP]
    BY <1>2 DEF updateHeaders, Cached, UdpCache
  <2>3. h \in UdpCache
    BY DEF Cached
  <2>4. sum \in Nat /\ internetChecksum(all) \in Nat
    BY <1>1, <1>2, <1>3, <1>4, ChecksumZero DEF sum, L4Sum, uint16
  <2> HIDE DEF n, all
  <2>5. QED BY <1>1, <1>3, <2>1, <2>2, <2>3, <2>4 DEF UdpCache
<1>7. h.to \in Endpoint /\ h.from \in Endpoint
  BY DEF Cached, UdpCache
<1> HIDE DEF n
<1>8. Cached(n)
  BY <1>1, <1>6, <1>7 DEF Cached, plen, sum
<1>9. ValidPacket(Packet(n, payload))
  <2> DEFINE pkt == Packet(n, payload)
  <2>1. /\ pkt.options = << >> /\ pkt.nh = UDP /\ pkt.l4 = l4 /\ pkt.payload = payload
        /\ pkt.to = h.to /\ pkt.from = h.from /\ pkt.plen = plen /\ pkt.length = plen
        /\ pkt.chksum = internetChecksum(all)
    BY <1>6 DEF Packet
  <2>2. L4Sum(l4, payload) = l4.sport + l4.dport + plen
    BY <1>2 DEF L4Sum, plen
  <2>3. all \in Int /\ all = AddressSum(h.to) + AddressSum(h.from) + plen + UDP
                             + (l4.sport + l4.dport + plen) + payload.sum
    BY <1>1, <1>2, <1>3, <1>4, <2>2 DEF sum
  <2> HIDE DEF pkt, all
  <2>4. /\ pkt.plen = uint16(8 + pkt.payload.size) /\ pkt.length = uint16(8 + pkt.payload.size)
        /\ all = AddressSum(pkt.to) + AddressSum(pkt.from) + pkt.plen + UDP
               + (pkt.l4.sport + pkt.l4.dport + pkt.length) + pkt.payload.sum
    BY <2>1, <2>3 DEF plen
  <2>5. ValidPacket(pkt)
    BY <1>7, <2>1, <2>3, <2>4, ValidUdp
  <2>6. QED BY <2>5 DEF pkt
<1>10. QED BY <1>8, <1>9 DEF n

\* A set of naturals has a least element.
LEMMA MinNat ==
  ASSUME NEW S \in SUBSET Nat, S # {}
  PROVE  Min(S) \in S /\ \A x \in S : Min(S) <= x
<1>1. PICK m \in S : \A y \in S : ~ (<<y, m>> \in OpToRel(<, Nat))
  BY NatLessThanWellFounded, WFMin
<1>2. ASSUME NEW y \in S PROVE m <= y
  <2>1. y \in Nat /\ m \in Nat /\ ~ (<<y, m>> \in OpToRel(<, Nat))
    BY <1>1
  <2>2. ~(y < m)
    BY <2>1 DEF OpToRel
  <2>3. y \in Nat /\ m \in Nat
    OBVIOUS
  <2>4. QED BY <2>2, <2>3
<1>3. \E x \in S : \A y \in S : x <= y
  BY <1>2
<1>4. Min(S) = CHOOSE x \in S : \A y \in S : x <= y
  BY DEF Min
<1>5. QED BY <1>3, <1>4

-----------------------------------------------------------------------------
\* Which functions change what.
LEMMA Frames ==
  ASSUME [Next]_vars
  PROVE  /\ UNCHANGED ctx \/ scion_create_host_context \/ scion_delete_host_context \/ scion_set_scmp_handler
             \/ scion_stop \/ scion_restart \/ RunsOut
         /\ UNCHANGED sock \/ scion_socket_create \/ scion_close \/ scion_bind \/ scion_connect
             \/ scion_request_stun_mapping \/ scion_recv \/ scion_recv_stun_response
             \/ \E o \in Ops : scion_request_stun_mapping_async(o) \/ Dispatch(o)
         /\ UNCHANGED hdr \/ scion_hdr_cache_allocate \/ scion_hdr_cache_free
             \/ \E cached \in BOOLEAN : SendSync(cached) \/ \E o \in Ops : SendAsync(o, cached)
         /\ UNCHANGED inbox \/ scion_close \/ Arrive \/ scion_recv \/ scion_recv_stun_response \/ PollReceive
             \/ (\E o \in Ops, kind \in {"recv", "recv_stun"} : ReceiveAsync(o, kind))
             \/ \E o \in Ops : Dispatch(o)
         /\ UNCHANGED mem \/ scion_query_paths \/ scion_delete_host_context \/ scion_release_paths
         /\ UNCHANGED dead \/ scion_query_paths \/ scion_recv \/ \E o \in Ops : Dispatch(o)
         /\ wire' \in {wire, None}
             \/ (\E cached \in BOOLEAN : SendSync(cached) \/ \E o \in Ops : SendAsync(o, cached))
             \/ \E o \in Ops : PollOther(o)
         /\ UNCHANGED <<op, calls, recvq>> \/ scion_delete_host_context \/ scion_close
             \/ scion_cancel \/ scion_timer_cancel \/ PollReceive
             \/ \E o \in Ops : \/ \E cached \in BOOLEAN : SendAsync(o, cached)
                              \/ \E kind \in {"recv", "recv_stun"} : ReceiveAsync(o, kind)
                              \/ InvalidArgument(o) \/ scion_request_stun_mapping_async(o)
                              \/ scion_resolve_name_async(o) \/ scion_timer_wait_async(o)
                              \/ PollOther(o) \/ Dispatch(o)
<1>1. /\ scion_send => SendSync(FALSE) /\ UNCHANGED <<ctx, sock, op, calls, recvq, inbox, mem, dead>>
      /\ scion_send_cached => SendSync(TRUE) /\ UNCHANGED <<ctx, sock, op, calls, recvq, inbox, mem, dead>>
      /\ \A o \in Ops :
           /\ scion_send_async(o) => SendAsync(o, FALSE) /\ UNCHANGED <<ctx, sock, inbox, mem, dead>>
           /\ scion_send_cached_async(o) => SendAsync(o, TRUE) /\ UNCHANGED <<ctx, sock, inbox, mem, dead>>
  BY DEF scion_send, scion_send_cached, SendSync, scion_send_async, scion_send_cached_async, SendAsync
<1>2. \A o \in Ops :
        /\ scion_recv_async(o) => ReceiveAsync(o, "recv") /\ UNCHANGED <<ctx, sock, hdr, mem, dead>>
        /\ scion_recv_stun_response_async(o) =>
             ReceiveAsync(o, "recv_stun") /\ UNCHANGED <<ctx, sock, hdr, mem, dead>>
  BY DEF scion_recv_async, scion_recv_stun_response_async, ReceiveAsync
<1>3. UNCHANGED ctx \/ scion_create_host_context \/ scion_delete_host_context \/ scion_set_scmp_handler
           \/ scion_stop \/ scion_restart \/ RunsOut
  <2>1. CASE Call
    BY <1>1, <1>2, <2>1 DEF Call, scion_create_host_context, scion_delete_host_context,
       scion_set_scmp_handler, scion_stop, scion_query_paths, scion_release_paths,
       scion_hdr_cache_allocate, scion_hdr_cache_free, scion_socket_create, scion_close,
       scion_bind, scion_connect, scion_cancel, scion_request_stun_mapping, scion_recv,
       scion_recv_stun_response, scion_timer_cancel, InvalidArgument,
       scion_request_stun_mapping_async, scion_resolve_name_async, scion_timer_wait_async
  <2>2. CASE scion_restart \/ Arrive \/ PollReceive \/ RunsOut
             \/ \E o \in Ops : PollOther(o) \/ Dispatch(o)
    BY <2>2 DEF scion_restart, Arrive, PollReceive, RunsOut, PollOther, Dispatch
  <2>3. QED BY <2>1, <2>2 DEF Next, vars
<1>4. UNCHANGED sock \/ scion_socket_create \/ scion_close \/ scion_bind \/ scion_connect
           \/ scion_request_stun_mapping \/ scion_recv \/ scion_recv_stun_response
           \/ \E o \in Ops : scion_request_stun_mapping_async(o) \/ Dispatch(o)
  <2>1. CASE Call
    BY <1>1, <1>2, <2>1 DEF Call, scion_create_host_context, scion_delete_host_context,
       scion_set_scmp_handler, scion_stop, scion_query_paths, scion_release_paths,
       scion_hdr_cache_allocate, scion_hdr_cache_free, scion_socket_create, scion_close,
       scion_bind, scion_connect, scion_cancel, scion_request_stun_mapping, scion_recv,
       scion_recv_stun_response, scion_timer_cancel, InvalidArgument,
       scion_request_stun_mapping_async, scion_resolve_name_async, scion_timer_wait_async
  <2>2. CASE scion_restart \/ Arrive \/ PollReceive \/ RunsOut
             \/ \E o \in Ops : PollOther(o) \/ Dispatch(o)
    BY <2>2 DEF scion_restart, Arrive, PollReceive, RunsOut, PollOther, Dispatch
  <2>3. QED BY <2>1, <2>2 DEF Next, vars
<1>5. UNCHANGED hdr \/ scion_hdr_cache_allocate \/ scion_hdr_cache_free
           \/ \E cached \in BOOLEAN : SendSync(cached) \/ \E o \in Ops : SendAsync(o, cached)
  <2>1. CASE Call
    BY <1>1, <1>2, <2>1 DEF Call, scion_create_host_context, scion_delete_host_context,
       scion_set_scmp_handler, scion_stop, scion_query_paths, scion_release_paths,
       scion_hdr_cache_allocate, scion_hdr_cache_free, scion_socket_create, scion_close,
       scion_bind, scion_connect, scion_cancel, scion_request_stun_mapping, scion_recv,
       scion_recv_stun_response, scion_timer_cancel, InvalidArgument,
       scion_request_stun_mapping_async, scion_resolve_name_async, scion_timer_wait_async
  <2>2. CASE scion_restart \/ Arrive \/ PollReceive \/ RunsOut
             \/ \E o \in Ops : PollOther(o) \/ Dispatch(o)
    BY <2>2 DEF scion_restart, Arrive, PollReceive, RunsOut, PollOther, Dispatch
  <2>3. QED BY <2>1, <2>2 DEF Next, vars
<1>6. UNCHANGED inbox \/ scion_close \/ Arrive \/ scion_recv \/ scion_recv_stun_response \/ PollReceive
           \/ (\E o \in Ops, kind \in {"recv", "recv_stun"} : ReceiveAsync(o, kind))
           \/ \E o \in Ops : Dispatch(o)
  <2>1. CASE Call
    BY <1>1, <1>2, <2>1 DEF Call, scion_create_host_context, scion_delete_host_context,
       scion_set_scmp_handler, scion_stop, scion_query_paths, scion_release_paths,
       scion_hdr_cache_allocate, scion_hdr_cache_free, scion_socket_create, scion_close,
       scion_bind, scion_connect, scion_cancel, scion_request_stun_mapping, scion_recv,
       scion_recv_stun_response, scion_timer_cancel, InvalidArgument,
       scion_request_stun_mapping_async, scion_resolve_name_async, scion_timer_wait_async
  <2>2. CASE scion_restart \/ Arrive \/ PollReceive \/ RunsOut
             \/ \E o \in Ops : PollOther(o) \/ Dispatch(o)
    BY <2>2 DEF scion_restart, Arrive, PollReceive, RunsOut, PollOther, Dispatch
  <2>3. QED BY <2>1, <2>2 DEF Next, vars
<1>7. UNCHANGED mem \/ scion_query_paths \/ scion_delete_host_context \/ scion_release_paths
  <2>1. CASE Call
    BY <1>1, <1>2, <2>1 DEF Call, scion_create_host_context, scion_delete_host_context,
       scion_set_scmp_handler, scion_stop, scion_query_paths, scion_release_paths,
       scion_hdr_cache_allocate, scion_hdr_cache_free, scion_socket_create, scion_close,
       scion_bind, scion_connect, scion_cancel, scion_request_stun_mapping, scion_recv,
       scion_recv_stun_response, scion_timer_cancel, InvalidArgument,
       scion_request_stun_mapping_async, scion_resolve_name_async, scion_timer_wait_async
  <2>2. CASE scion_restart \/ Arrive \/ PollReceive \/ RunsOut
             \/ \E o \in Ops : PollOther(o) \/ Dispatch(o)
    BY <2>2 DEF scion_restart, Arrive, PollReceive, RunsOut, PollOther, Dispatch
  <2>3. QED BY <2>1, <2>2 DEF Next, vars
<1>8. UNCHANGED dead \/ scion_query_paths \/ scion_recv \/ \E o \in Ops : Dispatch(o)
  <2>1. CASE Call
    BY <1>1, <1>2, <2>1 DEF Call, scion_create_host_context, scion_delete_host_context,
       scion_set_scmp_handler, scion_stop, scion_query_paths, scion_release_paths,
       scion_hdr_cache_allocate, scion_hdr_cache_free, scion_socket_create, scion_close,
       scion_bind, scion_connect, scion_cancel, scion_request_stun_mapping, scion_recv,
       scion_recv_stun_response, scion_timer_cancel, InvalidArgument,
       scion_request_stun_mapping_async, scion_resolve_name_async, scion_timer_wait_async
  <2>2. CASE scion_restart \/ Arrive \/ PollReceive \/ RunsOut
             \/ \E o \in Ops : PollOther(o) \/ Dispatch(o)
    BY <2>2 DEF scion_restart, Arrive, PollReceive, RunsOut, PollOther, Dispatch
  <2>3. QED BY <2>1, <2>2 DEF Next, vars
<1>9. wire' \in {wire, None}
           \/ (\E cached \in BOOLEAN : SendSync(cached) \/ \E o \in Ops : SendAsync(o, cached))
           \/ \E o \in Ops : PollOther(o)
  <2>1. CASE Call
    BY <1>1, <1>2, <2>1 DEF Call, ReceiveAsync, scion_create_host_context, scion_delete_host_context,
       scion_set_scmp_handler, scion_stop, scion_query_paths, scion_release_paths,
       scion_hdr_cache_allocate, scion_hdr_cache_free, scion_socket_create, scion_close,
       scion_bind, scion_connect, scion_cancel, scion_request_stun_mapping, scion_recv,
       scion_recv_stun_response, scion_timer_cancel, InvalidArgument,
       scion_request_stun_mapping_async, scion_resolve_name_async, scion_timer_wait_async
  <2>2. CASE scion_restart \/ Arrive \/ PollReceive \/ RunsOut
             \/ \E o \in Ops : PollOther(o) \/ Dispatch(o)
    BY <2>2 DEF scion_restart, Arrive, PollReceive, RunsOut, PollOther, Dispatch
  <2>3. QED BY <2>1, <2>2 DEF Next, vars
<1>10. UNCHANGED <<op, calls, recvq>> \/ scion_delete_host_context \/ scion_close
           \/ scion_cancel \/ scion_timer_cancel \/ PollReceive
           \/ \E o \in Ops : \/ \E cached \in BOOLEAN : SendAsync(o, cached)
                            \/ \E kind \in {"recv", "recv_stun"} : ReceiveAsync(o, kind)
                            \/ InvalidArgument(o) \/ scion_request_stun_mapping_async(o)
                            \/ scion_resolve_name_async(o) \/ scion_timer_wait_async(o)
                            \/ PollOther(o) \/ Dispatch(o)
  <2>1. CASE Call
    BY <1>1, <1>2, <2>1 DEF Call, scion_create_host_context, scion_delete_host_context,
       scion_set_scmp_handler, scion_stop, scion_query_paths, scion_release_paths,
       scion_hdr_cache_allocate, scion_hdr_cache_free, scion_socket_create, scion_close,
       scion_bind, scion_connect, scion_cancel, scion_request_stun_mapping, scion_recv,
       scion_recv_stun_response, scion_timer_cancel, InvalidArgument,
       scion_request_stun_mapping_async, scion_resolve_name_async, scion_timer_wait_async
  <2>2. CASE scion_restart \/ Arrive \/ PollReceive \/ RunsOut
             \/ \E o \in Ops : PollOther(o) \/ Dispatch(o)
    BY <2>2 DEF scion_restart, Arrive, PollReceive, RunsOut, PollOther, Dispatch
  <2>3. QED BY <2>1, <2>2 DEF Next, vars
<1>11. QED BY <1>3, <1>4, <1>5, <1>6, <1>7, <1>8, <1>9, <1>10

-----------------------------------------------------------------------------
(***************************************************************************)
(* Paths.                                                                  *)
(***************************************************************************)
LEMMA Counts ==
  ASSUME NEW refs \in [Paths -> Int], NEW set
  PROVE  /\ Release(refs, set) \in [Paths -> Int] /\ Acquire(refs, set) \in [Paths -> Int]
         /\ \A p \in Paths : /\ Release(refs, set)[p] = IF p \in set THEN refs[p] - 1 ELSE refs[p]
                             /\ Acquire(refs, set)[p] = IF p \in set THEN refs[p] + 1 ELSE refs[p]
BY DEF Release, Acquire

LEMMA MemInit == Init => MemInv
BY DEF Init, MemInv, PathsHeldAlive

\* Paths of an answer of the daemon are new: the cache drops its references
\* to the old ones and takes one to each of them.
LEMMA QueryPaths ==
  ASSUME MemInv, scion_query_paths
  PROVE  MemInv'
<1> DEFINE Mem == [refs : [Paths -> Int], held : [Paths -> Nat], cached : SUBSET Paths]
           Alive(m) == \A p \in Paths : m.refs[p] = m.held[p] + (IF p \in m.cached THEN 1 ELSE 0)
<1>1. mem \in Mem /\ Alive(mem)
  BY DEF MemInv, PathsHeldAlive
<1>2. CASE UNCHANGED mem
  BY <1>2 DEF MemInv, PathsHeldAlive
<1>3. ASSUME NEW refresh \in BOOLEAN, NEW new \in SUBSET {p \in Paths : mem.refs[p] = 0},
             NEW m, m = IF refresh THEN Store(mem, new) ELSE mem,
             NEW set \in SUBSET m.cached, mem' = Detach(m, set)
      PROVE  MemInv'
  <2>1. m \in Mem /\ Alive(m)
    <3>1. CASE ~refresh
      BY <1>1, <1>3, <3>1
    <3>2. CASE refresh
      <4> DEFINE r == Acquire(Release(mem.refs, mem.cached), new)
      <4>1. m = [mem EXCEPT !.refs = r, !.cached = new]
        BY <1>3, <3>2 DEF Store
      <4>2. new \in SUBSET Paths
        BY <1>3
      <4>3. /\ r \in [Paths -> Int]
            /\ \A p \in Paths : r[p] = mem.held[p] + IF p \in new THEN 1 ELSE 0
        <5>1. Release(mem.refs, mem.cached) \in [Paths -> Int]
          BY <1>1, Counts
        <5>2. \A p \in Paths : Release(mem.refs, mem.cached)[p] = mem.held[p]
          BY <1>1, Counts
        <5>3. QED BY <1>1, <5>1, <5>2, Counts
      <4> HIDE DEF r
      <4>4. /\ m \in Mem /\ m.refs = r /\ m.cached = new /\ m.held = mem.held
        BY <1>1, <4>1, <4>2, <4>3
      <4>5. QED BY <4>3, <4>4
    <3>3. QED BY <1>3, <3>1, <3>2
  <2>2. m.held \in [Paths -> Int] /\ m.refs \in [Paths -> Int] /\ m.held \in [Paths -> Nat]
    BY <2>1
  <2>3. Acquire(m.held, set) \in [Paths -> Nat]
    <3>1. \A p \in Paths : Acquire(m.held, set)[p] \in Nat
      BY <2>2, Counts
    <3>2. QED BY <3>1 DEF Acquire
  <2>4. mem' = [m EXCEPT !.refs = Acquire(m.refs, set), !.held = Acquire(m.held, set)]
    BY <1>3 DEF Detach
  <2>5. mem' \in Mem /\ mem'.refs = Acquire(m.refs, set) /\ mem'.held = Acquire(m.held, set)
        /\ mem'.cached = m.cached
    BY <2>1, <2>2, <2>3, <2>4, Counts
  <2>6. Alive(mem')
    BY <2>1, <2>2, <2>5, Counts
  <2>7. QED BY <2>5, <2>6 DEF MemInv, PathsHeldAlive
<1>4. QED BY <1>2, <1>3 DEF scion_query_paths

LEMMA MemStep == MemInv /\ [Next]_vars => MemInv'
<1> SUFFICES ASSUME MemInv, [Next]_vars PROVE MemInv'
  OBVIOUS
<1> DEFINE Mem == [refs : [Paths -> Int], held : [Paths -> Nat], cached : SUBSET Paths]
<1>1. mem \in Mem /\ \A p \in Paths : mem.refs[p] = mem.held[p] + (IF p \in mem.cached THEN 1 ELSE 0)
  BY DEF MemInv, PathsHeldAlive
<1>2. CASE scion_query_paths
  BY <1>2, QueryPaths
<1>3. CASE scion_delete_host_context
  <2>1. mem' = [mem EXCEPT !.refs = Release(mem.refs, mem.cached), !.cached = {}]
    BY <1>3 DEF scion_delete_host_context
  <2>2. mem' \in Mem /\ mem'.refs = Release(mem.refs, mem.cached) /\ mem'.held = mem.held
        /\ mem'.cached = {}
    <3> DEFINE r == Release(mem.refs, mem.cached)
    <3>1. r \in [Paths -> Int]
      BY <1>1, Counts
    <3>2. mem' = [mem EXCEPT !.refs = r, !.cached = {}]
      BY <2>1
    <3> HIDE DEF r
    <3>3. mem' \in Mem /\ mem'.refs = r /\ mem'.held = mem.held /\ mem'.cached = {}
      BY <1>1, <3>1, <3>2
    <3>4. QED BY <3>3 DEF r
  <2>3. QED BY <1>1, <2>2, Counts DEF MemInv, PathsHeldAlive
<1>4. CASE scion_release_paths
  <2>1. PICK set \in SUBSET Paths :
          /\ \A p \in set : mem.held[p] > 0
          /\ mem' = [mem EXCEPT !.refs = Release(mem.refs, set), !.held = Release(mem.held, set)]
    BY <1>4 DEF scion_release_paths
  <2>2. mem.held \in [Paths -> Int] /\ mem.held \in [Paths -> Nat]
    BY <1>1
  <2>3. Release(mem.held, set) \in [Paths -> Nat]
    <3>1. \A p \in Paths : Release(mem.held, set)[p] \in Nat
      BY <2>1, <2>2, Counts
    <3>2. QED BY <3>1 DEF Release
  <2>4. mem' \in Mem /\ mem'.refs = Release(mem.refs, set) /\ mem'.held = Release(mem.held, set)
        /\ mem'.cached = mem.cached
    BY <1>1, <2>1, <2>2, <2>3, Counts
  <2>5. QED BY <1>1, <2>2, <2>4, Counts DEF MemInv, PathsHeldAlive
<1>5. CASE UNCHANGED mem
  BY <1>5 DEF MemInv, PathsHeldAlive
<1>6. QED BY <1>2, <1>3, <1>4, <1>5, Frames

-----------------------------------------------------------------------------
(***************************************************************************)
(* The context, the socket, the header cache and the packets.              *)
(***************************************************************************)
LEMMA CtxStep ==
  ASSUME ctx = None \/ ctx \in Context, [Next]_vars
  PROVE  ctx' = None \/ ctx' \in Context
<1>1. CASE scion_create_host_context
  BY <1>1 DEF scion_create_host_context, Context
<1>2. CASE scion_delete_host_context
  BY <1>2 DEF scion_delete_host_context
<1>3. CASE scion_set_scmp_handler \/ scion_stop \/ scion_restart \/ RunsOut
  <2>1. ctx \in Context
    BY <1>3 DEF scion_set_scmp_handler, scion_stop, scion_restart, RunsOut, Looping, Running
  <2>2. \E b \in BOOLEAN : ctx' = [ctx EXCEPT !.callback = b] \/ ctx' = [ctx EXCEPT !.stopped = b]
    BY <1>3, <2>1 DEF scion_set_scmp_handler, scion_stop, scion_restart, RunsOut
  <2>3. QED BY <2>1, <2>2 DEF Context
<1>4. QED BY <1>1, <1>2, <1>3, Frames

LEMMA LearnSocket == ASSUME NEW s \in Socket PROVE Learn(s) \in Socket
<1>1. [External EXCEPT !.as = s.local.as] \in Endpoint
  BY CInterfaceAssumption DEF Socket, Endpoint
<1>2. QED BY <1>1 DEF Learn, Socket

LEMMA NewSocketType == NewSocket \in Socket /\ Unspecified \in Endpoint
BY DEF NewSocket, Socket, Unspecified, Endpoint

LEMMA BindType ==
  ASSUME NEW family, NEW as \in Nat, NEW port \in Nat
  PROVE  BindEndpoint(family, as, port) \in Endpoint
<1>1. ByteSwap(port) \in Nat
  BY DEF ByteSwap
<1>2. QED BY <1>1 DEF BindEndpoint, Endpoint

\* Sockets stay until they are closed.  The packager of a deleted socket is
\* not used, because its operations are marked.
LEMMA SockStep ==
  ASSUME sock \in Socket \cup {None}, OpTypes, GoneInv, [Next]_vars
  PROVE  sock' \in Socket \cup {None} /\ (sock # None => scion_close \/ sock' # None)
<1>0. None \notin Socket
  BY CInterfaceAssumption
<1>1. CASE UNCHANGED sock
  BY <1>1
<1>2. CASE scion_socket_create
  BY <1>0, <1>2, NewSocketType DEF scion_socket_create
<1>3. CASE scion_close
  BY <1>3 DEF scion_close
<1>4. CASE scion_bind
  <2>1. PICK ep \in Endpoint : sock' = [sock EXCEPT !.open = TRUE, !.local = ep, !.mapped = ep]
    <3>1. PICK family \in {"scion", "inet"}, as \in BindAS, port \in Ports :
            sock' = [sock EXCEPT !.open = TRUE, !.local = BindEndpoint(family, as, port),
                                 !.mapped = BindEndpoint(family, as, port)]
      BY <1>4 DEF scion_bind
    <3>2. BindEndpoint(family, as, port) \in Endpoint
      BY CInterfaceAssumption, BindType
    <3>3. QED BY <3>1, <3>2
  <2>2. sock \in Socket
    BY <1>4 DEF scion_bind, HasSocket
  <2>3. sock' \in Socket
    BY <2>1, <2>2 DEF Socket
  <2>4. QED BY <1>0, <2>3
<1>5. CASE scion_connect
  <2>1. PICK to \in Endpoint : sock' = [sock EXCEPT !.remote = to]
    BY <1>5, CInterfaceAssumption, NewSocketType DEF scion_connect
  <2>2. sock \in Socket
    BY <1>5 DEF scion_connect, HasSocket
  <2>3. sock' \in Socket
    BY <2>1, <2>2 DEF Socket
  <2>4. QED BY <1>0, <2>3
<1>6. CASE scion_request_stun_mapping \/ \E o \in Ops : scion_request_stun_mapping_async(o)
  <2>1. sock \in Socket /\ sock' = [sock EXCEPT !.expects = TRUE]
    BY <1>6 DEF scion_request_stun_mapping, scion_request_stun_mapping_async, HasSocket
  <2>2. sock' \in Socket
    BY <2>1 DEF Socket
  <2>3. QED BY <1>0, <2>2
<1>7. CASE scion_recv \/ scion_recv_stun_response
  <2>1. sock \in Socket /\ sock' \in {sock, Learn(sock)}
    BY <1>7 DEF scion_recv, scion_recv_stun_response, HasSocket
  <2>2. QED BY <1>0, <2>1, LearnSocket
<1>8. ASSUME NEW o \in Ops, Dispatch(o)
      PROVE  sock' \in Socket \cup {None} /\ (sock # None => sock' # None)
  <2>1. CASE FinishRecv(o) \/ FinishRecvStun(o)
    <3>1. /\ op[o].kind \in SocketKinds /\ op[o].st = "ready" /\ ~op[o].gone
          /\ sock' = sock \/ sock' = Learn(sock)
      BY <1>8, <2>1 DEF Dispatch, FinishRecv, FinishRecvStun, SocketKinds
    <3>2. sock \in Socket
      BY <3>1 DEF GoneInv, InFlight
    <3>3. QED BY <1>0, <3>1, <3>2, LearnSocket
  <2>2. CASE UNCHANGED sock
    BY <2>2
  <2>3. QED BY <1>8, <2>1, <2>2 DEF Dispatch, FinishOther, FinishError, FinishGone
<1>9. QED BY <1>1, <1>2, <1>3, <1>4, <1>5, <1>6, <1>7, <1>8, Frames

\* What is sent, and the headers that stay behind.
LEMMA HeadersValid ==
  ASSUME EnvInv, HasSocket, hdr # None, NEW cached \in BOOLEAN, NEW payload \in Payloads,
         NEW h \in Headers(cached, payload)
  PROVE  /\ h.err = "Ok" => Cached(h.hdr) /\ ValidPacket(Packet(h.hdr, payload))
         /\ h.err # "Ok" => h.hdr = hdr
         /\ h.hdr # None
<1>0. /\ sock \in Socket /\ payload \in Payload
      /\ None \notin UdpCache /\ (hdr = EmptyCache \/ Cached(hdr))
  BY CInterfaceAssumption DEF EnvInv, HasSocket, Payload
<1>1. CASE cached
  <2>1. h = CachedHeaders(payload)
    BY <1>1 DEF Headers
  <2>2. h.err = PackCachedError(hdr) /\ h.err # "Ok" => h.hdr = hdr
    BY <2>1 DEF CachedHeaders
  <2>3. h.err = "Ok" => h.hdr = packCached(hdr, CachedUdp, payload)
    BY <2>1 DEF CachedHeaders
  <2>4. h.err = "Ok" => Cached(hdr)
    BY <1>0, <2>1 DEF CachedHeaders, PackCachedError, EmptyCache
  <2>5. CachedUdp \in UdpHeader
    BY <1>0 DEF CachedUdp, UdpHeader, Socket, Endpoint
  <2>6. h.err = "Ok" => Cached(h.hdr) /\ ValidPacket(Packet(h.hdr, payload))
    BY <1>0, <2>3, <2>4, <2>5, CachedValid
  <2>7. h.err # "Ok" => h.hdr = hdr
    BY <2>1 DEF CachedHeaders
  <2>8. QED BY <1>0, <2>6, <2>7 DEF Cached
<1>2. CASE ~cached
  <2>1. PICK to \in Dests \cup {Unspecified}, path \in PathArgs : h = FullHeaders(to, path, payload)
    BY <1>2 DEF Headers
  <2>2. to \in Endpoint /\ path \in RawPath
    BY CInterfaceAssumption, NewSocketType DEF PathArgs
  <2>3. h.err = "Ok" => h.hdr = pack(sock, to, path, NoExtensions, AnyUdp, payload)
    BY <2>1 DEF FullHeaders
  <2>4. h.err # "Ok" => h.hdr = hdr
    BY <2>1 DEF FullHeaders
  <2>5. h.err = "Ok" => Cached(h.hdr) /\ ValidPacket(Packet(h.hdr, payload))
    BY <1>0, <2>2, <2>3, PackValid
  <2>6. QED BY <1>0, <2>4, <2>5 DEF Cached
<1>3. QED BY <1>1, <1>2

LEMMA HdrStep ==
  ASSUME EnvInv, [Next]_vars
  PROVE  hdr' = None \/ hdr' = EmptyCache \/ Cached(hdr')
<1>1. CASE UNCHANGED hdr
  BY <1>1 DEF EnvInv
<1>2. CASE scion_hdr_cache_allocate \/ scion_hdr_cache_free
  BY <1>2 DEF scion_hdr_cache_allocate, scion_hdr_cache_free
<1>3. ASSUME NEW cached \in BOOLEAN, SendSync(cached) \/ \E o \in Ops : SendAsync(o, cached)
      PROVE  hdr' = None \/ hdr' = EmptyCache \/ Cached(hdr')
  <2>1. PICK payload \in Payloads : \E h \in Headers(cached, payload) : hdr' = h.hdr
    BY <1>3 DEF SendSync, SendAsync
  <2>2. PICK h \in Headers(cached, payload) : hdr' = h.hdr
    BY <2>1
  <2>3. HasSocket /\ hdr # None
    BY <1>3 DEF SendSync, SendAsync
  <2>4. Cached(h.hdr) \/ h.hdr = hdr
    BY <2>3, HeadersValid
  <2>5. QED BY <2>2, <2>4 DEF EnvInv
<1>4. QED BY <1>1, <1>2, <1>3, Frames

LEMMA TailType ==
  ASSUME NEW S, NEW s \in Seq(S), s # << >>
  PROVE  /\ Tail(s) \in Seq(S) /\ Head(s) \in S /\ Head(s) = s[1]
         /\ Len(Tail(s)) = Len(s) - 1
         /\ \A i \in 1 .. Len(s) - 1 : Tail(s)[i] = s[i + 1]
OBVIOUS

\* async_receive_from(): what becomes of the operation and the queues.
LEMMA ReceiveStep ==
  ASSUME NEW o \in Ops, NEW kind \in {"recv", "recv_stun"}, OpTypes, inbox \in Seq(Inputs),
         StartReceive(o, kind)
  PROVE  /\ inbox' \in Seq(Inputs)
         /\ \E rec \in Operation :
              /\ op' = [op EXCEPT ![o] = rec] /\ rec.kind = kind /\ rec.gone = FALSE
              /\ \/ rec.st = "ready" /\ recvq' = recvq
                 \/ rec.st = "pending" /\ recvq' = Append(recvq, o)
<1> DEFINE Rec(st, result) == [kind |-> kind, st |-> st, result |-> result, gone |-> FALSE,
                               payload |-> None]
<1>1. ASSUME NEW st \in {"ready", "pending"}, NEW result \in Results
      PROVE  Rec(st, result) \in Operation
  BY DEF Operation, Kinds, States
<1>2. CASE op' = Start(o, kind, "ready", "error", None) /\ UNCHANGED <<recvq, inbox>>
  <2>1. Rec("ready", "error") \in Operation
    BY <1>1 DEF Results
  <2>2. QED BY <1>2, <2>1 DEF Start
<1>3. CASE /\ inbox # << >> /\ op' = Start(o, kind, "ready", Head(inbox), None)
           /\ inbox' = Tail(inbox) /\ UNCHANGED recvq
  <2>1. Head(inbox) \in Results /\ Tail(inbox) \in Seq(Inputs)
    BY <1>3, TailType DEF Results
  <2>2. Rec("ready", Head(inbox)) \in Operation
    BY <1>1, <2>1
  <2>3. QED BY <1>3, <2>1, <2>2 DEF Start
<1>4. CASE /\ op' = Start(o, kind, "pending", "none", None)
           /\ recvq' = Append(recvq, o) /\ UNCHANGED inbox
  <2>1. Rec("pending", "none") \in Operation
    BY <1>1 DEF Results
  <2>2. QED BY <1>4, <2>1 DEF Start
<1>5. QED BY <1>2, <1>3, <1>4 DEF StartReceive

LEMMA InboxStep ==
  ASSUME EnvInv, OpTypes, [Next]_vars
  PROVE  inbox' \in Seq(Inputs)
<1>0. inbox \in Seq(Inputs)
  BY DEF EnvInv
<1>1. CASE UNCHANGED inbox
  BY <1>0, <1>1
<1>2. CASE scion_close
  BY <1>2 DEF scion_close
<1>3. CASE Arrive
  BY <1>0, <1>3 DEF Arrive
<1>4. CASE scion_recv
  <2>1. FirstData \in 0 .. Len(inbox)
    <3>1. CASE \E i \in DOMAIN inbox : inbox[i] = "data"
      <4> DEFINE I == {i \in DOMAIN inbox : inbox[i] = "data"}
      <4>1. I \in SUBSET Nat /\ I # {} /\ \A i \in I : i <= Len(inbox)
        BY <1>0, <3>1
      <4>2. Min(I) \in I
        BY <4>1, MinNat
      <4>3. FirstData = Min(I)
        BY <3>1 DEF FirstData
      <4> HIDE DEF I
      <4>4. FirstData \in Nat /\ FirstData <= Len(inbox)
        BY <4>1, <4>2, <4>3
      <4>5. Len(inbox) \in Nat
        BY <1>0
      <4> HIDE DEF FirstData
      <4>6. QED BY <4>4, <4>5
    <3>2. CASE ~ \E i \in DOMAIN inbox : inbox[i] = "data"
      BY <1>0, <3>2 DEF FirstData
    <3>3. QED BY <3>1, <3>2
  <2>2. inbox' = SubSeq(inbox, FirstData + 1, Len(inbox))
    BY <1>4 DEF scion_recv
  <2>3. QED BY <1>0, <2>1, <2>2
<1>5. CASE scion_recv_stun_response
  <2>1. PICK i \in DOMAIN inbox : inbox' = SubSeq(inbox, i + 1, Len(inbox))
    BY <1>5 DEF scion_recv_stun_response
  <2>2. QED BY <1>0, <2>1
<1>6. CASE PollReceive
  BY <1>0, <1>6, TailType DEF PollReceive
<1>7. ASSUME NEW o \in Ops, NEW kind \in {"recv", "recv_stun"}, ReceiveAsync(o, kind)
      PROVE  inbox' \in Seq(Inputs)
  BY <1>0, <1>7, ReceiveStep DEF ReceiveAsync
<1>8. ASSUME NEW o \in Ops, Dispatch(o) PROVE inbox' \in Seq(Inputs)
  <2>1. UNCHANGED inbox \/ (op[o].kind \in {"recv", "recv_stun"} /\ StartReceive(o, op[o].kind))
    BY <1>8 DEF Dispatch, FinishOther, FinishError, FinishGone, FinishRecv, FinishRecvStun,
                Complete, Rearm
  <2>2. QED BY <1>0, <2>1, ReceiveStep
<1>9. QED BY <1>1, <1>2, <1>3, <1>4, <1>5, <1>6, <1>7, <1>8, Frames

LEMMA DeadStep ==
  ASSUME EnvInv, [Next]_vars
  PROVE  dead' \in BOOLEAN
<1>1. CASE UNCHANGED dead
  BY <1>1 DEF EnvInv
<1>2. CASE scion_query_paths
  BY <1>2 DEF scion_query_paths, EnvInv
<1>3. CASE scion_recv
  BY <1>3 DEF scion_recv
<1>4. ASSUME NEW o \in Ops, Dispatch(o) PROVE dead' \in BOOLEAN
  BY <1>4 DEF Dispatch, FinishOther, FinishError, FinishGone, FinishRecv, FinishRecvStun, EnvInv
<1>5. QED BY <1>1, <1>2, <1>3, <1>4, Frames

LEMMA EnvStep == EnvInv /\ OpInv /\ [Next]_vars => EnvInv'
BY CtxStep, SockStep, HdrStep, InboxStep, DeadStep DEF EnvInv, OpInv

-----------------------------------------------------------------------------
(***************************************************************************)
(* Operations.                                                             *)
(***************************************************************************)
LEMMA OpInit == Init => OpInv
<1> SUFFICES ASSUME Init PROVE OpInv
  OBVIOUS
<1>1. Unused \in Operation /\ Unused.st = "unused"
  BY DEF Unused, Operation, States, Results
<1>2. \A o \in Ops : op[o] = Unused /\ calls[o] = 0
  BY DEF Init
<1>3. OpTypes
  BY <1>1 DEF Init, OpTypes
<1>4. CountInv /\ QueueInv /\ GoneInv
  BY <1>1, <1>2 DEF Init, CountInv, QueueInv, GoneInv, InFlight
<1>5. QED BY <1>3, <1>4 DEF OpInv

LEMMA OpQuiet ==
  ASSUME OpInv, UNCHANGED <<op, calls, recvq>>, sock # None => sock' # None
  PROVE  OpInv'
BY DEF OpInv, OpTypes, CountInv, QueueInv, GoneInv, InFlight

\* An operation that nobody waits for in the queue starts, goes on or ends.
LEMMA OneOperation ==
  ASSUME OpInv, NEW o \in Ops, NEW n \in Nat,
         op' \in [Ops -> Operation], \A u \in Ops \ {o} : op'[u] = op[u],
         calls' = [calls EXCEPT ![o] = n], recvq' = recvq,
         op[o].st = "pending" => op[o].kind \notin {"recv", "recv_stun"},
         op'[o].st # "done" => n = 0,
         op'[o].st = "done" => n \in IF op'[o].kind = "stun" THEN {1, 2} ELSE {1},
         op'[o].st \in {"pending", "ready"} /\ op'[o].kind \in SocketKinds /\ ~op'[o].gone
           => sock' # None,
         sock # None => sock' # None
  PROVE  OpInv'
<1>1. /\ op \in [Ops -> Operation] /\ calls \in [Ops -> Nat] /\ recvq \in Seq(Ops)
  BY DEF OpInv, OpTypes
<1>2. /\ calls' \in [Ops -> Nat] /\ calls'[o] = n /\ \A u \in Ops \ {o} : calls'[u] = calls[u]
  BY <1>1
<1>3. OpTypes'
  BY <1>1, <1>2 DEF OpTypes
<1>4. CountInv'
  BY <1>2 DEF OpInv, CountInv
<1>5. QueueInv'
  <2>1. \A i \in 1 .. Len(recvq) : recvq[i] \in Ops /\ recvq[i] # o
    BY <1>1 DEF OpInv, QueueInv
  <2>2. QED BY <1>2, <2>1 DEF OpInv, QueueInv
<1>6. GoneInv'
  BY DEF OpInv, GoneInv, InFlight
<1>7. QED BY <1>3, <1>4, <1>5, <1>6 DEF OpInv

LEMMA NotCalled ==
  ASSUME OpInv, NEW o \in Ops, op[o].st # "done"
  PROVE  calls = [calls EXCEPT ![o] = 0]
BY DEF OpInv, OpTypes, CountInv

\* A receive operation starts, or its handler starts it again.
LEMMA ReceiveKeeps ==
  ASSUME OpInv, EnvInv, NEW o \in Ops, NEW kind \in {"recv", "recv_stun"}, StartReceive(o, kind),
         op[o].st \in {"unused", "ready"}, UNCHANGED calls, sock' # None
  PROVE  OpInv'
<1>1. PICK rec \in Operation :
        /\ op' = [op EXCEPT ![o] = rec] /\ rec.kind = kind /\ rec.gone = FALSE
        /\ \/ rec.st = "ready" /\ recvq' = recvq
           \/ rec.st = "pending" /\ recvq' = Append(recvq, o)
  BY ReceiveStep DEF OpInv, EnvInv
<1>2. CASE rec.st = "ready" /\ recvq' = recvq
  <2>1. op' \in [Ops -> Operation] /\ op'[o] = rec /\ \A u \in Ops \ {o} : op'[u] = op[u]
    BY <1>1 DEF OpInv, OpTypes
  <2>2. calls' = [calls EXCEPT ![o] = 0]
    BY NotCalled
  <2>3. QED BY <1>1, <1>2, <2>1, <2>2, OneOperation
<1>3. CASE rec.st = "pending" /\ recvq' = Append(recvq, o)
  <2>1. op \in [Ops -> Operation] /\ calls \in [Ops -> Nat] /\ recvq \in Seq(Ops)
    BY DEF OpInv, OpTypes
  <2>2. /\ op' \in [Ops -> Operation] /\ op'[o] = rec /\ \A u \in Ops \ {o} : op'[u] = op[u]
    BY <1>1, <2>1
  <2>3. /\ Len(recvq') = Len(recvq) + 1 /\ recvq' \in Seq(Ops) /\ Len(recvq) \in Nat
        /\ recvq'[Len(recvq) + 1] = o
        /\ \A i \in 1 .. Len(recvq) : recvq'[i] = recvq[i] /\ recvq[i] \in Ops
    BY <1>3, <2>1
  <2>4. \A i \in 1 .. Len(recvq) : recvq[i] # o
    BY DEF OpInv, QueueInv
  <2>5. QueueInv'
    <3>1. ASSUME NEW i \in 1 .. Len(recvq')
          PROVE  op'[recvq'[i]].st = "pending" /\ op'[recvq'[i]].kind \in {"recv", "recv_stun"}
      <4>1. CASE i \in 1 .. Len(recvq)
        BY <2>2, <2>3, <2>4, <4>1 DEF OpInv, QueueInv
      <4>2. CASE i = Len(recvq) + 1
        BY <1>1, <1>3, <2>2, <2>3, <4>2
      <4>3. QED BY <2>3, <4>1, <4>2
    <3>2. ASSUME NEW i \in 1 .. Len(recvq'), NEW j \in 1 .. Len(recvq'), recvq'[i] = recvq'[j]
          PROVE  i = j
      <4>1. CASE i \in 1 .. Len(recvq) /\ j \in 1 .. Len(recvq)
        BY <2>3, <3>2, <4>1 DEF OpInv, QueueInv
      <4>2. CASE i = Len(recvq) + 1 \/ j = Len(recvq) + 1
        BY <2>3, <2>4, <3>2, <4>2
      <4>3. QED BY <2>3, <4>1, <4>2
    <3>3. QED BY <3>1, <3>2 DEF QueueInv
  <2>6. CountInv' /\ GoneInv'
    BY <1>1, <1>3, <2>2 DEF OpInv, CountInv, GoneInv, InFlight
  <2>7. OpTypes'
    BY <2>1, <2>2, <2>3 DEF OpTypes
  <2>8. QED BY <2>5, <2>6, <2>7 DEF OpInv
<1>4. QED BY <1>1, <1>2, <1>3

\* Operations are cancelled or dropped; nobody is left in the queue, or only
\* others are cancelled.
LEMMA ManyOperations ==
  ASSUME OpInv, op' \in [Ops -> Operation], UNCHANGED calls,
         \A o \in Ops : (op'[o].st = "done" <=> op[o].st = "done") /\ op'[o].kind = op[o].kind,
         \A o \in Ops : op'[o].st \in {"pending", "ready"} =>
                          op[o].st \in {"pending", "ready"} /\ (op[o].gone => op'[o].gone),
         \/ sock # None => sock' # None
         \/ \A o \in Ops : op'[o].st \in {"pending", "ready"} /\ op'[o].kind \in SocketKinds
                             => op'[o].gone,
         \/ recvq' = << >>
         \/ /\ recvq' = recvq /\ sock' = sock
            /\ \A o \in Ops : op[o].kind \in {"recv", "recv_stun"} => op'[o] = op[o]
  PROVE  OpInv'
<1>1. OpTypes'
  <2>1. recvq' \in Seq(Ops)
    <3>1. recvq \in Seq(Ops) /\ << >> \in Seq(Ops)
      BY DEF OpInv, OpTypes
    <3>2. QED BY <3>1
  <2>2. QED BY <2>1 DEF OpInv, OpTypes
<1>2. CountInv'
  BY DEF OpInv, CountInv
<1>3. QueueInv'
  <2>1. CASE recvq' = << >>
    BY <2>1 DEF QueueInv
  <2>2. CASE /\ recvq' = recvq /\ sock' = sock
             /\ \A o \in Ops : op[o].kind \in {"recv", "recv_stun"} => op'[o] = op[o]
    <3>1. \A i \in 1 .. Len(recvq) : recvq[i] \in Ops
      BY DEF OpInv, OpTypes
    <3>2. QED BY <2>2, <3>1 DEF OpInv, QueueInv
  <2>3. QED BY <2>1, <2>2
<1>4. GoneInv'
  BY DEF OpInv, GoneInv, InFlight
<1>5. QED BY <1>1, <1>2, <1>3, <1>4 DEF OpInv

LEMMA AbortStep ==
  ASSUME OpTypes, NEW kinds
  PROVE  /\ Abort(kinds) \in [Ops -> Operation]
         /\ \A o \in Ops :
              /\ Abort(kinds)[o].kind = op[o].kind /\ Abort(kinds)[o].gone = op[o].gone
              /\ Abort(kinds)[o].payload = op[o].payload
              /\ \/ op[o].st = "pending" /\ Abort(kinds)[o].st = "ready" /\ op[o].kind \in kinds
                 \/ Abort(kinds)[o] = op[o] /\ (op[o].st = "pending" => op[o].kind \notin kinds)
<1>1. op \in [Ops -> Operation]
  BY DEF OpTypes
<1>2. \A o \in Ops :
        LET a == [op[o] EXCEPT !.st = "ready", !.result = "error"]
        IN /\ a \in Operation /\ a.kind = op[o].kind /\ a.gone = op[o].gone
           /\ a.payload = op[o].payload /\ a.st = "ready"
  <2>1. "ready" \in States /\ "error" \in Results
    BY DEF States, Results
  <2>2. QED BY <1>1, <2>1 DEF Operation
<1>3. \A o \in Ops :
        Abort(kinds)[o] = IF op[o].st = "pending" /\ op[o].kind \in kinds
                          THEN [op[o] EXCEPT !.st = "ready", !.result = "error"] ELSE op[o]
  BY DEF Abort
<1>4. \A o \in Ops : Abort(kinds)[o] \in Operation
  BY <1>1, <1>2, <1>3
<1>5. Abort(kinds) \in [Ops -> Operation]
  BY <1>4 DEF Abort
<1>6. QED BY <1>1, <1>2, <1>3, <1>5

LEMMA OpClose == ASSUME OpInv, scion_close PROVE OpInv'
<1> DEFINE marked(o) == [Abort(SocketKinds)[o] EXCEPT !.gone = TRUE]
<1>1. op \in [Ops -> Operation]
  BY DEF OpInv, OpTypes
<1>2. op' = [o \in Ops |-> IF InFlight(o) /\ op[o].kind \in SocketKinds THEN marked(o) ELSE op[o]]
      /\ recvq' = << >> /\ UNCHANGED calls
  BY DEF scion_close
<1>3. \A o \in Ops :
        /\ marked(o) \in Operation /\ marked(o).kind = op[o].kind /\ marked(o).gone = TRUE
        /\ marked(o).st = Abort(SocketKinds)[o].st
  <2> SUFFICES ASSUME NEW o \in Ops
               PROVE  /\ marked(o) \in Operation /\ marked(o).kind = op[o].kind
                      /\ marked(o).gone = TRUE /\ marked(o).st = Abort(SocketKinds)[o].st
    OBVIOUS
  <2> DEFINE a == Abort(SocketKinds)[o]
  <2>1. a \in Operation /\ a.kind = op[o].kind
    BY AbortStep DEF OpInv
  <2> HIDE DEF a
  <2>2. [a EXCEPT !.gone = TRUE] \in Operation
    BY <2>1 DEF Operation
  <2>3. [a EXCEPT !.gone = TRUE].kind = a.kind /\ [a EXCEPT !.gone = TRUE].st = a.st
    BY <2>1 DEF Operation
  <2>4. [a EXCEPT !.gone = TRUE].gone = TRUE
    BY <2>1 DEF Operation
  <2>5. marked(o) = [a EXCEPT !.gone = TRUE]
    BY DEF a
  <2>6. QED BY <2>1, <2>2, <2>3, <2>4, <2>5 DEF a
<1>4. \A o \in Ops : InFlight(o) =>
        op[o].kind \notin SocketKinds \/ Abort(SocketKinds)[o].st = "ready"
  BY AbortStep DEF OpInv, InFlight
<1> HIDE DEF marked
<1>5. \A o \in Ops :
        \/ /\ InFlight(o) /\ op[o].kind \in SocketKinds /\ op'[o] = marked(o)
        \/ /\ ~(InFlight(o) /\ op[o].kind \in SocketKinds) /\ op'[o] = op[o]
  BY <1>2
<1>6. op' \in [Ops -> Operation]
  BY <1>1, <1>2, <1>3
<1>7. \A o \in Ops : /\ op'[o].kind = op[o].kind
                     /\ op'[o].st = "done" <=> op[o].st = "done"
  BY <1>3, <1>4, <1>5 DEF InFlight
<1>8. \A o \in Ops : op'[o].st \in {"pending", "ready"} =>
                       op[o].st \in {"pending", "ready"} /\ (op[o].gone => op'[o].gone)
  BY <1>3, <1>5 DEF InFlight
<1>9. \A o \in Ops : op'[o].st \in {"pending", "ready"} /\ op'[o].kind \in SocketKinds => op'[o].gone
  BY <1>3, <1>5 DEF InFlight
<1>10. QED BY <1>2, <1>6, <1>7, <1>8, <1>9, ManyOperations

\* An operation becomes ready, another state is set.
LEMMA ReadyStep ==
  ASSUME OpTypes, NEW o \in Ops, NEW result \in Results,
         op' = [op EXCEPT ![o].st = "ready", ![o].result = result]
  PROVE  /\ op' \in [Ops -> Operation] /\ \A u \in Ops \ {o} : op'[u] = op[u]
         /\ op'[o].st = "ready" /\ op'[o].kind = op[o].kind /\ (op'[o].gone <=> op[o].gone)
<1>1. op \in [Ops -> Operation] /\ "ready" \in States
  BY DEF OpTypes, States
<1>2. op' \in [Ops -> Operation]
  BY <1>1 DEF Operation
<1>3. \A u \in Ops \ {o} : op'[u] = op[u]
  BY <1>1
<1>4. op'[o].st = "ready" /\ op'[o].kind = op[o].kind /\ op'[o].gone = op[o].gone
  BY <1>1 DEF Operation
<1>5. QED BY <1>2, <1>3, <1>4

LEMMA EndStep ==
  ASSUME OpTypes, NEW o \in Ops, NEW st \in {"done", "dropped"}, op' = [op EXCEPT ![o].st = st]
  PROVE  /\ op' \in [Ops -> Operation] /\ \A u \in Ops \ {o} : op'[u] = op[u]
         /\ op'[o].st = st /\ op'[o].kind = op[o].kind
<1>1. op \in [Ops -> Operation] /\ st \in States
  BY DEF OpTypes, States
<1>2. op' \in [Ops -> Operation]
  BY <1>1 DEF Operation
<1>3. \A u \in Ops \ {o} : op'[u] = op[u]
  BY <1>1
<1>4. op'[o].st = st /\ op'[o].kind = op[o].kind
  BY <1>1 DEF Operation
<1>5. QED BY <1>2, <1>3, <1>4

LEMMA OpCancel == ASSUME OpInv, scion_cancel \/ scion_timer_cancel PROVE OpInv'
<1>1. CASE scion_cancel
  <2>1. op' = Abort(SocketKinds) /\ recvq' = << >> /\ UNCHANGED <<calls, sock>>
    BY <1>1 DEF scion_cancel
  <2>2. QED BY <2>1, AbortStep, ManyOperations DEF OpInv
<1>2. CASE scion_timer_cancel
  <2>1. op' = Abort({"wait"}) /\ UNCHANGED <<calls, sock, recvq>>
    BY <1>2 DEF scion_timer_cancel
  <2>2. \A o \in Ops : op[o].kind \in {"recv", "recv_stun"} => op'[o] = op[o]
    BY <2>1, AbortStep DEF OpInv
  <2>3. QED BY <2>1, <2>2, AbortStep, ManyOperations DEF OpInv
<1>3. QED BY <1>1, <1>2

LEMMA OpDelete == ASSUME OpInv, scion_delete_host_context PROVE OpInv'
<1>1. op \in [Ops -> Operation]
  BY DEF OpInv, OpTypes
<1>2. /\ op' = [o \in Ops |-> IF InFlight(o) THEN [op[o] EXCEPT !.st = "dropped"] ELSE op[o]]
      /\ sock = None /\ UNCHANGED <<calls, sock, recvq>>
  BY DEF scion_delete_host_context
<1>3. recvq' = << >>
  BY <1>2 DEF OpInv, QueueInv
<1>4. \A o \in Ops : LET d == [op[o] EXCEPT !.st = "dropped"]
                     IN d \in Operation /\ d.kind = op[o].kind /\ d.st = "dropped"
  <2>1. "dropped" \in States
    BY DEF States
  <2>2. QED BY <1>1, <2>1 DEF Operation
<1>5. \A o \in Ops : \/ InFlight(o) /\ op'[o] = [op[o] EXCEPT !.st = "dropped"]
                     \/ ~InFlight(o) /\ op'[o] = op[o]
  BY <1>2
<1>6. op' \in [Ops -> Operation]
  BY <1>1, <1>2, <1>4
<1>7. \A o \in Ops : /\ op'[o].kind = op[o].kind
                     /\ op'[o].st = "done" <=> op[o].st = "done"
  BY <1>4, <1>5 DEF InFlight
<1>8. \A o \in Ops : op'[o].st \in {"pending", "ready"} =>
                       op[o].st \in {"pending", "ready"} /\ (op[o].gone => op'[o].gone)
  BY <1>4, <1>5 DEF InFlight
<1>9. QED BY <1>2, <1>3, <1>6, <1>7, <1>8, ManyOperations

\* The first operation that waits gets the first packet.
LEMMA OpPollReceive == ASSUME OpInv, EnvInv, PollReceive PROVE OpInv'
<1>0. PICK o \in Ops : o = recvq[1]
  BY TailType DEF OpInv, OpTypes, PollReceive
<1>1. /\ op \in [Ops -> Operation] /\ calls \in [Ops -> Nat] /\ recvq \in Seq(Ops)
      /\ recvq # << >> /\ Head(recvq) = o /\ o \in Ops
      /\ Len(recvq') = Len(recvq) - 1 /\ recvq' \in Seq(Ops) /\ Len(recvq) \in Nat
      /\ \A i \in 1 .. Len(recvq) - 1 : recvq'[i] = recvq[i + 1]
  BY <1>0, TailType DEF OpInv, OpTypes, PollReceive
<1>2. op[o].st = "pending" /\ op[o].kind \in {"recv", "recv_stun"}
  BY <1>0, <1>1 DEF OpInv, QueueInv
<1>3. PICK result \in Results :
        op' = [op EXCEPT ![o].st = "ready", ![o].result = result] /\ UNCHANGED <<calls, sock>>
  <2>1. Head(inbox) \in Results
    BY TailType DEF EnvInv, PollReceive, Results
  <2>2. QED BY <1>1, <2>1 DEF PollReceive
<1>4. OpTypes
  BY DEF OpInv
<1>5. /\ op' \in [Ops -> Operation] /\ \A u \in Ops \ {o} : op'[u] = op[u]
      /\ op'[o].st = "ready" /\ op'[o].kind = op[o].kind /\ (op'[o].gone <=> op[o].gone)
  BY <1>3, <1>4, ReadyStep
<1>6. QueueInv'
  <2>1. \A i \in 1 .. Len(recvq') : /\ recvq'[i] = recvq[i + 1] /\ recvq[i + 1] \in Ops
                                    /\ i + 1 \in 1 .. Len(recvq)
    BY <1>1
  <2>2. \A i \in 1 .. Len(recvq') : recvq'[i] # o
    BY <1>0, <1>1, <2>1 DEF OpInv, QueueInv
  <2>3. \A i \in 1 .. Len(recvq') :
          op'[recvq'[i]].st = "pending" /\ op'[recvq'[i]].kind \in {"recv", "recv_stun"}
    <3> SUFFICES ASSUME NEW i \in 1 .. Len(recvq')
                 PROVE  op'[recvq'[i]].st = "pending" /\ op'[recvq'[i]].kind \in {"recv", "recv_stun"}
      OBVIOUS
    <3>1. op'[recvq'[i]] = op[recvq[i + 1]]
      BY <1>5, <2>1, <2>2
    <3>2. QED BY <2>1, <3>1 DEF OpInv, QueueInv
  <2>4. \A i, j \in 1 .. Len(recvq') : recvq'[i] = recvq'[j] => i = j
    BY <2>1 DEF OpInv, QueueInv
  <2>5. sock' # None
    BY <1>1, <1>3 DEF OpInv, QueueInv
  <2>6. QED BY <2>3, <2>4, <2>5 DEF QueueInv
<1>7. CountInv' /\ GoneInv'
  BY <1>2, <1>3, <1>5 DEF OpInv, CountInv, GoneInv, InFlight
<1>8. OpTypes'
  BY <1>1, <1>3, <1>5 DEF OpTypes
<1>9. QED BY <1>6, <1>7, <1>8 DEF OpInv

LEMMA StartStep ==
  ASSUME OpTypes, NEW o \in Ops, NEW kind \in Kinds, NEW st \in {"pending", "ready", "done"},
         NEW result \in {"ok", "error", "none"}, NEW payload \in Payloads \cup {None},
         op' = Start(o, kind, st, result, payload)
  PROVE  /\ op' \in [Ops -> Operation] /\ \A u \in Ops \ {o} : op'[u] = op[u]
         /\ op'[o].st = st /\ op'[o].kind = kind /\ op'[o].payload = payload
<1> DEFINE rec == [kind |-> kind, st |-> st, result |-> result, gone |-> FALSE, payload |-> payload]
<1>1. op' = [op EXCEPT ![o] = rec]
  BY DEF Start
<1>2. rec \in Operation /\ rec.st = st /\ rec.kind = kind /\ rec.payload = payload
  BY DEF Operation, States, Results
<1> HIDE DEF rec
<1>3. op \in [Ops -> Operation]
  BY DEF OpTypes
<1>4. QED BY <1>1, <1>2, <1>3

\* An operation that does not wait for packets starts, or fails at once.
LEMMA StartKeeps ==
  ASSUME OpInv, NEW o \in Ops, NEW kind \in Kinds, NEW st \in {"pending", "ready", "done"},
         NEW result \in {"ok", "error", "none"}, NEW payload \in Payloads \cup {None},
         op[o].st = "unused", op' = Start(o, kind, st, result, payload), recvq' = recvq,
         \/ st # "done" /\ calls' = calls
         \/ st = "done" /\ calls' = [calls EXCEPT ![o] = 1],
         kind \in SocketKinds => sock' # None, sock # None => sock' # None
  PROVE  OpInv'
<1>1. /\ op' \in [Ops -> Operation] /\ \A u \in Ops \ {o} : op'[u] = op[u]
      /\ op'[o].st = st /\ op'[o].kind = kind
  BY StartStep DEF OpInv
<1>2. CASE st # "done" /\ calls' = calls
  <2>1. calls' = [calls EXCEPT ![o] = 0]
    BY <1>2, NotCalled
  <2>2. QED BY <1>1, <1>2, <2>1, OneOperation, ZenonT(40)
<1>3. CASE st = "done" /\ calls' = [calls EXCEPT ![o] = 1]
  BY <1>1, <1>3, OneOperation
<1>4. QED BY <1>2, <1>3

LEMMA OpStart ==
  ASSUME OpInv, EnvInv, NEW o \in Ops,
         \/ \E cached \in BOOLEAN : SendAsync(o, cached)
         \/ InvalidArgument(o) \/ scion_request_stun_mapping_async(o)
         \/ scion_resolve_name_async(o) \/ scion_timer_wait_async(o),
         sock # None => sock' # None
  PROVE  OpInv'
<1>0. {"send", "stun", "recv", "resolve", "wait"} \subseteq Kinds
      /\ "resolve" \notin SocketKinds /\ "wait" \notin SocketKinds
  BY DEF Kinds, SocketKinds
<1>1. ASSUME NEW cached \in BOOLEAN, SendAsync(o, cached) PROVE OpInv'
  <2>1. /\ op[o].st = "unused" /\ calls' = calls /\ recvq' = recvq /\ sock' # None
    BY <1>1 DEF SendAsync, HasSocket
  <2>2. \E st \in {"ready", "pending"}, result \in {"ok", "error", "none"},
           payload \in Payloads \cup {None} : op' = Start(o, "send", st, result, payload)
    BY <1>1 DEF SendAsync
  <2>3. QED BY <1>0, <2>1, <2>2, StartKeeps
<1>2. CASE InvalidArgument(o)
  <2>1. PICK kind \in {"send", "stun", "recv"} : op' = Start(o, kind, "done", "error", None)
    BY <1>2 DEF InvalidArgument
  <2>2. op[o].st = "unused" /\ calls' = [calls EXCEPT ![o] = 1] /\ recvq' = recvq /\ sock' # None
    BY <1>2 DEF InvalidArgument, HasSocket
  <2>3. QED BY <1>0, <2>1, <2>2, StartKeeps
<1>3. CASE scion_request_stun_mapping_async(o)
  <2>1. op[o].st = "unused" /\ calls' = calls /\ recvq' = recvq /\ sock # None
    BY <1>3 DEF scion_request_stun_mapping_async, HasSocket
  <2>2. \E st \in {"ready", "pending"}, result \in {"ok", "error", "none"} :
          op' = Start(o, "stun", st, result, None)
    BY <1>3 DEF scion_request_stun_mapping_async
  <2>3. QED BY <1>0, <2>1, <2>2, StartKeeps
<1>4. CASE scion_resolve_name_async(o)
  <2>1. op[o].st = "unused" /\ recvq' = recvq
    BY <1>4 DEF scion_resolve_name_async
  <2>2. \/ op' = Start(o, "resolve", "done", "error", None) /\ calls' = [calls EXCEPT ![o] = 1]
        \/ op' = Start(o, "resolve", "pending", "none", None) /\ calls' = calls
    BY <1>4 DEF scion_resolve_name_async
  <2>3. QED BY <1>0, <2>1, <2>2, StartKeeps
<1>5. CASE scion_timer_wait_async(o)
  <2>1. op[o].st = "unused" /\ recvq' = recvq /\ calls' = calls
        /\ op' = Start(o, "wait", "pending", "none", None)
    BY <1>5 DEF scion_timer_wait_async
  <2>2. QED BY <1>0, <2>1, StartKeeps
<1>6. QED BY <1>1, <1>2, <1>3, <1>4, <1>5

LEMMA OpPollOther == ASSUME OpInv, NEW o \in Ops, PollOther(o) PROVE OpInv'
<1>1. PICK result \in {"ok", "error"} : op' = [op EXCEPT ![o].st = "ready", ![o].result = result]
  BY DEF PollOther
<1>2. op[o].st = "pending" /\ op[o].kind \notin {"recv", "recv_stun"}
      /\ UNCHANGED <<calls, recvq, sock>>
  BY DEF PollOther
<1>3. result \in Results /\ OpTypes
  BY DEF Results, OpInv
<1>4. /\ op' \in [Ops -> Operation] /\ \A u \in Ops \ {o} : op'[u] = op[u]
      /\ op'[o].st = "ready" /\ op'[o].kind = op[o].kind /\ (op'[o].gone <=> op[o].gone)
  BY <1>1, <1>3, ReadyStep
<1>5. calls' = [calls EXCEPT ![o] = 0]
  BY <1>2, NotCalled
<1>6. op[o].kind \in SocketKinds /\ ~op[o].gone => sock # None
  BY <1>2 DEF OpInv, GoneInv, InFlight
<1>7. QED BY <1>2, <1>4, <1>5, <1>6, OneOperation

\* The event loop calls a handler.
LEMMA OpDispatch ==
  ASSUME OpInv, EnvInv, NEW o \in Ops, Dispatch(o), sock # None => sock' # None
  PROVE  OpInv'
<1>0. op[o].st = "ready" /\ OpTypes /\ calls \in [Ops -> Nat] /\ calls[o] = 0
  BY DEF Dispatch, OpInv, OpTypes, CountInv
<1>1. ASSUME NEW n \in {1, 2}, Complete(o, n), n = 2 => op[o].kind = "stun"
      PROVE  OpInv'
  <2>1. op' = [op EXCEPT ![o].st = "done"] /\ recvq' = recvq
    BY <1>1 DEF Complete
  <2>2. calls' = [calls EXCEPT ![o] = n]
    <3>1. calls' = [calls EXCEPT ![o] = calls[o] + n]
      BY <1>1 DEF Complete
    <3>2. calls[o] + n = n
      BY <1>0
    <3>3. QED BY <3>1, <3>2
  <2>3. /\ op' \in [Ops -> Operation] /\ \A u \in Ops \ {o} : op'[u] = op[u]
        /\ op'[o].st = "done" /\ op'[o].kind = op[o].kind
    BY <1>0, <2>1, EndStep
  <2>4. n \in Nat /\ n \in IF op'[o].kind = "stun" THEN {1, 2} ELSE {1}
    BY <1>1, <2>3
  <2>5. QED BY <1>0, <2>1, <2>2, <2>3, <2>4, OneOperation
<1>2. CASE FinishOther(o)
  BY <1>1, <1>2 DEF FinishOther
<1>3. CASE FinishError(o)
  BY <1>1, <1>3 DEF FinishError
<1>4. CASE FinishGone(o)
  <2>1. op' = [op EXCEPT ![o].st = "dropped"] /\ recvq' = recvq /\ calls' = calls
    BY <1>4 DEF FinishGone
  <2>2. /\ op' \in [Ops -> Operation] /\ \A u \in Ops \ {o} : op'[u] = op[u]
        /\ op'[o].st = "dropped"
    BY <1>0, <2>1, EndStep
  <2>3. calls' = [calls EXCEPT ![o] = 0]
    BY <1>0, <2>1, NotCalled
  <2>4. QED BY <1>0, <2>1, <2>2, <2>3, OneOperation
<1>5. ASSUME op[o].kind \in {"recv", "recv_stun"}, ~op[o].gone, Rearm(o) PROVE OpInv'
  <2>1. sock # None
    BY <1>0, <1>5 DEF OpInv, GoneInv, InFlight, SocketKinds
  <2>2. StartReceive(o, op[o].kind) /\ UNCHANGED calls
    BY <1>5 DEF Rearm
  <2>3. QED BY <1>0, <1>5, <2>1, <2>2, ReceiveKeeps
<1>6. CASE FinishRecv(o)
  BY <1>1, <1>5, <1>6 DEF FinishRecv
<1>7. CASE FinishRecvStun(o)
  BY <1>1, <1>5, <1>7 DEF FinishRecvStun
<1>8. QED BY <1>2, <1>3, <1>4, <1>6, <1>7 DEF Dispatch

LEMMA OpStep == EnvInv /\ OpInv /\ [Next]_vars => OpInv'
<1> SUFFICES ASSUME EnvInv, OpInv, [Next]_vars PROVE OpInv'
  OBVIOUS
<1>0. sock # None => scion_close \/ sock' # None
  BY SockStep DEF EnvInv, OpInv
<1>1. CASE scion_close
  BY <1>1, OpClose
<1>2. CASE ~scion_close
  <2>1. sock # None => sock' # None
    BY <1>0, <1>2
  <2>2. CASE UNCHANGED <<op, calls, recvq>>
    BY <2>1, <2>2, OpQuiet
  <2>3. CASE scion_delete_host_context
    BY <2>3, OpDelete
  <2>4. CASE scion_cancel \/ scion_timer_cancel
    BY <2>4, OpCancel
  <2>5. CASE PollReceive
    BY <2>5, OpPollReceive
  <2>6. ASSUME NEW o \in Ops,
               \/ \E cached \in BOOLEAN : SendAsync(o, cached)
               \/ InvalidArgument(o) \/ scion_request_stun_mapping_async(o)
               \/ scion_resolve_name_async(o) \/ scion_timer_wait_async(o)
        PROVE  OpInv'
    BY <2>1, <2>6, OpStart
  <2>7. ASSUME NEW o \in Ops, NEW kind \in {"recv", "recv_stun"}, ReceiveAsync(o, kind)
        PROVE  OpInv'
    BY <2>1, <2>7, ReceiveKeeps DEF ReceiveAsync, HasSocket
  <2>8. ASSUME NEW o \in Ops, PollOther(o) PROVE OpInv'
    BY <2>8, OpPollOther
  <2>9. ASSUME NEW o \in Ops, Dispatch(o) PROVE OpInv'
    BY <2>1, <2>9, OpDispatch
  <2>10. QED BY <1>2, <2>2, <2>3, <2>4, <2>5, <2>6, <2>7, <2>8, <2>9, Frames
<1>3. QED BY <1>1, <1>2

-----------------------------------------------------------------------------
(***************************************************************************)
(* Packets.                                                                *)
(***************************************************************************)
\* A send that waits has waited before, unless this step starts it.
LEMMA WaitingSends ==
  ASSUME EnvInv, OpInv, [Next]_vars, NEW o \in Ops,
         op'[o].kind = "send", op'[o].st = "pending",
         ~ \E cached \in BOOLEAN : SendAsync(o, cached)
  PROVE  op'[o] = op[o]
<1>0. OpTypes /\ op \in [Ops -> Operation] /\ recvq \in Seq(Ops)
  BY DEF OpInv, OpTypes
<1>1. CASE UNCHANGED <<op, calls, recvq>>
  BY <1>1
<1>2. CASE scion_delete_host_context
  <2>1. op'[o] = IF InFlight(o) THEN [op[o] EXCEPT !.st = "dropped"] ELSE op[o]
    BY <1>2 DEF scion_delete_host_context
  <2>2. [op[o] EXCEPT !.st = "dropped"].st = "dropped"
    BY <1>0 DEF Operation
  <2>3. QED BY <2>1, <2>2
<1>3. CASE scion_close
  <2>1. op'[o] = IF InFlight(o) /\ op[o].kind \in SocketKinds
                 THEN [Abort(SocketKinds)[o] EXCEPT !.gone = TRUE] ELSE op[o]
    BY <1>3 DEF scion_close
  <2>2. Abort(SocketKinds)[o] \in Operation
        /\ (InFlight(o) /\ op[o].kind \in SocketKinds => Abort(SocketKinds)[o].st = "ready")
    BY <1>0, AbortStep DEF InFlight
  <2>3. [Abort(SocketKinds)[o] EXCEPT !.gone = TRUE].st = Abort(SocketKinds)[o].st
    BY <2>2 DEF Operation
  <2>4. QED BY <2>1, <2>2, <2>3
<1>4. CASE scion_cancel \/ scion_timer_cancel
  <2>1. op' = Abort(SocketKinds) \/ op' = Abort({"wait"})
    BY <1>4 DEF scion_cancel, scion_timer_cancel
  <2>2. QED BY <1>0, <2>1, AbortStep
<1>5. CASE PollReceive
  <2>1. recvq # << >> /\ inbox # << >> /\ Head(inbox) \in Results
    BY <1>5, TailType DEF PollReceive, EnvInv, Results
  <2>2. PICK u \in Ops : u = Head(recvq)
    BY <1>0, <2>1, TailType
  <2>3. PICK result \in Results : op' = [op EXCEPT ![u].st = "ready", ![u].result = result]
    BY <1>5, <2>1, <2>2 DEF PollReceive
  <2>4. QED BY <1>0, <2>3, ReadyStep
<1>6. ASSUME NEW u \in Ops, NEW cached \in BOOLEAN, SendAsync(u, cached) PROVE op'[o] = op[o]
  BY <1>0, <1>6 DEF SendAsync, Start
<1>7. ASSUME NEW u \in Ops, NEW kind \in {"recv", "recv_stun"}, StartReceive(u, kind)
      PROVE  op'[o] = op[o]
  <2>1. PICK rec \in Operation :
          /\ op' = [op EXCEPT ![u] = rec] /\ rec.kind = kind /\ rec.gone = FALSE
          /\ \/ rec.st = "ready" /\ recvq' = recvq
             \/ rec.st = "pending" /\ recvq' = Append(recvq, u)
    BY <1>0, <1>7, ReceiveStep DEF EnvInv
  <2>2. op'[o] = IF o = u THEN rec ELSE op[o]
    BY <1>0, <2>1
  <2>3. op'[o].kind # kind
    BY <1>7
  <2>4. QED BY <2>1, <2>2, <2>3
<1>8. ASSUME NEW u \in Ops, NEW kind \in {"recv", "recv_stun"}, ReceiveAsync(u, kind)
      PROVE  op'[o] = op[o]
  BY <1>7, <1>8 DEF ReceiveAsync
<1>9. ASSUME NEW u \in Ops, InvalidArgument(u) \/ scion_request_stun_mapping_async(u)
             \/ scion_resolve_name_async(u) \/ scion_timer_wait_async(u)
      PROVE  op'[o] = op[o]
  <2>1. \E kind \in Kinds, st \in {"pending", "ready", "done"}, result \in {"ok", "error", "none"} :
          op' = Start(u, kind, st, result, None) /\ (kind = "send" => st = "done")
    BY <1>9 DEF InvalidArgument, scion_request_stun_mapping_async, scion_resolve_name_async,
                scion_timer_wait_async, Kinds
  <2>2. QED BY <1>0, <2>1, StartStep
<1>10. ASSUME NEW u \in Ops, PollOther(u) PROVE op'[o] = op[o]
  <2>1. PICK result \in {"ok", "error"} : op' = [op EXCEPT ![u].st = "ready", ![u].result = result]
    BY <1>10 DEF PollOther
  <2>2. result \in Results
    BY DEF Results
  <2>3. QED BY <1>0, <2>1, <2>2, ReadyStep
<1>11. ASSUME NEW u \in Ops, Dispatch(u) PROVE op'[o] = op[o]
  <2>1. \/ \E st \in {"done", "dropped"} : op' = [op EXCEPT ![u].st = st]
        \/ op[u].kind \in {"recv", "recv_stun"} /\ StartReceive(u, op[u].kind)
    BY <1>11 DEF Dispatch, FinishOther, FinishError, FinishGone, FinishRecv, FinishRecvStun,
                 Complete, Rearm
  <2>2. CASE \E st \in {"done", "dropped"} : op' = [op EXCEPT ![u].st = st]
    BY <1>0, <2>2, EndStep
  <2>3. QED BY <1>7, <2>1, <2>2
<1>12. QED BY <1>1, <1>2, <1>3, <1>4, <1>5, <1>6, <1>8, <1>9, <1>10, <1>11, Frames

LEMMA SendStep == EnvInv /\ OpInv /\ SendInv /\ [Next]_vars => SendInv'
<1> SUFFICES ASSUME EnvInv, OpInv, SendInv, [Next]_vars,
                    NEW o \in Ops, op'[o].kind = "send", op'[o].st = "pending"
             PROVE  hdr' # None /\ ValidPacket(Packet(hdr', op'[o].payload))
  BY DEF SendInv
<1>1. CASE \E cached \in BOOLEAN : SendAsync(o, cached)
  <2>1. PICK cached \in BOOLEAN : SendAsync(o, cached)
    BY <1>1
  <2>2. PICK payload \in Payloads : \E h \in Headers(cached, payload) :
          \/ \E result \in {"ok", "error"} : op' = Start(o, "send", "ready", result, None)
          \/ h.err = "Ok" /\ hdr' = h.hdr /\ op' = Start(o, "send", "pending", "none", payload)
    BY <2>1 DEF SendAsync
  <2> PICK h \in Headers(cached, payload) :
          \/ \E result \in {"ok", "error"} : op' = Start(o, "send", "ready", result, None)
          \/ h.err = "Ok" /\ hdr' = h.hdr /\ op' = Start(o, "send", "pending", "none", payload)
    BY <2>2
  <2>3. op \in [Ops -> Operation] /\ HasSocket /\ hdr # None
    BY <2>1 DEF OpInv, OpTypes, SendAsync
  <2>4. h.err = "Ok" /\ hdr' = h.hdr /\ op'[o].payload = payload
    BY <2>2, <2>3 DEF Start
  <2>5. QED BY <2>3, <2>4, HeadersValid
<1>2. CASE ~ \E cached \in BOOLEAN : SendAsync(o, cached)
  <2>1. op'[o] = op[o]
    BY <1>2, WaitingSends
  <2>2. hdr # None /\ ValidPacket(Packet(hdr, op[o].payload)) /\ ~HdrIdle
    BY <2>1 DEF SendInv, HdrIdle, InFlight
  <2>3. UNCHANGED hdr
    BY <2>2, Frames DEF scion_hdr_cache_allocate, scion_hdr_cache_free, SendSync, SendAsync
  <2>4. QED BY <2>1, <2>2, <2>3
<1>3. QED BY <1>1, <1>2

LEMMA WireStep == EnvInv /\ OpInv /\ SendInv /\ PacketValid /\ [Next]_vars => PacketValid'
<1> SUFFICES ASSUME EnvInv, OpInv, SendInv, PacketValid, [Next]_vars, wire' # None
             PROVE  ValidPacket(wire')
  BY DEF PacketValid
<1>1. CASE wire' \in {wire, None}
  BY <1>1 DEF PacketValid
<1>2. ASSUME NEW cached \in BOOLEAN, SendSync(cached) \/ \E o \in Ops : SendAsync(o, cached)
      PROVE  ValidPacket(wire')
  <2>1. HasSocket /\ hdr # None
    BY <1>2 DEF SendSync, SendAsync
  <2>2. PICK payload \in Payloads : \E h \in Headers(cached, payload) :
          h.err = "Ok" /\ wire' = Packet(h.hdr, payload)
    BY <1>2 DEF SendSync, SendAsync
  <2> PICK h \in Headers(cached, payload) : h.err = "Ok" /\ wire' = Packet(h.hdr, payload)
    BY <2>2
  <2>3. QED BY <2>1, <2>2, HeadersValid
<1>3. ASSUME NEW o \in Ops, PollOther(o) PROVE ValidPacket(wire')
  BY <1>3 DEF PollOther, SendInv
<1>4. QED BY <1>1, <1>2, <1>3, Frames

-----------------------------------------------------------------------------
(***************************************************************************)
(* Theorems                                                                *)
(***************************************************************************)

\* The inductive invariant: types, the queue of waiting operations, the
\* operations that outlive their socket, the headers that sends refer to and
\* the references to paths.
THEOREM Invariance == Spec => []IInv
<1>1. Init => IInv
  <2>1. Init => EnvInv
    <3>1. << >> \in Seq(Inputs)
      OBVIOUS
    <3>2. QED BY <3>1 DEF Init, EnvInv
  <2>2. Init => SendInv /\ PacketValid
    BY DEF Init, SendInv, PacketValid, Unused
  <2>3. QED BY <2>1, <2>2, OpInit, MemInit DEF IInv
<1>2. IInv /\ [Next]_vars => IInv'
  BY EnvStep, OpStep, SendStep, WireStep, MemStep DEF IInv
<1>3. QED BY <1>1, <1>2, PTL DEF Spec

\* Types are preserved by every function and every step of the event loop.
THEOREM TypeCorrect == Spec => []TypeOK
<1>1. ASSUME IInv PROVE TypeOK
  <2>1. \A o \in Ops : calls[o] \in 0 .. 2
    BY <1>1 DEF IInv, OpInv, CountInv
  <2>2. calls \in [Ops -> 0 .. 2]
    BY <1>1, <2>1 DEF IInv, OpInv, OpTypes
  <2>3. \A o \in Ops : op[o].st \in States /\ op[o].result \in Results
                       /\ op[o].kind \in Kinds \cup {"none"}
    BY <1>1 DEF IInv, OpInv, OpTypes, Operation
  <2>4. QED BY <1>1, <2>2, <2>3 DEF IInv, EnvInv, Context, TypeOK
<1>2. QED BY <1>1, Invariance, PTL

\* Every packet the C interface sends, built from scratch or with cached
\* headers, at once or by the event loop, is one a receiver accepts.
THEOREM PacketsValid == Spec => []PacketValid
<1>1. IInv => PacketValid
  BY DEF IInv
<1>2. QED BY <1>1, Invariance, PTL

\* The reference count of a path is the number of references to it, whatever
\* the cache, the application and the deletion of the context do to it.
THEOREM PathsCounted == Spec => []PathsHeldAlive
<1>1. IInv => PathsHeldAlive
  BY DEF IInv, MemInv
<1>2. QED BY <1>1, Invariance, PTL

\* The handler of an operation to send, to receive or to wait for a timer is called
\* once, when it has finished: closing, cancelling and receiving again do not call
\* it early or again.  Not so for a STUN request: when it fails, its handler is
\* called a second time, which CompletedOnce leaves out.
THEOREM HandlersCalledOnce == Spec => []CompletedOnce
<1>1. IInv => CompletedOnce
  BY DEF IInv, OpInv, CountInv, CompletedOnce
<1>2. QED BY <1>1, Invariance, PTL
=============================================================================
