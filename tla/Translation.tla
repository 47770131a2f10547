---------------------------- MODULE Translation ----------------------------
(***************************************************************************)
(* Packets for the translator, and what should become of them.  A host     *)
(* sends an IPv6 packet to a SCION-mapped address; Scitra-TUN on its side  *)
(* translates it to SCION, Scitra-TUN on the other side back to IPv6.  The *)
(* sender may be behind a NAT.                                             *)
(***************************************************************************)
EXTENDS Codec, Translator

SCION_HEADROOM == 1024 \* TunQueue::recvPacket
IP_HEADROOM    == 4    \* Socket::recvPacket

-----------------------------------------------------------------------------
(* Hosts and packets *)

IPv4Host(p) == ScIPAddress(IA(p), Pat(32, 2))

(* A host with an IPv6 address that is its own mapping *)
IPv6Host ==
  LET ia == IA(2)
  IN  ScIPAddress(ia, SCION_IP_PREFIX \o SubSeq(ia, 5, 16) \o Bin(14, 4) \o SubSeq(ia, 33, 64)
                      \o Bin(7, 8) \o Pat(64, 2))

(* Addresses that are not mapped, and of a reserved format *)
Unmapped == {Bin(32, 8) \o Pat(120, 2), SCION_IP_PREFIX \o Zeros(12) \o Bin(9, 4) \o Pat(104, 2)}

ScionPath(src, dst) ==
  [type |-> 1, src |-> src.ia, dst |-> dst.ia, encoded |-> Pat(8 * 36, 2),
   nextHop |-> [host |-> Pat(32, 2), port |-> 31002]]

EmptyPath(src, dst) ==
  [type |-> PathTypeEmpty, src |-> src.ia, dst |-> dst.ia, encoded |-> <<>>,
   nextHop |-> [host |-> Zeros(32), port |-> 0]]

(* The header of layer 4 as written, its checksum field zero *)
L4Bits(kind, h) == Written(kind, IF "chksum" \in DOMAIN h THEN [h EXCEPT !.chksum = 0] ELSE h).data

(* The place of the checksum in the header, in bits *)
ChksumAt(kind) == CASE kind = "TCP" -> 128 [] kind = "UDP" -> 48 [] kind \in {"ICMPv6", "SCMP"} -> 16

WithChksum(kind, b, chksum) ==
  SubSeq(b, 1, ChksumAt(kind)) \o Bin(chksum, 16) \o SubSeq(b, ChksumAt(kind) + 17, Len(b))

ProtoOf(kind) ==
  CASE kind = "TCP" -> ProtoTCP [] kind = "UDP" -> ProtoUDP [] kind = "ICMPv6" -> ProtoICMP

(* Whether a checksum is right: the one's complement sum is "minus zero" *)
ChecksumRight(pseudo, b) == OnesComplement(Plus(pseudo, WordSum(b))) = 65535

(* An IPv6 packet with a right checksum *)
IPv6Packet(src, dst, tc, kind, h, data) ==
  LET l4  == L4Bits(kind, h) \o data
      ip  == [tc |-> tc, fl |-> 12345, plen |-> Len(l4) \div 8, nh |-> ProtoOf(kind), hlim |-> 64,
              src |-> src, dst |-> dst]
      sum == OnesComplement(Plus(IPv6_checksum(ip, ip.plen), WordSum(l4)))
  IN  Written("IPv6", ip).data \o WithChksum(kind, l4, 65535 - sum)

(* A packet as Scitra-TUN reads it from the TUN interface or a socket *)
Received(b, headroom, noUnderlay, scionEps) ==
  LET pkt == clearAndGetBuffer(PacketBuffer(Ones(8 * headroom) \o b), headroom)
  IN  parsePacket(pkt, Len(b) \div 8, noUnderlay, scionEps)

(* TCP headers that are written in full *)
TcpWhole == {h \in TcpSamples : ~PaddingShort("TCP", h)}

L4Samples ==
  {[kind |-> "TCP", h |-> h] : h \in TcpWhole}
  \cup {[kind |-> "UDP", h |-> [sport |-> s, dport |-> 53, len |-> 8, chksum |-> 0]] :
        s \in {0, 40000}}
  \cup {[kind |-> "ICMPv6",
         h |-> [type |-> t, code |-> IF t = 1 THEN 4 ELSE 0, chksum |-> 0, param1 |-> p,
                param2 |-> q]] :
        t \in {1, 2, 3, 128, 129, 133}, p \in {0, 4711}, q \in {1, 47, 48, 1400}}

-----------------------------------------------------------------------------
(* The way of a packet *)

(* The buffer still has the SCMP header of the last packet, of which the   *)
(* checksum counts.                                                        *)
Egress(c) ==
  LET b   == IPv6Packet(mapToIPv6(c.src), c.to, 184, c.l4.kind, c.l4.h, c.data)
      pkt == [Received(b, SCION_HEADROOM, FALSE, {}).pkt EXCEPT !.scmp.chksum = c.stale]
  IN  [raw |-> b, res |-> translateEgress(pkt, c.src.host, REPLACE_ADDRESS, c.found)]

Wire(pkt, nat) == emitPacket(egressNat(pkt, nat), TRUE)

Ingress(wire, dst, mtu) ==
  LET p  == Received(Raw(wire.pkt), IP_HEADROOM, TRUE, {})
      ip == mapToIPv6(dst)
  IN  [ok |-> p.ok, pkt |-> p.pkt, res |-> translateIngress(p.pkt, ip, ip, 128, mtu)]

-----------------------------------------------------------------------------
(* What should become of it *)

SrcAddr(c) == IF c.nat = NotMapped THEN c.src ELSE ScIPAddress(c.src.ia, c.nat.host)

SrcPort(c, port) == IF c.nat = NotMapped THEN port ELSE c.nat.port

ScionHdrSize(c) ==
  28 + IPAddress_size(c.src.host) + IPAddress_size(c.dst.host) + pathSize(c.found.path)

(* ICMP messages that have an SCMP counterpart *)
Translatable(l4) ==
  l4.kind = "ICMPv6" =>
    \/ l4.h.type \in {1, 128, 129}
    \/ l4.h.type = 2 /\ l4.h.param1 = 0 /\ l4.h.param2 >= 48

L4Length(c) == HeaderSize(c.l4.kind, c.l4.h) + Len(c.data) \div 8

Fits(c) == ScionHdrSize(c) + L4Length(c) <= c.found.mtu

(* The largest IPv6 packet that fits *)
EffectiveMtu(c) == c.found.mtu + 40 - ScionHdrSize(c)

(* The verdict is right but for a path MTU that is more than 40 bytes      *)
(* smaller than the SCION headers: then the difference is unsigned.        *)
Answerable(c) == Translatable(c.l4) /\ c.to \notin Unmapped /\ c.found.kind = "path"

MtuUnderflow(c) == Answerable(c) /\ ~Fits(c) /\ EffectiveMtu(c) < 0

ExpectedVerdict(c) ==
  CASE ~Translatable(c.l4) -> "Drop"
    [] Translatable(c.l4) /\ c.to \in Unmapped -> "Return"
    [] Translatable(c.l4) /\ c.to \notin Unmapped /\ c.found.kind = "pending" -> "Drop"
    [] Translatable(c.l4) /\ c.to \notin Unmapped /\ c.found.kind = "error" -> "Return"
    [] OTHER -> IF Fits(c) THEN "Pass" ELSE IF EffectiveMtu(c) >= 1280 THEN "Return" ELSE "Drop"

(* Sums for which one fold is not enough: the checksum comes out wrong.    *)
(* An update also goes wrong when the difference is negative and the fold  *)
(* does not overflow.                                                      *)
UpdateInexact(chksum, add, sub) ==
  LET sum == Plus(U32(65535 - chksum), add)
  IN  LessU32(sum, sub) # CarryLost(Minus(sum, sub))

(* The layer 4 checksum of a packet with SCION headers, and of one with    *)
(* IPv6 headers                                                            *)
L4Of(pkt) ==
  SubSeq(Raw(pkt), 8 * (measureHeaders(pkt, FALSE) - l4Size(pkt)) + 1, 8 * pkt.size)

ScionL4(pkt) == SubSeq(Raw(pkt), 8 * (measureHeaders(pkt, TRUE) - l4Size(pkt)) + 1, 8 * pkt.size)

ScionRight(pkt) ==
  ChecksumRight(SCION_checksum(pkt.sci, l4Size(pkt) + payloadSize(pkt), L4Proto[pkt.l4Valid]),
                ScionL4(pkt))

IPv6Right(pkt) ==
  ChecksumRight(IPv6_checksum(pkt.ipv6, pkt.ipv6.plen), L4Of(pkt))

(* The reply that goes back to the sender: an ICMP error of at most 1280   *)
(* bytes that quotes the packet; an MTU it reports is one that fits.       *)
ReplyRight(c, raw, pkt) ==
  LET e   == emitPacket(pkt, FALSE)
      out == Received(Raw(e.pkt), 0, FALSE, {}).pkt
      q   == payload(out)
      same == IF c.l4.kind = "ICMPv6" THEN Min({Len(q), 8 * 48}) ELSE Len(q)
  IN  /\ e.ok
      /\ e.pkt.size <= 1280
      /\ out.ipValid = 6 /\ out.l4Valid = "ICMP"
      /\ out.ipv6.dst = mapToIPv6(c.src)
      /\ out.ipv6.plen = 8 + payloadSize(out)
      /\ Len(q) = 8 * Min({Len(raw) \div 8, 1232})
      /\ SubSeq(q, 1, same) = SubSeq(raw, 1, same)
      /\ IPv6Right(out)
      /\ CASE c.to \in Unmapped -> out.icmp.type = 1 /\ out.icmp.code = 3
           [] c.to \notin Unmapped /\ c.found.kind = "error" ->
                out.icmp.type = 1 /\ out.icmp.code = 0
           [] OTHER -> /\ out.icmp.type = 2 /\ out.icmp.param1 = 0
                       /\ out.icmp.param2 = EffectiveMtu(c)

(* The header of layer 4 and the payload that the receiver gets *)
ExpectedL4(c) ==
  LET h == c.l4.h
  IN  CASE c.l4.kind = "TCP" ->
             LET mss == [h EXCEPT !.sport = SrcPort(c, @)]
                 max == Min({c.found.mtu, c.mtuIn}) - ScionHdrSize(c) - TCP_HDR_SIZE
             IN  IF "MSS" \in DOMAIN h.opts
                 THEN [mss EXCEPT !.opts["MSS"].mss = Min({@, max})] ELSE mss
        [] c.l4.kind = "UDP" -> [h EXCEPT !.sport = SrcPort(c, @)]
        [] OTHER -> [h EXCEPT !.param1 = IF h.type = 128 THEN SrcPort(c, DISPATCHER_PORT)
                                         ELSE IF Len(c.data) >= 144
                                         THEN Num(SwapBytes(SubSeq(c.data, 129, 144))) ELSE @]

ExpectedData(c) ==
  IF c.l4.kind = "ICMPv6" /\ c.l4.h.type = 128 /\ Len(c.data) >= 144
  THEN SubSeq(c.data, 1, 128) \o Native16(c.l4.h.param1) \o SubSeq(c.data, 145, Len(c.data))
  ELSE c.data

NoChksum(h) == [f \in DOMAIN h \ {"chksum"} |-> h[f]]

(* What arrives: the same addresses, header and payload *)
DeliveredRight(c, pkt) ==
  LET e   == emitPacket(pkt, FALSE)
      out == Received(Raw(e.pkt), 0, FALSE, {}).pkt
  IN  /\ e.ok
      /\ out.ipv6.src = mapToIPv6(SrcAddr(c))
      /\ out.ipv6.dst = mapToIPv6(c.dst)
      /\ out.ipv6.tc = 184
      /\ out.ipv6.nh = ProtoOf(c.l4.kind)
      /\ payload(out) = ExpectedData(c)
      /\ out.ipv6.plen = L4Length(c)
      /\ NoChksum(CASE c.l4.kind = "TCP" -> out.tcp [] c.l4.kind = "UDP" -> out.udp
                    [] OTHER -> out.icmp) = NoChksum(ExpectedL4(c))

(* With its underlay the packet is a UDP packet whose checksum is right    *)
(* and which contains the same SCION packet.                               *)
UnderlayRight(pkt) ==
  LET e  == emitPacket(pkt, FALSE)
      b  == Raw(e.pkt)
      ipSize == IF pkt.ipValid = 4 THEN 160 ELSE 320
      src == IF pkt.ipValid = 4 THEN pkt.ipv4.src ELSE pkt.ipv6.src
      eps == {<<<<src, pkt.outerUDP.sport>>, <<src, pkt.outerUDP.dport>>>>}
      p   == Received(b, 0, FALSE, eps)
      pseudo == IF pkt.ipValid = 4 THEN IPv4_checksum(pkt.ipv4, pkt.outerUDP.len)
                ELSE IPv6_checksum(pkt.ipv6, pkt.outerUDP.len)
  IN  /\ e.ok
      /\ p.ok
      /\ p.pkt.outerUDPValid /\ p.pkt.scionValid
      /\ p.pkt.sci = pkt.sci
      /\ p.pkt.path.encoded = pkt.path.encoded
      /\ payload(p.pkt) = payload(pkt)
      /\ pkt.outerUDP.len = (Len(b) - ipSize) \div 8
      /\ ChecksumRight(pseudo, SubSeq(b, ipSize + 1, Len(b)))

(* Checksums stay right from step to step.  Excepted are the sums that one *)
(* fold cannot represent, SCMP behind a NAT, whose checksum is not         *)
(* updated, and SCMP in a buffer that is used again.                       *)
Chksum(pkt) == CASE pkt.l4Valid = "TCP" -> pkt.tcp.chksum [] OTHER -> pkt.udp.chksum

EgressExact(before, after) ==
  IF after.l4Valid = "SCMP" THEN before.scmp.chksum = 0
  ELSE ~UpdateInexact(Chksum(before),
                      Plus(SCION_checksum(after.sci, l4Size(after), L4Proto[after.l4Valid]),
                           U32(MSSof(after))),
                      Plus(IPv6_checksum(before.ipv6, l4Size(before)), U32(MSSof(before))))

NatExact(c, pkt) ==
  CASE c.nat = NotMapped -> TRUE
    [] c.nat # NotMapped /\ pkt.l4Valid = "SCMP" -> FALSE
    [] OTHER -> ~UpdateInexact(Chksum(pkt),
                               Plus(Address_checksum(pkt.sci.src, c.nat.host), U32(c.nat.port)),
                               Plus(Address_checksum(pkt.sci.src, pkt.sci.srcHost),
                                    U32(l4SPort(pkt, 0))))

IngressExact(before, after) ==
  IF after.l4Valid = "ICMP" THEN TRUE
  ELSE ~UpdateInexact(Chksum(before),
                      Plus(IPv6_checksum(after.ipv6, l4Size(after)), U32(MSSof(after))),
                      Plus(SCION_checksum(before.sci, l4Size(before), L4Proto[before.l4Valid]),
                           U32(MSSof(before))))

IaExact(c) == ~IaOverflow(c.src.ia) /\ ~IaOverflow(c.dst.ia)

ChecksumsKept(c, raw, sent, wire, in) ==
  LET before == [Received(raw, 0, FALSE, {}).pkt EXCEPT !.scmp.chksum = c.stale]
      exactE == EgressExact(before, sent)
      exactN == NatExact(c, sent)
      exactI == IngressExact(in.pkt, in.res.pkt)
      out    == Received(Raw(emitPacket(in.res.pkt, FALSE).pkt), 0, FALSE, {}).pkt
  IN  /\ exactE /\ exactN /\ IaExact(c) => ScionRight(wire.pkt)
      /\ (exactE /\ exactN /\ exactI) \/ out.l4Valid = "ICMP" => IPv6Right(out)

(* The answer to an echo request carries the identifier of the request     *)
(* when the payload has room for it.                                       *)
EchoAnswered(c, request) ==
  LET icmp  == request.icmp
      reply == [src |-> c.dst, dst |-> SrcAddr(c), to |-> mapToIPv6(SrcAddr(c)), nat |-> NotMapped,
                stale |-> 0, data |-> payload(request),
                l4 |-> [kind |-> "ICMPv6", h |-> [icmp EXCEPT !.type = 129, !.chksum = 0]],
                found |-> [c.found EXCEPT !.path.src = c.dst.ia, !.path.dst = c.src.ia]]
      wire  == Wire(Egress(reply).res.pkt, NotMapped)
      p     == Received(Raw(wire.pkt), IP_HEADROOM, TRUE, {}).pkt
      q     == ingressNat(p, c.nat, [host |-> c.src.host, port |-> DISPATCHER_PORT])
      res   == translateIngress(q, mapToIPv6(c.src), mapToIPv6(c.src), 128, c.mtuIn)
      out   == Received(Raw(emitPacket(res.pkt, FALSE).pkt), 0, FALSE, {}).pkt
  IN  /\ res.verdict = "Pass"
      /\ out.icmp.type = 129
      /\ out.icmp.param1 = IF Len(c.data) >= 144 THEN c.l4.h.param1 ELSE DISPATCHER_PORT
      /\ out.icmp.param2 = c.l4.h.param2
      /\ out.ipv6.dst = mapToIPv6(c.src)
      /\ IPv6Right(out)

(* A subflow that is refused is reset: the sender of the SYN receives a    *)
(* reset that acknowledges it.                                             *)
IsSyn(c) == c.l4.kind = "TCP" /\ c.l4.h.flags = 2

RejectRight(c, syn) ==
  LET rst  == rejectMptcpSubflow([syn EXCEPT !.path.src = syn.path.dst, !.path.dst = syn.path.src])
      wire == Wire(rst, NotMapped)
      p    == Received(Raw(wire.pkt), IP_HEADROOM, TRUE, {}).pkt
      in   == ingressNat(p, c.nat, [host |-> c.src.host, port |-> c.l4.h.sport])
      res  == translateIngress(in, mapToIPv6(c.src), mapToIPv6(c.src), 128, c.mtuIn)
      out  == Received(Raw(emitPacket(res.pkt, FALSE).pkt), 0, FALSE, {}).pkt
  IN  /\ wire.ok
      /\ ~CarryLost(Plus(SCION_checksum(rst.sci, rst.sci.plen, rst.sci.nh),
                         TCP_checksum([rst.tcp EXCEPT !.chksum = 0]))) /\ IaExact(c) =>
           ScionRight(wire.pkt)
      /\ res.verdict = "Pass"
      /\ out.ipv6.src = mapToIPv6(c.dst) /\ out.ipv6.dst = mapToIPv6(c.src)
      /\ out.tcp.sport = c.l4.h.dport /\ out.tcp.dport = c.l4.h.sport
      /\ out.tcp.flags = TcpRST + TcpACK /\ DOMAIN out.tcp.opts = {"MpRst"}
      /\ payload(out) = <<>>
      /\ Minus(Word32(out.tcp.ack), Word32(c.l4.h.seq)) = U32(1 + Len(c.data) \div 8)

TranslatedRight(c) ==
  LET e    == Egress(c)
      sent == e.res.pkt
      wire == Wire(sent, c.nat)
      in   == Ingress(wire, c.dst, c.mtuIn)
  IN  /\ IF MtuUnderflow(c) THEN e.res.verdict # "Pass" ELSE e.res.verdict = ExpectedVerdict(c)
      /\ e.res.verdict = "Return" /\ ~MtuUnderflow(c) => ReplyRight(c, e.raw, sent)
      /\ e.res.verdict = "Pass" =>
           /\ wire.ok
           /\ wire.pkt.size <= c.found.mtu
           /\ UnderlayRight(sent)
           /\ in.ok
           /\ Ingress(wire, ScIPAddress(c.dst.ia, Zeros(32)), c.mtuIn).res.verdict = "Drop"
           /\ IsSyn(c) => RejectRight(c, in.pkt)
           /\ IF c.l4.kind = "ICMPv6" /\ c.l4.h.type \in {1, 2}
              THEN in.res.verdict = "Drop"
              ELSE /\ in.res.verdict = "Pass"
                   /\ DeliveredRight(c, in.res.pkt)
                   /\ ChecksumsKept(c, e.raw, sent, wire, in)
                   /\ c.l4.kind = "ICMPv6" /\ c.l4.h.type = 128 => EchoAnswered(c, in.res.pkt)

-----------------------------------------------------------------------------
(* The cases *)

External == [host |-> Bin(203, 8) \o Pat(24, 2), port |-> 61000]

Found(path, mtu) == [kind |-> "path", path |-> path, mtu |-> mtu]

Case(src, dst, l4, data, path, mtu, nat) ==
  LET base == [src |-> src, dst |-> dst, to |-> mapToIPv6(dst), l4 |-> l4, data |-> data, nat |-> nat,
               mtuIn |-> 1400, stale |-> 0, found |-> Found(path, 0)]
      need == ScionHdrSize(base) + L4Length(base)
  IN  [base EXCEPT !.found.mtu = IF mtu <= 0 THEN need + mtu ELSE mtu]

(* All headers with small payloads over a path; MTUs one byte below the    *)
(* packet's size, at it, and above it                                      *)
SmallCases ==
  {Case(IPv4Host(0), dst, l4, Pat(8 * n, 2), ScionPath(IPv4Host(0), dst), mtu, nat) :
   l4 \in L4Samples, dst \in {IPv4Host(2), IPv6Host}, n \in {0, 3, 21}, mtu \in {-1, 0, 1472},
   nat \in {NotMapped, External}}

(* Inside an AS, between IPv6 hosts, and with the largest numbers          *)
LocalCases ==
  {Case(src, src, l4, Pat(8 * n, 1), EmptyPath(src, src), 1472, NotMapped) :
   l4 \in {x \in L4Samples : x.kind # "TCP" \/ "MSS" \in DOMAIN x.h.opts},
   src \in {IPv4Host(0), IPv4Host(1), IPv6Host}, n \in {0, 18}}

(* Packets that are too long, for which an MTU is reported; a path MTU of  *)
(* which headers leave less than 1280 bytes                                *)
LongCases ==
  {Case(IPv4Host(0), IPv4Host(2), l4, Zeros(8 * 1300) \o Pat(16, 2),
        ScionPath(IPv4Host(0), IPv4Host(2)), mtu, NotMapped) :
   l4 \in {x \in L4Samples : \/ x.kind = "UDP"
                             \/ x.kind = "ICMPv6" /\ x.h.type = 128 /\ x.h.param2 = 1},
   mtu \in {1312, 1311, 1340, 1472}}

(* No path, or no SCION address *)
NoPathCases ==
  {[Case(IPv4Host(0), IPv4Host(2), l4, Pat(8 * n, 2), ScionPath(IPv4Host(0), IPv4Host(2)), 1472,
         NotMapped) EXCEPT !.found.kind = kind] :
   l4 \in {x \in L4Samples : x.kind # "TCP"}, n \in {0, 21}, kind \in {"pending", "error"}}
  \cup
  {[Case(IPv4Host(0), IPv4Host(2), l4, Pat(8 * n, 2), ScionPath(IPv4Host(0), IPv4Host(2)), 1472,
         NotMapped) EXCEPT !.to = ip] :
   l4 \in {x \in L4Samples : x.kind = "UDP"}, n \in {0, 21}, ip \in Unmapped}

(* Path MTUs around the size of the SCION headers, which an SCMP message   *)
(* may have reported                                                       *)
TinyMtuCases ==
  {Case(IPv4Host(0), IPv4Host(2), l4, Pat(8 * n, 2), ScionPath(IPv4Host(0), IPv4Host(2)), mtu,
        NotMapped) : l4 \in {x \in L4Samples : x.kind # "TCP"}, n \in {0, 21}, mtu \in {1, 31, 32, 72}}

(* In a buffer whose last packet had an SCMP checksum *)
ReusedCases ==
  {[Case(IPv4Host(0), dst, l4, Pat(8 * n, 2), ScionPath(IPv4Host(0), dst), 1472, NotMapped)
     EXCEPT !.stale = 4711] :
   l4 \in {x \in L4Samples : x.kind # "TCP"}, n \in {0, 21}, dst \in {IPv4Host(2), IPv6Host}}

TranslationCases ==
  SmallCases \cup LocalCases \cup LongCases \cup NoPathCases \cup TinyMtuCases \cup ReusedCases
=============================================================================
