----------------------------- MODULE Translator -----------------------------
(***************************************************************************)
(* The packet translator (scitra/include/scitra/translator.hpp and         *)
(* scitra/src/translator.cpp), and the address translation of Scitra-TUN's *)
(* sockets (scitra/src/scitra-tun/socket.cpp).  Every operator returns the *)
(* verdict and the packet as it is left.  A path is a record of its type,  *)
(* its end points, its encoding and the underlay address of the router.    *)
(***************************************************************************)
EXTENDS Packet

IPV6_MIN_LINK_MTU == 1280
TCP_HDR_SIZE      == 20
DISPATCHER_PORT   == 30041
REPLACE_ADDRESS   == 128
IPv6_size         == 40

PathTypeEmpty == 0

TcpRST          == 4
TcpACK          == 16
MpRstProhibited == 3

Result(verdict, pkt) == [verdict |-> verdict, pkt |-> pkt]

(* The hashes of addresses and ports: values without a meaning *)
computeScionFlowLabel(sci) == Num(SubSeq(sci.dst, 45, 64))

computeIPv6FlowLabel(ip) == Num(SubSeq(ip.dst, 109, 128))

(* translateIPv6Prefix *)
translateIPv6Prefix(addr, prefix, prefixLen) ==
  IF prefixLen = REPLACE_ADDRESS THEN prefix
  ELSE [i \in 1 .. 128 |-> IF i <= prefixLen THEN prefix[i] ELSE addr[i]]

(* An SCMP message in place of the current one; its checksum stays what it *)
(* was.                                                                    *)
ToScmp(pkt, msg) ==
  Result("Pass", [pkt EXCEPT !.l4Valid = "SCMP", !.scmp = msg @@ [chksum |-> pkt.scmp.chksum]])

(* memcpy of a 16-bit number in the byte order of a little-endian machine  *)
Native16(n) == SwapBytes(Bin(n, 16))

(* translateIcmpToScmp *)
translateIcmpToScmp(pkt) ==
  LET icmp == pkt.icmp
      underlaySize == IPv6_size + UDP_size
      saved == IF payloadSize(pkt) >= 18 THEN SetBytes(pkt, 16, Native16(icmp.param1)) ELSE pkt
  IN  CASE icmp.type = 1 -> ToScmp(pkt, [type |-> DstUnreach, code |-> icmp.code])
        [] icmp.type = 2 ->
             IF icmp.param1 # 0 \/ icmp.param2 < underlaySize THEN Result("Drop", pkt)
             ELSE ToScmp(pkt, [type |-> PacketTooBig, code |-> 0,
                               mtu |-> icmp.param2 - underlaySize])
        [] icmp.type = 128 ->
             ToScmp(saved, [type |-> EchoRequest, code |-> 0, id |-> DISPATCHER_PORT,
                            seq |-> icmp.param2])
        [] icmp.type = 129 ->
             ToScmp(pkt, [type |-> EchoReply, code |-> 0, id |-> icmp.param1,
                          seq |-> icmp.param2])
        [] OTHER -> Result("Drop", pkt)

(* translateScmpToIcmp *)
translateScmpToIcmp(pkt) ==
  LET scmp == pkt.scmp
      echo(type, id) ==
        Result("Pass", [pkt EXCEPT !.l4Valid = "ICMP",
                                   !.icmp = [type |-> type, code |-> 0, chksum |-> 0,
                                             param1 |-> id, param2 |-> scmp.seq]])
  IN  CASE scmp.type \in {DstUnreach, PacketTooBig, ParamProblem, ExtIfDown, IntConnDown} ->
             Result("Drop", pkt)
        [] scmp.type = EchoRequest -> echo(128, scmp.id)
        [] scmp.type = EchoReply ->
             echo(129, IF payloadSize(pkt) >= 18
                       THEN Num(SwapBytes(SubSeq(payload(pkt), 129, 144))) ELSE scmp.id)
        [] OTHER -> Result("Abort", pkt)

(* The ICMP error that goes back to the sender quotes as much of the       *)
(* packet as fits the minimum MTU; makeIcmpDestUnreachable and             *)
(* makeIcmpPacketTooBig differ in the type and its parameters.             *)
makeIcmp(pkt, type, code, param2) ==
  LET a == [pkt EXCEPT !.ipv6.dst = pkt.ipv6.src,
                       !.ipv6.src = Bin(252, 8) \o Zeros(119) \o <<1>>,
                       !.ipv6.nh = ProtoICMP, !.l4Valid = "ICMP",
                       !.icmp = [type |-> type, code |-> code, chksum |-> 0, param1 |-> 0,
                                 param2 |-> param2]]
      b == quoteRawHeaders(a, IPV6_MIN_LINK_MTU - measureHeaders(a, FALSE))
      c == [b EXCEPT !.ipv6.plen = ICMPv6_size + b.size]
  IN  [c EXCEPT !.icmp.chksum =
         internetChecksum(payload(c), Plus(IPv6_checksum(c.ipv6, c.ipv6.plen),
                                           ICMPv6_checksum(c.icmp)))]

makeIcmpDestUnreachable(pkt, code) == makeIcmp(pkt, 1, code, 0)

makeIcmpPacketTooBig(pkt, mtu) == makeIcmp(pkt, 2, 0, mtu)

(* TCP MSS clamping, the same for both directions *)
HasMSS(pkt) == pkt.l4Valid = "TCP" /\ "MSS" \in DOMAIN pkt.tcp.opts

ScionMSS(mtu, hdrSize) == mtu - hdrSize - TCP_HDR_SIZE

clampMSS(pkt, mtu, hdrSize) ==
  Min({pkt.tcp.opts["MSS"].mss, Min({ScionMSS(mtu, hdrSize), 65535})})

WithMSS(pkt, mss) ==
  IF HasMSS(pkt) THEN [pkt EXCEPT !.tcp.opts["MSS"].mss = mss] ELSE pkt

MSSof(pkt) == IF HasMSS(pkt) THEN pkt.tcp.opts["MSS"].mss ELSE 0

-----------------------------------------------------------------------------
(* translateEgress *)

pathSize(path) == Len(path.encoded) \div 8

nextHop(path, dst) == IF path.type = PathTypeEmpty THEN dst ELSE path.nextHop

(* The SCION header *)
EgressScion(pkt, srcHost, dst, path) ==
  LET h == [qos |-> pkt.ipv6.tc, fl |-> 0, nh |-> L4Proto[pkt.l4Valid], hlen |-> 0,
            plen |-> (l4Size(pkt) + payloadSize(pkt)) % U16, ptype |-> path.type,
            dst |-> dst.ia, src |-> path.src, dstHost |-> dst.host, srcHost |-> srcHost]
  IN  [pkt EXCEPT !.sci = [h EXCEPT !.hlen = ((SCION_size(h) + pathSize(path)) \div 4) % 256,
                                    !.fl = computeScionFlowLabel(h)],
                  !.path = [type |-> path.type, src |-> path.src, dst |-> path.dst,
                            encoded |-> path.encoded]]

(* Fault: the checksum keeps the old MSS. *)
EgressForgetMSS(pkt, old) ==
  l4UpdateChecksum(pkt, SCION_checksum(pkt.sci, l4Size(pkt), L4Proto[pkt.l4Valid]),
                   IPv6_checksum(pkt.ipv6, l4Size(pkt)))

(* The checksum of layer 4: computed for SCMP, updated for the others.     *)
(* Packet old has the MSS that was replaced.                               *)
EgressChecksum(pkt, old) ==
  IF pkt.l4Valid = "SCMP"
  THEN [pkt EXCEPT !.scmp.chksum =
          internetChecksum(payload(pkt),
            Plus(SCION_checksum(pkt.sci, SCMP_size(pkt.scmp) + payloadSize(pkt), ProtoSCMP),
                 SCMP_checksum(pkt.scmp)))]
  ELSE l4UpdateChecksum(
         pkt,
         Plus(SCION_checksum(pkt.sci, l4Size(pkt), L4Proto[pkt.l4Valid]), U32(MSSof(pkt))),
         Plus(IPv6_checksum(pkt.ipv6, l4Size(pkt)), U32(MSSof(old))))

(* The underlay *)
EgressUnderlay(pkt, srcHost, nh) ==
  LET sport == l4SPort(pkt, 0)
      len   == (UDP_size + SCION_size(pkt.sci) + Len(pkt.path.encoded) \div 8 + pkt.sci.plen) % U16
      a == [pkt EXCEPT !.outerUDP = [sport |-> IF sport = 0 THEN DISPATCHER_PORT ELSE sport,
                                     dport |-> nh.port, len |-> len, chksum |-> 0],
                       !.outerUDPValid = TRUE, !.scionValid = TRUE]
      v6 == [tc |-> pkt.ipv6.tc, fl |-> computeIPv6FlowLabel(pkt.ipv6), plen |-> len,
             nh |-> ProtoUDP, hlim |-> 64, src |-> srcHost, dst |-> nh.host]
  IN  IF is4(nh.host)
      THEN [a EXCEPT !.ipValid = 4,
                     !.ipv4 = [flags |-> 2, tos |-> pkt.ipv6.tc, ttl |-> 64, proto |-> ProtoUDP,
                               len |-> (20 + len) % U16, id |-> 0, frag |-> 0, src |-> srcHost,
                               dst |-> nh.host]]
      ELSE [a EXCEPT !.ipValid = 6, !.ipv6 = v6]

(* Check Path MTU *)
TooBig(pkt, path, mtu) ==
  SCION_size(pkt.sci) + pathSize(path) + l4Size(pkt) + payloadSize(pkt) > mtu

(* The packet with a path to its destination *)
EgressWithPath(pkt, srcHost, dst, path, mtu) ==
  LET nh     == nextHop(path, [host |-> dst.host, port |-> l4DPort(pkt, DISPATCHER_PORT)])
      a      == EgressScion(pkt, srcHost, dst, path)
      hdr    == SCION_size(a.sci) + pathSize(path)
      ipMtu  == mtu + IPv6_size - hdr
      b      == WithMSS(a, clampMSS(a, mtu, hdr))
  IN  CASE TooBig(a, path, mtu) ->
             IF ipMtu >= IPV6_MIN_LINK_MTU \/ ipMtu < 0 \* an unsigned difference
             THEN Result("Return",
                         makeIcmpPacketTooBig(a, IF ipMtu < 0 THEN 65535 ELSE Min({ipMtu, 65535})))
             ELSE Result("Drop", a)
        [] ~TooBig(a, path, mtu) /\ HasMSS(a) /\ ScionMSS(mtu, hdr) <= 0 -> Result("Abort", a)
        [] OTHER -> Result("Pass", EgressUnderlay(EgressChecksum(b, a), srcHost, nh))

(* translateEgress.  found is what getPath returns: "pending", "error" or  *)
(* a path with its MTU.                                                    *)
translateEgress(pkt, sourcePrefix, prefixLen, found) ==
  LET srcHost == translateIPv6Prefix(pkt.ipv6.src, sourcePrefix, prefixLen)
      icmp    == IF pkt.l4Valid = "ICMP" THEN translateIcmpToScmp(pkt) ELSE Result("Pass", pkt)
      dst     == unmapFromIPv6(pkt.ipv6.dst)
  IN  CASE pkt.ipValid # 6 -> Result("Abort", pkt)
        [] pkt.ipValid = 6 /\ icmp.verdict # "Pass" -> icmp
        [] OTHER ->
             CASE dst = NoAddr -> Result("Return", makeIcmpDestUnreachable(icmp.pkt, 3))
               [] dst # NoAddr /\ found.kind = "pending" -> Result("Drop", icmp.pkt)
               [] dst # NoAddr /\ found.kind = "error" ->
                    Result("Return", makeIcmpDestUnreachable(icmp.pkt, 0))
               [] OTHER -> EgressWithPath(icmp.pkt, srcHost, dst, found.path, found.mtu)

-----------------------------------------------------------------------------
(* translateIngress *)

IngressHeader(pkt, src, dst, nh) ==
  LET h == [tc |-> pkt.sci.qos, fl |-> 0, plen |-> (l4Size(pkt) + payloadSize(pkt)) % U16,
            nh |-> nh, hlim |-> 64, src |-> src, dst |-> dst]
  IN  [pkt EXCEPT !.ipv6 = [h EXCEPT !.fl = computeIPv6FlowLabel(h)], !.ipValid = 6,
                  !.outerUDPValid = FALSE, !.scionValid = FALSE]

IngressChecksum(pkt, old) ==
  IF pkt.l4Valid = "ICMP"
  THEN [pkt EXCEPT !.icmp.chksum =
          internetChecksum(payload(pkt),
            Plus(IPv6_checksum(pkt.ipv6, ICMPv6_size + payloadSize(pkt)),
                 ICMPv6_checksum(pkt.icmp)))]
  ELSE l4UpdateChecksum(
         pkt,
         Plus(IPv6_checksum(pkt.ipv6, l4Size(pkt)), U32(MSSof(pkt))),
         Plus(SCION_checksum(pkt.sci, l4Size(pkt), L4Proto[pkt.l4Valid]), U32(MSSof(old))))

(* translateIngress.  mtu is what getMTU returns. *)
translateIngress(pkt, acceptPrefix, dstPrefix, prefixLen, mtu) ==
  LET src == mapToIPv6(ScIPAddress(pkt.sci.src, pkt.sci.srcHost))
      dst == mapToIPv6(ScIPAddress(pkt.sci.dst, pkt.sci.dstHost))
      l4  == IF pkt.l4Valid = "SCMP" THEN translateScmpToIcmp(pkt) ELSE Result("Pass", pkt)
      hdr == SCION_size(pkt.sci) + Len(pkt.path.encoded) \div 8
      a   == WithMSS(l4.pkt, clampMSS(l4.pkt, mtu, hdr))
      b   == IngressHeader(a, src, translateIPv6Prefix(dst, dstPrefix, prefixLen),
                           IF pkt.l4Valid = "SCMP" THEN ProtoICMP ELSE pkt.sci.nh)
  IN  CASE ~pkt.scionValid -> Result("Abort", pkt)
        [] pkt.scionValid /\ (src = NoAddr \/ dst = NoAddr) -> Result("Drop", pkt)
        [] OTHER ->
             CASE ~samePrefix(acceptPrefix, dst, prefixLen) -> Result("Drop", pkt)
               [] samePrefix(acceptPrefix, dst, prefixLen) /\ l4.verdict # "Pass" -> l4
               [] OTHER ->
                    IF HasMSS(l4.pkt) /\ ScionMSS(mtu, hdr) <= 0 THEN Result("Abort", l4.pkt)
                    ELSE Result("Pass", IngressChecksum(b, l4.pkt))

-----------------------------------------------------------------------------
(* ScitraTun::rejectMptcpSubflow: a SYN becomes a reset of the subflow.    *)
(* The path of the packet has been reversed before.                        *)
AckOfSyn(pkt) ==
  LET ack == Plus(Word32(pkt.tcp.seq), U32(payloadSize(pkt) + 1))
  IN  Bin(ack[1], 16) \o Bin(ack[2], 16)

rejectMptcpSubflow(pkt) ==
  LET tcp == [sport |-> pkt.tcp.dport, dport |-> pkt.tcp.sport, seq |-> Zeros(32),
              ack |-> AckOfSyn(pkt), flags |-> TcpRST + TcpACK, window |-> 0, chksum |-> 0,
              urgptr |-> 0, opts |-> "MpRst" :> [flags |-> 0, reason |-> MpRstProhibited]]
      sci == [pkt.sci EXCEPT !.dst = pkt.sci.src, !.dstHost = pkt.sci.srcHost,
                             !.src = pkt.sci.dst, !.srcHost = pkt.sci.dstHost,
                             !.plen = TCP_size(tcp)]
      a   == removePayload([pkt EXCEPT !.tcp = tcp, !.sci = sci])
  IN  [a EXCEPT !.tcp.chksum =
         internetChecksum(payload(a), Plus(SCION_checksum(sci, sci.plen, sci.nh), TCP_checksum(tcp)))]

-----------------------------------------------------------------------------
(* Sockets behind a NAT: mapped is the external endpoint                   *)

NotMapped == [host |-> <<>>, port |-> 0]

(* egressNat: the SCMP checksum is not updated *)
egressNat(pkt, mapped) ==
  LET a == [pkt EXCEPT !.sci.srcHost = mapped.host]
      port(p) == CASE p.l4Valid = "TCP" -> [p EXCEPT !.tcp.sport = mapped.port]
                   [] p.l4Valid = "UDP" -> [p EXCEPT !.udp.sport = mapped.port]
                   [] OTHER -> IF p.scmp.type = EchoRequest
                               THEN [p EXCEPT !.scmp.id = mapped.port] ELSE p
  IN  IF mapped = NotMapped THEN pkt
      ELSE l4UpdateChecksum(
             port(a),
             Plus(Address_checksum(a.sci.src, mapped.host), U32(mapped.port)),
             Plus(Address_checksum(pkt.sci.src, pkt.sci.srcHost), U32(l4SPort(pkt, 0))))

(* ingressNat *)
ingressNat(pkt, mapped, local) ==
  LET a == [pkt EXCEPT !.sci.dstHost = local.host]
      port(p) == CASE p.l4Valid = "TCP" -> [p EXCEPT !.tcp.dport = local.port]
                   [] p.l4Valid = "UDP" -> [p EXCEPT !.udp.dport = local.port]
                   [] OTHER -> IF p.scmp.type = EchoReply
                               THEN [p EXCEPT !.scmp.id = local.port] ELSE p
  IN  IF mapped = NotMapped THEN pkt
      ELSE l4UpdateChecksum(
             port(a),
             Plus(Address_checksum(a.sci.dst, local.host), U32(local.port)),
             Plus(Address_checksum(pkt.sci.dst, pkt.sci.dstHost), U32(l4DPort(pkt, 0))))
=============================================================================
