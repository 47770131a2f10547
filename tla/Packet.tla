------------------------------- MODULE Packet -------------------------------
(***************************************************************************)
(* PacketBuffer, the packets that Scitra-TUN rewrites in place             *)
(* (scitra/include/scitra/packet.hpp, scitra/src/packet.cpp).  A packet is *)
(* a record of the members of the class: the validity flags, the parsed    *)
(* headers, and the raw packet, which occupies size bytes of the buffer    *)
(* from offset; the headers end at endOfHeader.  The buffer is a sequence  *)
(* of bits, sizes and offsets count bytes.                                 *)
(***************************************************************************)
EXTENDS Mapping, ScmpHeader, IpHeaders, TcpHeader

ProtoTCP  == 6
ProtoUDP  == 17
ProtoICMP == 58
HBHOpt    == 200
E2EOpt    == 201
ProtoSCMP == 202

L4Proto == [None |-> 0, ICMP |-> ProtoICMP, SCMP |-> ProtoSCMP, TCP |-> ProtoTCP,
            UDP |-> ProtoUDP]

(* PacketBuffer(buffer): headers hold whatever an earlier packet left in   *)
(* them; only the SCMP checksum of an earlier packet is ever read.         *)
PacketBuffer(buffer) ==
  [ipValid |-> 0, outerUDPValid |-> FALSE, stunValid |-> FALSE, scionValid |-> FALSE,
   l4Valid |-> "None", ipv4 |-> <<>>, ipv6 |-> <<>>, outerUDP |-> <<>>, stun |-> <<>>,
   sci |-> <<>>, path |-> <<>>, icmp |-> <<>>, scmp |-> [chksum |-> 0], tcp |-> <<>>,
   udp |-> <<>>, buffer |-> buffer, offset |-> 0, size |-> 0, endOfHeader |-> 0]

(* clearAndGetBuffer *)
clearAndGetBuffer(pkt, headroom) ==
  LET room == Min({headroom, Len(pkt.buffer) \div 8})
  IN  [pkt EXCEPT !.ipValid = 0, !.outerUDPValid = FALSE, !.stunValid = FALSE,
                  !.scionValid = FALSE, !.l4Valid = "None", !.offset = room,
                  !.size = Len(pkt.buffer) \div 8 - room, !.endOfHeader = 0]

(* The bytes from..to - 1 of the buffer *)
BytesOf(pkt, from, to) == SubSeq(pkt.buffer, 8 * from + 1, 8 * to)

(* The current packet, and its payload(): a view, from which the words are *)
(* summed                                                                  *)
Raw(pkt) == BytesOf(pkt, pkt.offset, pkt.offset + pkt.size)

payloadSize(pkt) == pkt.size - (pkt.endOfHeader - pkt.offset)

payload(pkt) == BytesOf(pkt, pkt.endOfHeader, pkt.offset + pkt.size)

(* Overwrites bytes of the payload. *)
SetBytes(pkt, at, b) ==
  LET pos == 8 * (pkt.endOfHeader + at)
  IN  [pkt EXCEPT !.buffer = SubSeq(@, 1, pos) \o b \o SubSeq(@, pos + Len(b) + 1, Len(@))]

(* l4Size, l4SPort and l4DPort *)
l4Size(pkt) ==
  CASE pkt.l4Valid = "ICMP" -> ICMPv6_size
    [] pkt.l4Valid = "SCMP" -> SCMP_size(pkt.scmp)
    [] pkt.l4Valid = "TCP"  -> TCP_size(pkt.tcp)
    [] pkt.l4Valid = "UDP"  -> UDP_size
    [] OTHER -> 0

l4SPort(pkt, def) ==
  CASE pkt.l4Valid = "TCP" -> pkt.tcp.sport [] pkt.l4Valid = "UDP" -> pkt.udp.sport [] OTHER -> def

l4DPort(pkt, def) ==
  CASE pkt.l4Valid = "TCP" -> pkt.tcp.dport [] pkt.l4Valid = "UDP" -> pkt.udp.dport [] OTHER -> def

(* l4UpdateChecksum: of TCP and UDP only *)
l4UpdateChecksum(pkt, add, sub) ==
  CASE pkt.l4Valid = "TCP" -> [pkt EXCEPT !.tcp.chksum = updateInternetChecksum(@, add, sub)]
    [] pkt.l4Valid = "UDP" -> [pkt EXCEPT !.udp.chksum = updateInternetChecksum(@, add, sub)]
    [] OTHER -> pkt

removePayload(pkt) == [pkt EXCEPT !.size = pkt.endOfHeader - pkt.offset]

(* measureHeaders: a STUN message does not count *)
measureHeaders(pkt, noUnderlay) ==
  (IF noUnderlay THEN 0
   ELSE (CASE pkt.ipValid = 4 -> 20 [] pkt.ipValid = 6 -> 40 [] OTHER -> 0)
        + (IF pkt.outerUDPValid THEN UDP_size ELSE 0))
  + (IF pkt.scionValid THEN SCION_size(pkt.sci) + Len(pkt.path.encoded) \div 8 ELSE 0)
  + l4Size(pkt)

(* quoteRawHeaders: the raw packet becomes the payload. *)
quoteRawHeaders(pkt, maxSize) ==
  [pkt EXCEPT !.size = Min({@, maxSize}), !.endOfHeader = pkt.offset]

-----------------------------------------------------------------------------
(* Parsing: p holds the packet, the stream and the next protocol *)

Parse(p, f, serialize(_)) ==
  IF ~p.ok THEN p
  ELSE LET r == serialize([p.rs EXCEPT !.h = <<>>])
       IN  IF r.ok THEN [p EXCEPT !.rs = r, !.pkt[f] = r.h] ELSE [p EXCEPT !.ok = FALSE]

(* A hop-by-hop or end-to-end extension header is skipped. *)
skipOptions(p, proto, serialize(_)) ==
  IF ~p.ok \/ p.proto # proto THEN p
  ELSE LET r == serialize([p.rs EXCEPT !.h = <<>>])
           s == advanceBytes(r, optionSize(r.h))
       IN  IF r.ok /\ s.ok THEN [p EXCEPT !.rs = s, !.proto = r.h.nh] ELSE [p EXCEPT !.ok = FALSE]

(* parseScion *)
parseScion(p) ==
  LET a == Parse(p, "sci", SCION_serialize)
      n == SCION_pathSize(a.pkt.sci)
      b == [a EXCEPT !.rs = advanceBytes(@, n), !.proto = a.pkt.sci.nh,
                     !.pkt.path = [type |-> a.pkt.sci.ptype, src |-> a.pkt.sci.src,
                                   dst |-> a.pkt.sci.dst, encoded |-> Lookahead(a.rs, n)]]
      c == skipOptions(skipOptions(b, HBHOpt, HopByHopOpts_serialize), E2EOpt,
                       EndToEndOpts_serialize)
  IN  CASE ~a.ok -> a
        [] a.ok /\ ~(n >= 0 /\ CanLook(a.rs, n)) -> [a EXCEPT !.ok = FALSE]
        [] OTHER -> [c EXCEPT !.pkt.scionValid = c.ok]

(* parseL4 *)
parseL4(p) ==
  LET l4 == {t \in {"SCMP", "ICMP", "TCP", "UDP"} : L4Proto[t] = p.proto}
      t  == CHOOSE x \in l4 : TRUE
      q  == CASE t = "SCMP" -> Parse(p, "scmp", SCMP_serialize)
              [] t = "ICMP" -> Parse(p, "icmp", ICMPv6_serialize)
              [] t = "TCP"  -> Parse(p, "tcp", TCP_serialize)
              [] t = "UDP"  -> Parse(p, "udp", UDP_serialize)
  IN  IF ~p.ok \/ l4 = {} THEN [p EXCEPT !.ok = FALSE]
      ELSE [q EXCEPT !.pkt.l4Valid = IF q.ok THEN t ELSE @]

(* The IP header of parse() *)
parseIP(p) ==
  LET ver == Num(SubSeq(p.rs.data, 1, 4))
      v4  == Parse(p, "ipv4", IPv4_serialize)
      v6  == Parse(p, "ipv6", IPv6_serialize)
  IN  CASE Len(p.rs.data) >= 4 /\ ver = 4 ->
             IF v4.ok THEN [v4 EXCEPT !.pkt.ipValid = 4, !.proto = v4.pkt.ipv4.proto] ELSE v4
        [] Len(p.rs.data) >= 4 /\ ver = 6 ->
             IF v6.ok THEN [v6 EXCEPT !.pkt.ipValid = 6, !.proto = v6.pkt.ipv6.nh] ELSE v6
        [] OTHER -> [p EXCEPT !.ok = FALSE]

(* parse.  scionEps (IsScion) is the set of pairs of endpoints between which UDP      *)
(* carries SCION; it is asked about the source address twice.              *)
parse(pkt, rs, noUnderlay, scionEps) ==
  LET start == [ok |-> TRUE, pkt |-> pkt, rs |-> rs, proto |-> 0]
      a     == IF noUnderlay THEN start ELSE parseIP(start)
      stun  == Parse(a, "stun", STUN_serialize)
      outer == Parse(a, "outerUDP", UDP_serialize)
      src   == IF outer.pkt.ipValid = 4 THEN outer.pkt.ipv4.src ELSE outer.pkt.ipv6.src
      isSci == <<<<src, outer.pkt.outerUDP.sport>>, <<src, outer.pkt.outerUDP.dport>>>> \in scionEps
  IN  CASE ~a.ok -> a
        [] a.ok /\ CanLook(a.rs, 20) /\ detectStun(Lookahead(a.rs, 20)) ->
             [stun EXCEPT !.pkt.stunValid = stun.ok]
        [] OTHER ->
             CASE noUnderlay -> parseL4(parseScion(a))
               [] ~noUnderlay /\ a.proto # ProtoUDP -> parseL4(a)
               [] OTHER ->
                    CASE ~outer.ok -> outer
                      [] outer.ok /\ isSci ->
                           parseL4(parseScion([outer EXCEPT !.pkt.outerUDPValid = TRUE]))
                      [] OTHER ->
                           [outer EXCEPT !.pkt.udp = outer.pkt.outerUDP,
                                         !.pkt.outerUDPValid = FALSE, !.pkt.l4Valid = "UDP"]

(* parsePacket *)
parsePacket(pkt, size, noUnderlay, scionEps) ==
  LET q == [pkt EXCEPT !.endOfHeader = pkt.offset, !.size = Min({size, @})]
      p == parse(q, ReadStream(Raw(q)), noUnderlay, scionEps)
  IN  [ok |-> p.ok,
       pkt |-> IF p.ok THEN [p.pkt EXCEPT !.endOfHeader = q.offset + p.rs.pos \div 8]
               ELSE p.pkt]

-----------------------------------------------------------------------------
(* Writing *)

Put(ws, h, serialize(_)) ==
  IF ws.ok THEN [serialize([ws EXCEPT !.h = h]) EXCEPT !.h = <<>>] ELSE ws

(* The outer UDP checksum, over the headers just written and the payload *)
outerChecksum(pkt, ws, offset) ==
  LET hdrChksum == Plus(UDP_checksum(pkt.outerUDP),
                        CASE pkt.ipValid = 4 -> IPv4_checksum(pkt.ipv4, pkt.outerUDP.len)
                          [] pkt.ipValid = 6 -> IPv6_checksum(pkt.ipv6, pkt.outerUDP.len)
                          [] OTHER -> U32(0))
  IN  internetChecksum(Lookback(ws, offset),
                       U32(onesComplementChecksum(payload(pkt), hdrChksum)))

(* emit *)
emit(pkt, ws, noUnderlay) ==
  LET underlay == ~noUnderlay
      a == CASE underlay /\ pkt.ipValid = 4 -> Put(ws, pkt.ipv4, IPv4_serialize)
             [] underlay /\ pkt.ipValid = 6 -> Put(ws, pkt.ipv6, IPv6_serialize)
             [] OTHER -> ws
      b == IF underlay /\ pkt.outerUDPValid THEN Put(a, pkt.outerUDP, UDP_serialize) ELSE a
      c == IF pkt.stunValid THEN Put(b, pkt.stun, STUN_serialize) ELSE b
      d == IF ~pkt.scionValid THEN c
           ELSE Put(Put(c, pkt.sci, SCION_serialize), pkt.path,
                    LAMBDA s : serializeBytes(s, "encoded", Len(pkt.path.encoded) \div 8))
      e == CASE pkt.l4Valid = "ICMP" -> Put(d, pkt.icmp, ICMPv6_serialize)
             [] pkt.l4Valid = "SCMP" -> Put(d, pkt.scmp, SCMP_serialize)
             [] pkt.l4Valid = "TCP"  -> Put(d, pkt.tcp, TCP_serialize)
             [] pkt.l4Valid = "UDP"  -> Put(d, pkt.udp, UDP_serialize)
             [] OTHER -> d
      offset == (e.pos - a.pos) \div 8 - 8
  IN  IF e.ok /\ underlay /\ pkt.outerUDPValid
      THEN updateChksum(e, outerChecksum(pkt, e, offset), offset) ELSE e

(* emitPacket: the new headers are written in front of the payload. *)
emitPacket(pkt, noUnderlay) ==
  LET hdrSize == measureHeaders(pkt, noUnderlay)
      begin   == pkt.endOfHeader - hdrSize
      ws      == emit(pkt, WriteStream(BytesOf(pkt, begin, pkt.endOfHeader), <<>>), noUnderlay)
  IN  IF begin < 0 \/ ~ws.ok THEN [ok |-> FALSE, pkt |-> pkt]
      ELSE [ok |-> TRUE,
            pkt |-> [pkt EXCEPT !.buffer = SubSeq(@, 1, 8 * begin) \o ws.data
                                           \o SubSeq(@, 8 * pkt.endOfHeader + 1, Len(@)),
                                !.offset = begin,
                                !.size = hdrSize + payloadSize(pkt)]]
=============================================================================
