----------------------------- MODULE IpHeaders -----------------------------
(***************************************************************************)
(* Headers below and beside SCION: Ethernet, IPv4, IPv6, ICMP, ICMPv6, UDP *)
(* (include/scion/hdr/ethernet.hpp, ip.hpp, udp.hpp) and STUN (stun.hpp).  *)
(***************************************************************************)
EXTENDS ScionHeaders

(* UDP::serialize, UDP::size and UDP::checksum *)
UDP_serialize(st) ==
  Serialize(st, <<Uint16("sport"), Uint16("dport"), Uint16("len"), Uint16("chksum")>>)

UDP_size == 8

UDP_checksum(h) == U32(h.sport + h.dport + h.len + h.chksum)

(* Ethernet::serialize *)
Ethernet_serialize(st) == Serialize(st, <<Bytes("dst", 6), Bytes("src", 6), Uint16("type")>>)

(* IPv4::checksum: the pseudo header *)
IPv4_checksum(h, length) ==
  SumOf(<<IPAddress_checksum(h.src), IPAddress_checksum(h.dst), U32(h.proto), U32(length)>>)

(* IPv4::serialize: reading verifies the header checksum first, writing    *)
(* adds it in the end.                                                     *)
IPv4_serialize(st) ==
  LET pre == IF st.rd /\ ~(/\ CanLook(st, 20)
                           /\ onesComplementChecksum(Lookahead(st, 20), U32(0)) = 65535)
             THEN Fail(st) ELSE st
      a == Serialize(pre, <<Const(4, 4), Const(5, 4), Byte("tos"), Uint16("len"), Uint16("id"),
                            Bits("flags", 3), Bits("frag", 13), Byte("ttl"), Byte("proto"),
                            Local("chksum", 0, 16)>>)
      b == Check(a, ~Bit(a.h.flags, 2))
      c == IPAddress_serialize(IPAddress_serialize(b, "src", TRUE), "dst", TRUE)
  IN  IF c.ok /\ ~c.rd THEN updateChksum(c, internetChecksum(Lookback(c, 20), U32(0)), 8)
      ELSE Done(c, {"chksum"})

(* IPv6::checksum: the pseudo header *)
IPv6_checksum(h, length) ==
  SumOf(<<IPAddress_checksum(h.src), IPAddress_checksum(h.dst), U32(length), U32(h.nh)>>)

(* IPv6::serialize *)
IPv6_serialize(st) ==
  LET a == Serialize(st, <<Const(6, 4), Byte("tc"), Bits("fl", 20), Uint16("plen"), Byte("nh"),
                           Byte("hlim")>>)
  IN  IPAddress_serialize(IPAddress_serialize(a, "src", FALSE), "dst", FALSE)

(* ICMP::serialize and ICMPv6::serialize *)
ICMP_serialize(st) ==
  Serialize(st, <<Byte("type"), Byte("code"), Uint16("chksum"), Uint16("param1"),
                  Uint16("param2")>>)

ICMPv6_serialize(st) ==
  Serialize(st, <<Byte("type"), Byte("code"), Uint16("chksum"), Uint16("param1"),
                  Uint16("param2")>>)

ICMPv6_size == 8

(* ICMP::checksum and ICMPv6::checksum *)
ICMP_checksum(h) == U32(256 * h.type + h.code + h.chksum + h.param1 + h.param2)

ICMPv6_checksum(h) == U32(256 * h.type + h.code + h.chksum + h.param1 + h.param2)

-----------------------------------------------------------------------------
(* hdr/stun.hpp: h.tx is the transaction, h.ip and h.port the XOR-MAPPED-  *)
(* ADDRESS if there is one                                                 *)

magicCookie == Bin(8466, 16) \o Bin(42050, 16) \* 0x2112a442

XorMappedAddress == 32

HasMapped(h) == "ip" \in DOMAIN h

(* StunXorMappedAddress::size *)
StunXorMappedAddress_size(h) == 8 + IPAddress_size(h.ip)

(* The mask of an address: the cookie, followed by the transaction *)
XorMask(ip, tx) == IF is4(ip) THEN magicCookie ELSE magicCookie \o tx

XorPort(port) == Num(Xor(Bin(port, 16), SubSeq(magicCookie, 1, 16)))

(* StunXorMappedAddress::serialize *)
StunXorMappedAddress_serialize(st) ==
  LET h == st.h
      a == Serialize(st, <<Const(XorMappedAddress, 16),
                           Local("length", W(st, StunXorMappedAddress_size(h) - 4), 16), Skip(1),
                           Local("family", W(st, IF is4(h.ip) THEN 1 ELSE 2), 8),
                           Local("xport", W(st, XorPort(h.port)), 16)>>)
      b == Check(a, \/ a.h.family = 1 /\ a.h.length = 8
                    \/ a.h.family = 2 /\ a.h.length = 20)
      r == Serialize(b, <<IF b.h.family = 1 THEN Uint32("xip") ELSE Bytes("xip", 16)>>)
  IN  CASE ~b.ok -> b
        [] b.ok /\ b.rd ->
             IF ~r.ok THEN r
             ELSE [r EXCEPT !.h = [tx |-> h.tx, type |-> h.type, length |-> h.length,
                                   port |-> XorPort(r.h.xport),
                                   ip |-> Xor(r.h.xip, XorMask(r.h.xip, h.tx))]]
        [] OTHER -> Serialize(b, <<Const(Xor(h.ip, XorMask(h.ip, h.tx)), Len(h.ip))>>)

(* StunAttribute::serialize: at most 32 bytes, without padding *)
StunAttribute_serialize(st) ==
  LET a == Serialize(st, <<Uint16("atype"), Uint16("alen")>>)
      b == Check(a, a.h.alen <= 32)
  IN  IF b.ok THEN serializeBytes(b, "value", b.h.alen) ELSE b

(* STUN::parseAttributes: an attribute that requires comprehension is      *)
(* refused only if its type is above that of XOR-MAPPED-ADDRESS.           *)
RECURSIVE parseAttributes(_)
parseAttributes(rs) ==
  IF ~rs.ok \/ ~More(rs) THEN rs
  ELSE IF ~CanLook(rs, 2) THEN Fail(rs)
  ELSE IF Num(Lookahead(rs, 2)) = XorMappedAddress
  THEN parseAttributes(StunXorMappedAddress_serialize(rs))
  ELSE LET a == StunAttribute_serialize(rs)
       IN  IF ~a.ok \/ (a.h.atype < 32768 /\ a.h.atype > XorMappedAddress) THEN Fail(rs)
           ELSE parseAttributes([a EXCEPT !.h = rs.h])

(* STUN::size *)
STUN_size(h) == 20 + (IF HasMapped(h) THEN StunXorMappedAddress_size(h) ELSE 0)

(* STUN::serialize with emitAttributes; the attributes are parsed from a   *)
(* view, so that reading leaves the stream in front of them.               *)
STUN_serialize(st) ==
  LET a == Serialize(st, <<Uint16("type"), Local("length", W(st, STUN_size(st.h) - 20), 16),
                           Const(magicCookie, 32), Bytes("tx", 12)>>)
      p == parseAttributes([ReadStream(Lookahead(a, a.h.length)) EXCEPT !.h = a.h])
  IN  CASE ~a.ok -> a
        [] a.ok /\ a.rd -> IF ~CanLook(a, a.h.length) \/ ~p.ok THEN Fail(a)
                           ELSE Done([a EXCEPT !.h = p.h], {"length"})
        [] OTHER -> IF HasMapped(a.h) THEN StunXorMappedAddress_serialize(a) ELSE a

(* detectStun *)
detectStun(b) == Len(b) >= 160 /\ SubSeq(b, 33, 64) = magicCookie
=============================================================================
