--------------------------- MODULE ScionHeaders ---------------------------
(***************************************************************************)
(* SCION headers (include/scion/hdr/scion.hpp): common and address header, *)
(* path meta header, info and hop fields, extension headers and options;   *)
(* the ID-INT options (hdr/idint.hpp) and the extension that is built from *)
(* them (extensions/extension.hpp, extensions/idint.hpp).                  *)
(***************************************************************************)
EXTENDS Checksum

(* The value of a local variable, needed only when writing. *)
W(st, v) == IF st.rd THEN 0 ELSE v

Bit(n, i) == (n \div 2 ^ i) % 2 = 1

-----------------------------------------------------------------------------
(* Addresses: an ISD-ASN is 64 bits, an IP address 32 or 128 bits *)

is4(ip) == Len(ip) = 32

IPAddress_size(ip) == IF is4(ip) THEN 4 ELSE 16

(* generic::IPAddress::checksum *)
IPAddress_checksum(ip) == WordSum(ip)

(* generic::IPAddress::serialize *)
IPAddress_serialize(st, f, v4) ==
  CASE ~st.ok -> st
    [] st.ok /\ ~st.rd /\ v4 # is4(st.h[f]) -> Fail(st)
    [] OTHER -> Serialize(st, <<IF v4 THEN Uint32(f) ELSE Bytes(f, 16)>>)

(* IsdAsn::checksum: the sum of the two 32-bit halves, not of 16-bit words *)
IsdAsn_checksum(ia) ==
  Plus(<<Num(SubSeq(ia, 1, 16)), Num(SubSeq(ia, 17, 32))>>,
       <<Num(SubSeq(ia, 33, 48)), Num(SubSeq(ia, 49, 64))>>)

(* IsdAsn::serialize and AsInterface::serialize *)
IsdAsn(f) == Uint64(f)

AsInterface(f) == Uint64(f)

(* AsInterface::checksum *)
AsInterface_checksum(ifid) == checksumUint64(ifid)

(* Address::checksum *)
Address_checksum(ia, host) == Plus(IsdAsn_checksum(ia), IPAddress_checksum(host))

(* AddressTraits<generic::IPAddress>::type *)
HostIPv4 == 0
HostIPv6 == 3
HostAddrType(ip) == IF is4(ip) THEN HostIPv4 ELSE HostIPv6

-----------------------------------------------------------------------------
(* hdr/scion.hpp *)

(* SCION::size *)
SCION_size(h) == 12 + 8 + IPAddress_size(h.dstHost) + 8 + IPAddress_size(h.srcHost)

(* SCION::pathSize *)
SCION_pathSize(h) == 4 * h.hlen - SCION_size(h)

(* SCION::checksum: the pseudo header *)
SCION_checksum(h, length, nh) ==
  SumOf(<<Address_checksum(h.dst, h.dstHost), Address_checksum(h.src, h.srcHost),
          U32(length), U32(nh)>>)

(* SCION::serialize *)
SCION_serialize(st) ==
  LET a == Serialize(st, <<Const(0, 4), Byte("qos"), Bits("fl", 20), Byte("nh"), Byte("hlen"),
                           Uint16("plen"), Byte("ptype"),
                           Local("dstType", W(st, HostAddrType(st.h.dstHost)), 4),
                           Local("srcType", W(st, HostAddrType(st.h.srcHost)), 4)>>)
      b == Check(a, /\ a.h.hlen >= 9
                    /\ a.h.dstType \in {HostIPv4, HostIPv6}
                    /\ a.h.srcType \in {HostIPv4, HostIPv6})
      c == Serialize(b, <<Skip(2), IsdAsn("dst"), IsdAsn("src")>>)
      d == IPAddress_serialize(c, "dstHost", IF c.rd THEN c.h.dstType = HostIPv4
                                             ELSE is4(c.h.dstHost))
      e == IPAddress_serialize(d, "srcHost", IF d.rd THEN d.h.srcType = HostIPv4
                                             ELSE is4(d.h.srcHost))
  IN  Done(e, {"dstType", "srcType"})

(* PathMeta::segmentCount *)
segmentCount(h) == Cardinality({f \in {"seg0", "seg1", "seg2"} : h[f] > 0})

(* PathMeta::hopFieldCount *)
hopFieldCount(h) == h.seg0 + h.seg1 + h.seg2

(* PathMeta::serialize *)
PathMeta_serialize(st) ==
  LET a == Serialize(st, <<Bits("currInf", 2), Bits("currHf", 6), SkipBits(6),
                           Bits("seg0", 6), Bits("seg1", 6), Bits("seg2", 6)>>)
  IN  Check(a, /\ ~(a.h.seg2 > 0 /\ a.h.seg1 = 0)
               /\ ~(a.h.seg1 > 0 /\ a.h.seg0 = 0)
               /\ a.h.currInf < segmentCount(a.h)
               /\ a.h.currHf < hopFieldCount(a.h))

(* InfoField::serialize *)
InfoField_serialize(st) ==
  Serialize(st, <<Byte("flags"), Skip(1), Uint16("segid"), Uint32("timestamp")>>)

(* HopField::serialize *)
HopField_serialize(st) ==
  Serialize(st, <<Byte("flags"), Byte("expTime"), Uint16("consIngress"),
                  Uint16("consEgress"), Bytes("mac", 6)>>)

(* HopByHopOpts::serialize *)
HopByHopOpts_serialize(st) == Serialize(st, <<Byte("nh"), Byte("extLen")>>)

(* EndToEndOpts::serialize *)
EndToEndOpts_serialize(st) == Serialize(st, <<Byte("nh"), Byte("extLen")>>)

(* HopByHopOpts::optionSize and EndToEndOpts::optionSize *)
optionSize(h) == 4 * h.extLen + 2

Pad1 == 0
PadN == 1

(* SciOpt::size and SciOpt::serialize *)
SciOpt_size(h) == IF h.type = Pad1 THEN 1 ELSE 2 + h.dataLen

SciOpt_serialize(st) ==
  LET a == Serialize(st, <<Byte("type")>>)
      b == Serialize(a, <<Byte("dataLen")>>)
  IN  IF ~a.ok \/ a.h.type = Pad1 THEN a
      ELSE IF b.ok THEN advanceBytes(b, b.h.dataLen) ELSE b

(* AuthenticatorOpt: the authenticator has dataLen - 12 bytes, at most 36 *)
AuthenticatorOpt_serialize(st) ==
  LET a == Serialize(st, <<Const(2, 8), Byte("dataLen")>>)
      b == Check(a, a.h.dataLen >= 12 /\ a.h.dataLen - 12 <= 36)
      c == Serialize(b, <<Uint32("spi"), Byte("algorithm"), Skip(1), Bits("timestamp", 48)>>)
  IN  IF c.ok THEN serializeBytes(c, "authenticator", c.h.dataLen - 12) ELSE c

-----------------------------------------------------------------------------
(* hdr/idint.hpp *)

ThirdParty == 0

(* IdIntOpt::size *)
IdIntOpt_size(h) ==
  22 + (IF h.vtype = ThirdParty THEN 8 + IPAddress_size(h.verifierHost) ELSE 0)

(* IdIntOpt::serialize *)
IdIntOpt_serialize(st) ==
  LET a == Serialize(st, <<Const(253, 8), Byte("dataLen"), Const(0, 3), Bits("flags", 5),
                           Bits("agrMode", 2), Bits("vtype", 2),
                           Local("verifAddrType",
                                 W(st, IF st.h.vtype = ThirdParty
                                       THEN HostAddrType(st.h.verifierHost) ELSE HostIPv4), 4),
                           Byte("stackLen"), Byte("tos"), Bits("delayHops", 6), SkipBits(10),
                           Bits("bitmap", 4), Bits("func0", 3), Bits("func1", 3),
                           Bits("func2", 3), Bits("func3", 3), Byte("instr0"), Byte("instr1"),
                           Byte("instr2"), Byte("instr3"), Bits("sourceTS", 48),
                           Uint16("sourcePort")>>)
      b == Check(a, a.h.dataLen >= 22 /\ ~Bit(a.h.flags, 0))
      c == Serialize(b, <<IsdAsn("verifier")>>)
      d == IPAddress_serialize(c, "verifierHost", IF c.rd THEN c.h.verifAddrType = HostIPv4
                                                  ELSE is4(c.h.verifierHost))
  IN  Done(IF ~b.ok \/ b.h.vtype # ThirdParty THEN b ELSE d, {"verifAddrType"})

(* IdIntEntry::mdSize: the metadata with its padding *)
mdSize(h) ==
  LET size == (IF Bit(h.mask, 3) THEN 4 ELSE 0) + (IF Bit(h.mask, 2) THEN 2 ELSE 0)
              + (IF Bit(h.mask, 1) THEN 2 ELSE 0) + (IF Bit(h.mask, 0) THEN 2 ELSE 0)
              + Min({2 * h.ml0, 8}) + Min({2 * h.ml1, 8})
              + Min({2 * h.ml2, 8}) + Min({2 * h.ml3, 8})
  IN  size + ((-(size + 2)) % 4)

(* IdIntEntry::size *)
IdIntEntry_size(h) == 10 + mdSize(h) + (IF Bit(h.flags, 0) THEN 12 ELSE 0)

(* IdIntEntry::serialize *)
IdIntEntry_serialize(st) ==
  LET a == Serialize(st, <<Const(254, 8), Byte("dataLen"), Bits("flags", 5), SkipBits(3),
                           Bits("hop", 6), SkipBits(2), Bits("mask", 4), Bits("ml0", 3),
                           Bits("ml1", 3), Bits("ml2", 3), Bits("ml3", 3)>>)
      b == Check(a, /\ a.h.dataLen >= 12
                    /\ \A l \in {a.h.ml0, a.h.ml1, a.h.ml2, a.h.ml3} : l <= 4)
  IN  IF ~b.ok THEN b
      ELSE Serialize(b, (IF Bit(b.h.flags, 0) THEN <<Bytes("nonce", 12)>> ELSE <<>>)
                        \o <<Bytes("metadata", Min({mdSize(b.h), 44})), Bytes("mac", 4)>>)

-----------------------------------------------------------------------------
(* extensions/extension.hpp *)

(* Extension::padding *)
padding(n, align, offset) == (-(n + offset)) % align

(* Extension::insertPadding: one Pad1 or one PadN option *)
insertPadding(st, n) ==
  IF ~st.ok \/ n = 0 THEN st
  ELSE LET opt == IF n = 1 THEN [type |-> Pad1, dataLen |-> 1]
                  ELSE [type |-> PadN, dataLen |-> n - 2]
       IN  [SciOpt_serialize([st EXCEPT !.h = opt]) EXCEPT !.h = st.h]

(* Applies serialize to a header of its own: fields g of the stream's      *)
(* header are the nested header.                                           *)
Nested(st, g, serialize(_)) ==
  LET r == serialize([st EXCEPT !.h = IF st.rd THEN <<>> ELSE st.h[g]])
  IN  [r EXCEPT !.h = IF st.rd THEN (g :> r.h) @@ st.h ELSE st.h]

(* ext::IdInt::size *)
IdInt_size(h, pos) == padding(pos, 4, 2) + IdIntOpt_size(h.main) + 4 * h.main.stackLen

(* ext::IdInt::serialize, writing: main option, entries, padding *)
IdInt_write(st, pos) ==
  LET a == Nested(insertPadding(st, padding(pos, 4, 2)), "main", IdIntOpt_serialize)
      b == FoldLeft(LAMBDA s, e :
                      IF ~s.ok THEN s
                      ELSE [IdIntEntry_serialize([s EXCEPT !.h = e]) EXCEPT !.h = st.h],
                    a, st.h.entries)
      pad == 4 * st.h.main.stackLen - (b.pos - a.pos) \div 8
  IN  IF ~b.ok \/ pad < 0 THEN Fail(b) ELSE insertPadding(b, pad)

(* The loop over the telemetry stack: entries and PadN options. *)
RECURSIVE IdInt_stack(_, _)
IdInt_stack(rs, entries) ==
  IF ~More(rs) THEN [rs EXCEPT !.h = entries]
  ELSE LET type == Num(Lookahead(rs, 1))
           e    == IdIntEntry_serialize([rs EXCEPT !.h = <<>>])
           p    == SciOpt_serialize([rs EXCEPT !.h = <<>>])
       IN  CASE type = 254 -> IF e.ok THEN IdInt_stack(e, Append(entries, e.h)) ELSE Fail(rs)
             [] type = PadN -> IF p.ok THEN IdInt_stack(p, entries) ELSE Fail(rs)
             [] OTHER -> Fail(rs)

(* ext::IdInt::serialize, reading *)
IdInt_parse(st) ==
  LET a == Nested(st, "main", IdIntOpt_serialize)
      n == 4 * a.h.main.stackLen
      s == IdInt_stack(ReadStream(Lookahead(a, n)), <<>>)
  IN  IF ~a.ok \/ ~CanLook(a, n) \/ ~s.ok THEN Fail(a)
      ELSE [advanceBytes(a, n) EXCEPT !.h = ("entries" :> s.h) @@ @]

(* parseExtensions with ID-INT as the only extension: other options are    *)
(* skipped.  The error of a truncated option is not returned: the loop     *)
(* goes on behind the bytes that could be read.                            *)
RECURSIVE parseExtensions(_)
parseExtensions(rs) ==
  IF ~rs.ok \/ ~More(rs) THEN rs
  ELSE LET o == SciOpt_serialize([rs EXCEPT !.h = <<>>])
       IN  IF Num(Lookahead(rs, 1)) = 253 THEN parseExtensions(IdInt_parse(rs))
           ELSE parseExtensions([o EXCEPT !.ok = TRUE, !.h = rs.h])
=============================================================================
