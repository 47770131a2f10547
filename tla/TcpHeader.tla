----------------------------- MODULE TcpHeader -----------------------------
(***************************************************************************)
(* The TCP header and its options (include/scion/hdr/tcp.hpp).             *)
(*                                                                         *)
(* h.opts is a function from the options that are present (the bits of     *)
(* optMask) to their fields.  optMask and options are two members in the   *)
(* code; an option whose bit is clear has no meaning there.                *)
(***************************************************************************)
EXTENDS ScionHeaders

EndOfList == 0
NoOp      == 1
MPTCP     == 30

(* The four-bit subtype of an MPTCP option *)
Subtype(n) == Const(n, 4)

-----------------------------------------------------------------------------
(* The serialize() of each option *)

(* TcpUnknownOpt *)
TcpUnknownOpt_serialize(st) ==
  LET a == Serialize(st, <<Byte("kind"), Byte("length")>>)
  IN  IF a.ok THEN advanceBytes(a, Max({a.h.length, 2}) - 2) ELSE a

(* TcpMssOpt *)
TcpMssOpt_serialize(st) == Serialize(st, <<Const(2, 8), Const(4, 8), Uint16("mss")>>)

TcpMssOpt_checksum(o) == U32(256 * 2 + 4 + o.mss)

(* TcpWsOpt: the checksum includes the NoOp in front of it *)
TcpWsOpt_serialize(st) ==
  LET a == Serialize(st, <<Const(3, 8), Const(3, 8), Byte("wndShift")>>)
  IN  Check(a, a.h.wndShift <= 14)

TcpWsOpt_checksum(o) == U32((256 + 3) + (256 * 3 + o.wndShift))

(* TcpSAckPermOpt *)
TcpSAckPermOpt_serialize(st) == Serialize(st, <<Const(4, 8), Const(2, 8)>>)

TcpSAckPermOpt_checksum == U32(256 * 4 + 2)

(* TcpSAckOpt: each edge is 32 bits; edges is left[0], right[0], ...       *)
TcpSAckOpt_size(o) == 8 * o.blocks + 2

TcpSAckOpt_serialize(st) ==
  LET a == Serialize(st, <<Const(5, 8), Local("length", W(st, TcpSAckOpt_size(st.h)), 8)>>)
      b == Check(a, a.h.length \in {10, 18, 26})
      n == IF b.rd THEN (b.h.length - 2) \div 8 ELSE b.h.blocks
      c == Serialize(b, SubSeq(<<Uint32("left0"), Uint32("right0"), Uint32("left1"),
                                 Uint32("right1"), Uint32("left2"), Uint32("right2")>>, 1, 2 * n))
  IN  CASE ~b.ok -> b
        [] b.ok /\ b.rd -> Done([c EXCEPT !.h = ("blocks" :> n) @@ @], {"length"})
        [] OTHER -> c

TcpSAckOpt_checksum(o) ==
  LET edges == DOMAIN o \ {"blocks"}
  IN  Plus(U32(256 * 5 + TcpSAckOpt_size(o) + 257),
           FoldSet(LAMBDA f, sum : Plus(sum, checksumUint32(o[f])), U32(0), edges))

(* TcpTsOpt *)
TcpTsOpt_serialize(st) ==
  Serialize(st, <<Const(8, 8), Const(10, 8), Uint32("TSval"), Uint32("TSecr")>>)

TcpTsOpt_checksum(o) ==
  SumOf(<<U32(256 * 8 + 10), checksumUint32(o.TSval), checksumUint32(o.TSecr)>>)

(* TcpMpCapableOpt: fieldMask is the number of the fields that are present *)
MpCapableFields ==
  <<Uint64("senderKey"), Uint64("receiverKey"), Uint16("dataLevelLen"), Uint16("chksum")>>

TcpMpCapableOpt_size(o) == <<4, 12, 20, 22, 24>>[o.fieldMask + 1]

TcpMpCapableOpt_serialize(st) ==
  LET a == Serialize(st, <<Const(MPTCP, 8), Local("length", W(st, TcpMpCapableOpt_size(st.h)), 8)>>)
      b == Check(a, a.h.length \in {4, 12, 20, 22, 24})
      n == IF ~b.rd THEN b.h.fieldMask
           ELSE CHOOSE k \in 0 .. 4 : TcpMpCapableOpt_size([fieldMask |-> k]) = b.h.length
      c == Serialize(b, <<Subtype(0), Bits("version", 4), Byte("flags")>>
                        \o SubSeq(MpCapableFields, 1, n))
  IN  CASE ~b.ok -> b
        [] b.ok /\ b.rd -> Done([c EXCEPT !.h = ("fieldMask" :> n) @@ @], {"length"})
        [] OTHER -> c

TcpMpCapableOpt_checksum(o) ==
  SumOf(<<U32(256 * MPTCP + TcpMpCapableOpt_size(o)), U32(256 * o.version + o.flags),
          IF o.fieldMask >= 1 THEN checksumUint64(o.senderKey) ELSE U32(0),
          IF o.fieldMask >= 2 THEN checksumUint64(o.receiverKey) ELSE U32(0),
          IF o.fieldMask >= 3 THEN U32(o.dataLevelLen) ELSE U32(0),
          IF o.fieldMask = 4 THEN U32(o.chksum) ELSE U32(0)>>)

(* TcpMpJoinOpt: content is the form in the SYN, the SYN/ACK and the ACK *)
MpJoinContent ==
  [Syn    |-> <<Bits("flags", 4), Byte("addressId"), Uint32("receiverToken"),
                Uint32("senderRand")>>,
   SynAck |-> <<Bits("flags", 4), Byte("addressId"), Uint64("senderMac"), Uint32("senderRand")>>,
   Ack    |-> <<SkipBits(12), Bytes("senderMac", 20)>>]

TcpMpJoinOpt_size(o) == [Syn |-> 12, SynAck |-> 16, Ack |-> 24][o.content]

TcpMpJoinOpt_serialize(st) ==
  LET a == Serialize(st, <<Const(MPTCP, 8), Local("length", W(st, TcpMpJoinOpt_size(st.h)), 8)>>)
      b == Check(a, a.h.length \in {12, 16, 24})
      content == IF ~b.rd THEN b.h.content
                 ELSE CHOOSE c \in DOMAIN MpJoinContent :
                        TcpMpJoinOpt_size([content |-> c]) = b.h.length
      d == Serialize(b, <<Subtype(1)>> \o MpJoinContent[content])
  IN  CASE ~b.ok -> b
        [] b.ok /\ b.rd -> Done([d EXCEPT !.h = ("content" :> content) @@ @], {"length"})
        [] OTHER -> d

TcpMpJoinOpt_checksum(o) ==
  Plus(U32(256 * MPTCP + TcpMpJoinOpt_size(o)),
       CASE o.content = "Syn" ->
              SumOf(<<U32(4096 + 256 * o.flags + o.addressId), checksumUint32(o.receiverToken),
                      checksumUint32(o.senderRand)>>)
         [] o.content = "SynAck" ->
              SumOf(<<U32(4096 + 256 * o.flags + o.addressId), checksumUint64(o.senderMac),
                      checksumUint32(o.senderRand)>>)
         [] o.content = "Ack" -> U32(onesComplementChecksum(o.senderMac, U32(4096))))

(* TcpMpDssOpt: the flags tell which of the fields follow *)
DssACK  == 0
DssACK8 == 1
DssDSN  == 2
DssDSN8 == 3

DssFields(flags) ==
  (IF ~Bit(flags, DssACK) THEN <<>>
   ELSE <<IF Bit(flags, DssACK8) THEN Uint64("dataAck") ELSE Uint32("dataAck")>>)
  \o (IF ~Bit(flags, DssDSN) THEN <<>>
      ELSE <<IF Bit(flags, DssDSN8) THEN Uint64("dsn") ELSE Uint32("dsn"), Uint32("subflowSeq"),
             Uint16("dataLevelLen")>>)

TcpMpDssOpt_size(o) ==
  4 + (IF Bit(o.flags, DssACK) THEN (IF Bit(o.flags, DssACK8) THEN 8 ELSE 4) ELSE 0)
    + (IF Bit(o.flags, DssDSN) THEN (IF Bit(o.flags, DssDSN8) THEN 14 ELSE 10) ELSE 0)
    + (IF "chksum" \in DOMAIN o THEN 2 ELSE 0)

TcpMpDssOpt_serialize(st) ==
  LET a == Serialize(st, <<Const(MPTCP, 8), Local("length", W(st, TcpMpDssOpt_size(st.h)), 8),
                           Subtype(2), Bits("flags", 12)>>)
      b == Serialize(a, DssFields(a.h.flags))
      hasChksum == IF b.rd THEN b.h.length - TcpMpDssOpt_size([flags |-> b.h.flags]) >= 2
                   ELSE "chksum" \in DOMAIN b.h
  IN  CASE ~a.ok -> a
        [] a.ok /\ ~b.ok -> b
        [] OTHER -> Done(IF hasChksum THEN serializeUint16(b, "chksum") ELSE b, {"length"})

TcpMpDssOpt_checksum(o) ==
  SumOf(<<U32(256 * MPTCP + TcpMpDssOpt_size(o)), U32(2 * 4096 + o.flags),
          IF Bit(o.flags, DssACK) THEN WordSum(o.dataAck) ELSE U32(0),
          IF Bit(o.flags, DssDSN)
          THEN SumOf(<<WordSum(o.dsn), checksumUint32(o.subflowSeq), U32(o.dataLevelLen)>>)
          ELSE U32(0),
          IF "chksum" \in DOMAIN o THEN U32(o.chksum) ELSE U32(0)>>)

(* TcpMpAddAddrOpt: flag 0 is Echo.  The port is read in front of the      *)
(* address but written behind it.                                          *)
Echo(o) == Bit(o.flags, 0)

TcpMpAddAddrOpt_size(o) ==
  4 + IPAddress_size(o.address) + (IF "port" \in DOMAIN o THEN 2 ELSE 0)
    + (IF Echo(o) THEN 0 ELSE 8)

TcpMpAddAddrOpt_serialize(st) ==
  LET a == Serialize(st, <<Const(MPTCP, 8), Local("length", W(st, TcpMpAddAddrOpt_size(st.h)), 8),
                           Subtype(3), Bits("flags", 4), Byte("addressId")>>)
      n == a.h.length - 4 - (IF Echo(a.h) THEN 0 ELSE 8)
      readAddr  == IPAddress_serialize(IF n \in {6, 18} THEN Serialize(a, <<Uint16("port")>>)
                                       ELSE a, "address", n \in {4, 6})
      writeAddr == Serialize(IPAddress_serialize(a, "address", is4(a.h.address)),
                             IF "port" \in DOMAIN a.h THEN <<Uint16("port")>> ELSE <<>>)
  IN  IF ~a.ok THEN a
      ELSE Done(Serialize(IF a.rd THEN readAddr ELSE writeAddr,
                          IF Echo(a.h) THEN <<>> ELSE <<Uint64("mac")>>), {"length"})

TcpMpAddAddrOpt_checksum(o) ==
  SumOf(<<U32(256 * MPTCP + TcpMpAddAddrOpt_size(o)), U32(3 * 4096 + 256 * o.flags + o.addressId),
          IPAddress_checksum(o.address),
          IF "port" \in DOMAIN o THEN U32(o.port) ELSE U32(0),
          IF Echo(o) THEN U32(0) ELSE checksumUint64(o.mac)>>)

(* TcpMpRemAddrOpt: ids is the sequence of the address IDs, as bits *)
RemCount(o) == Len(o.ids) \div 8

TcpMpRemAddrOpt_size(o) == 3 + RemCount(o)

TcpMpRemAddrOpt_serialize(st) ==
  LET a == Serialize(st, <<Const(MPTCP, 8), Local("length", W(st, TcpMpRemAddrOpt_size(st.h)), 8),
                           Subtype(4), SkipBits(4)>>)
      b == Check(a, a.h.length >= 4 /\ a.h.length - 3 <= 8)
      n == IF b.rd THEN b.h.length - 3 ELSE RemCount(b.h)
  IN  CASE ~b.ok -> b
        [] b.ok /\ b.rd ->
             IF Left(b) < 8 * n THEN Fail(b)
             ELSE Done([b EXCEPT !.pos = @ + 8 * n, !.h = ("ids" :> Lookahead(b, n)) @@ @],
                       {"length"})
        [] OTHER -> Serialize(b, <<Const(Num(SubSeq(b.h.ids, 1, 8)), 8)>>
                                 \o [i \in 1 .. n - 1 |->
                                       Const(Num(SubSeq(b.h.ids, 8 * i + 1, 8 * i + 8)), 8)])

(* Fault: the option is taken to be aligned whatever its length. *)
RemAddrAligned(o) ==
  LET id(i) == Num(SubSeq(o.ids, 8 * i + 1, 8 * i + 8))
  IN  SumOf(<<U32(256 * MPTCP + TcpMpRemAddrOpt_size(o)), U32(4 * 4096)>>
            \o [i \in 1 .. RemCount(o) |-> U32(id(i - 1) * (IF i % 2 = 0 THEN 256 ELSE 1))])

TcpMpRemAddrOpt_checksum(o) ==
  LET n     == RemCount(o)
      id(i) == Num(SubSeq(o.ids, 8 * i + 1, 8 * i + 8))
  IN  IF n % 2 = 1
      THEN SumOf(<<U32(256 * MPTCP + TcpMpRemAddrOpt_size(o)), U32(4 * 4096)>>
                 \o [i \in 1 .. n |-> U32(id(i - 1) * (IF i % 2 = 0 THEN 256 ELSE 1))])
      ELSE SumOf(<<U32(256 + MPTCP), U32(256 * TcpMpRemAddrOpt_size(o) + 4 * 16)>>
                 \o [i \in 1 .. n |-> U32(id(i - 1) * (IF i % 2 = 1 THEN 256 ELSE 1))])

(* TcpMpPrioOpt: the checksum includes the NoOp in front of it *)
TcpMpPrioOpt_serialize(st) ==
  LET a == Serialize(st, <<Const(MPTCP, 8), Const(3, 8), Subtype(5), Bits("backup", 4)>>)
  IN  IF a.ok /\ a.rd THEN [a EXCEPT !.h.backup = @ % 2] ELSE a

TcpMpPrioOpt_checksum(o) == U32((256 + MPTCP) + (256 * 3 + 16 * 5 + o.backup))

(* TcpMpFailOpt *)
TcpMpFailOpt_serialize(st) ==
  Serialize(st, <<Const(MPTCP, 8), Const(12, 8), Subtype(6), SkipBits(12), Uint64("dsn")>>)

TcpMpFailOpt_checksum(o) ==
  SumOf(<<U32(256 * MPTCP + 12), U32(6 * 4096), checksumUint64(o.dsn)>>)

(* TcpMpCloseOpt *)
TcpMpCloseOpt_serialize(st) ==
  Serialize(st, <<Const(MPTCP, 8), Const(12, 8), Subtype(7), SkipBits(12), Uint64("receiverKey")>>)

TcpMpCloseOpt_checksum(o) ==
  SumOf(<<U32(256 * MPTCP + 12), U32(7 * 4096), checksumUint64(o.receiverKey)>>)

(* TcpMpRstOpt *)
TcpMpRstOpt_serialize(st) ==
  Serialize(st, <<Const(MPTCP, 8), Const(4, 8), Subtype(8), Bits("flags", 4), Byte("reason")>>)

TcpMpRstOpt_checksum(o) == U32((256 * MPTCP + 4) + (8 * 4096 + 256 * o.flags + o.reason))

-----------------------------------------------------------------------------
(* The options of a header, in the order of emitOpts() *)

OptOrder ==
  <<"MSS", "SAckPerm", "SAck", "TS", "WS", "MpCapable", "MpJoin", "MpDss", "MpAddAddr",
    "MpRemAddr", "MpPrio", "MpFail", "MpClose", "MpRst">>

OptSerialize(name, st) ==
  CASE name = "MSS"       -> TcpMssOpt_serialize(st)
    [] name = "SAckPerm"  -> TcpSAckPermOpt_serialize(st)
    [] name = "SAck"      -> TcpSAckOpt_serialize(st)
    [] name = "TS"        -> TcpTsOpt_serialize(st)
    [] name = "WS"        -> TcpWsOpt_serialize(st)
    [] name = "MpCapable" -> TcpMpCapableOpt_serialize(st)
    [] name = "MpJoin"    -> TcpMpJoinOpt_serialize(st)
    [] name = "MpDss"     -> TcpMpDssOpt_serialize(st)
    [] name = "MpAddAddr" -> TcpMpAddAddrOpt_serialize(st)
    [] name = "MpRemAddr" -> TcpMpRemAddrOpt_serialize(st)
    [] name = "MpPrio"    -> TcpMpPrioOpt_serialize(st)
    [] name = "MpFail"    -> TcpMpFailOpt_serialize(st)
    [] name = "MpClose"   -> TcpMpCloseOpt_serialize(st)
    [] name = "MpRst"     -> TcpMpRstOpt_serialize(st)

OptSize(name, o) ==
  CASE name = "MSS"       -> 4
    [] name = "SAckPerm"  -> 2
    [] name = "SAck"      -> TcpSAckOpt_size(o)
    [] name = "TS"        -> 10
    [] name = "WS"        -> 3
    [] name = "MpCapable" -> TcpMpCapableOpt_size(o)
    [] name = "MpJoin"    -> TcpMpJoinOpt_size(o)
    [] name = "MpDss"     -> TcpMpDssOpt_size(o)
    [] name = "MpAddAddr" -> TcpMpAddAddrOpt_size(o)
    [] name = "MpRemAddr" -> TcpMpRemAddrOpt_size(o)
    [] name = "MpPrio"    -> 3
    [] name \in {"MpFail", "MpClose"} -> 12
    [] name = "MpRst"     -> 4

OptChecksum(name, o) ==
  CASE name = "MSS"       -> TcpMssOpt_checksum(o)
    [] name = "SAckPerm"  -> TcpSAckPermOpt_checksum
    [] name = "SAck"      -> TcpSAckOpt_checksum(o)
    [] name = "TS"        -> TcpTsOpt_checksum(o)
    [] name = "WS"        -> TcpWsOpt_checksum(o)
    [] name = "MpCapable" -> TcpMpCapableOpt_checksum(o)
    [] name = "MpJoin"    -> TcpMpJoinOpt_checksum(o)
    [] name = "MpDss"     -> TcpMpDssOpt_checksum(o)
    [] name = "MpAddAddr" -> TcpMpAddAddrOpt_checksum(o)
    [] name = "MpRemAddr" -> TcpMpRemAddrOpt_checksum(o)
    [] name = "MpPrio"    -> TcpMpPrioOpt_checksum(o)
    [] name = "MpFail"    -> TcpMpFailOpt_checksum(o)
    [] name = "MpClose"   -> TcpMpCloseOpt_checksum(o)
    [] name = "MpRst"     -> TcpMpRstOpt_checksum(o)

Present(opts) == SelectSeq(OptOrder, LAMBDA name : name \in DOMAIN opts)

(* Length of the options in front of the timestamps, NoOps included *)
LenBeforeTS(opts) ==
  (IF "MSS" \in DOMAIN opts THEN 4 ELSE 0) + (IF "SAckPerm" \in DOMAIN opts THEN 2 ELSE 0)
  + (IF "SAck" \in DOMAIN opts THEN TcpSAckOpt_size(opts["SAck"]) + 2 ELSE 0)

(* The NoOps in front of an option *)
NoOps(name, opts) ==
  CASE name = "SAck" -> 2
    [] name = "TS" -> IF LenBeforeTS(opts) % 4 = 2 THEN 0 ELSE 2
    [] name \in {"WS", "MpPrio"} -> 1
    [] name = "MpRemAddr" -> TcpMpRemAddrOpt_size(opts[name]) % 2
    [] OTHER -> 0

SizeOfOpts(names, opts) ==
  FoldLeft(LAMBDA len, name : len + NoOps(name, opts) + OptSize(name, opts[name]), 0, names)

(* TCP::measureOpts *)
measureOpts(opts) == 4 * ((SizeOfOpts(Present(opts), opts) + 3) \div 4)

IsPlain(name) == name \in {"MSS", "SAckPerm", "SAck", "TS", "WS"}

(* TCP::emitOpts: the length that decides on the padding in the end leaves *)
(* the MPTCP options out.                                                  *)
emitOpts(ws) ==
  LET opts == ws.h.opts
      emit(s, name) ==
        LET n == Serialize(s, [i \in 1 .. NoOps(name, opts) |-> Const(NoOp, 8)])
        IN  IF ~n.ok THEN n
            ELSE [OptSerialize(name, [n EXCEPT !.h = opts[name]]) EXCEPT !.h = ws.h]
      a   == FoldLeft(emit, ws, Present(opts))
      len == SizeOfOpts(SelectSeq(Present(opts), IsPlain), opts)
  IN  IF a.ok /\ Bit(len, 1) THEN advanceBytes(a, 4 - (len % 4)) ELSE a

(* TCP::checksumOpts: except in front of TS, the NoOps are counted by the  *)
(* checksum of the option that follows.                                    *)
checksumOpts(opts) ==
  FoldLeft(LAMBDA sum, name :
             SumOf(<<sum, OptChecksum(name, opts[name]),
                     IF name = "TS" /\ NoOps(name, opts) = 2 THEN U32(257) ELSE U32(0)>>),
           U32(0), Present(opts))

(* The option that parseOpts() finds at the read position, from its kind   *)
(* and, for MPTCP, its subtype                                             *)
OptAt(rs) ==
  LET kind    == Num(Lookahead(rs, 1))
      subtype == Num(SubSeq(Lookahead(rs, 3), 17, 20))
      plain   == 2 :> "MSS" @@ 3 :> "WS" @@ 4 :> "SAckPerm" @@ 5 :> "SAck" @@ 8 :> "TS"
      mptcp   == <<"MpCapable", "MpJoin", "MpDss", "MpAddAddr", "MpRemAddr", "MpPrio", "MpFail",
                   "MpClose", "MpRst">>
  IN  CASE kind = EndOfList -> "EndOfList"
        [] kind = NoOp -> "NoOp"
        [] kind \in DOMAIN plain -> plain[kind]
        [] kind = MPTCP -> IF CanLook(rs, 3) /\ subtype <= 8 THEN mptcp[subtype + 1] ELSE "Invalid"
        [] OTHER -> "Unknown"

(* TCP::parseOpts; rs.h holds the options read so far *)
RECURSIVE parseOpts(_)
parseOpts(rs) ==
  IF ~rs.ok \/ ~More(rs) THEN rs
  ELSE LET name == OptAt(rs)
           o    == OptSerialize(name, [rs EXCEPT !.h = <<>>])
           u    == TcpUnknownOpt_serialize([rs EXCEPT !.h = <<>>])
       IN  CASE name = "EndOfList" -> advanceBytes(rs, 1)
             [] name = "NoOp" -> parseOpts(advanceBytes(rs, 1))
             [] name = "Invalid" -> Fail(rs)
             [] name = "Unknown" -> parseOpts([u EXCEPT !.h = rs.h])
             [] OTHER -> IF ~o.ok THEN Fail(rs)
                         ELSE parseOpts([o EXCEPT !.h = (name :> o.h) @@ rs.h])

(* TCP::size *)
TCP_size(h) == 20 + measureOpts(h.opts)

(* TCP::checksum *)
TCP_checksum(h) ==
  SumOf(<<U32(h.sport + h.dport), checksumUint32(h.seq), checksumUint32(h.ack),
          U32(4096 * (TCP_size(h) \div 4) + h.flags), U32(h.window + h.chksum + h.urgptr),
          checksumOpts(h.opts)>>)

(* TCP::serialize *)
TCP_serialize(st) ==
  LET a == Serialize(st, <<Uint16("sport"), Uint16("dport"), Uint32("seq"), Uint32("ack"),
                           Local("dataOffset", W(st, TCP_size(st.h) \div 4), 4), SkipBits(4),
                           Byte("flags"), Uint16("window"), Uint16("chksum"), Uint16("urgptr")>>)
      b == Check(a, a.h.dataOffset >= 5)
      n == 4 * (b.h.dataOffset - 5)
      p == parseOpts(ReadStream(Lookahead(b, n)))
  IN  CASE ~b.ok -> b
        [] b.ok /\ b.rd -> IF ~CanLook(b, n) \/ ~p.ok THEN Fail(b)
                           ELSE Done([advanceBytes(b, n) EXCEPT !.h = ("opts" :> p.h) @@ @],
                                     {"dataOffset"})
        [] OTHER -> emitOpts(b)
=============================================================================
