---------------------------- MODULE ScmpHeader ----------------------------
(* SCMP messages (include/scion/hdr/scmp.hpp). *)
EXTENDS ScionHeaders

DstUnreach   == 1
PacketTooBig == 2
ParamProblem == 4
ExtIfDown    == 5
IntConnDown  == 6
EchoRequest  == 128
EchoReply    == 129
TraceRequest == 130
TraceReply   == 131

(* The serialize() of each message class *)
ScmpDstUnreach   == <<Skip(4)>>
ScmpPacketTooBig == <<Skip(2), Uint16("mtu")>>
ScmpParamProblem == <<Skip(2), Uint16("pointer")>>
ScmpExtIfDown    == <<IsdAsn("sender"), AsInterface("iface")>>
ScmpIntConnDown  == <<IsdAsn("sender"), AsInterface("ingress"), AsInterface("egress")>>
ScmpEchoRequest  == <<Uint16("id"), Uint16("seq")>>
ScmpEchoReply    == <<Uint16("id"), Uint16("seq")>>
ScmpTraceRequest == <<Uint16("id"), Uint16("seq"), Skip(16)>>
ScmpTraceReply   == <<Uint16("id"), Uint16("seq"), IsdAsn("sender"), AsInterface("iface")>>

(* ScmpMessage: the alternatives of the variant, by their type *)
ScmpMessage ==
  DstUnreach :> ScmpDstUnreach @@ PacketTooBig :> ScmpPacketTooBig
  @@ ParamProblem :> ScmpParamProblem @@ ExtIfDown :> ScmpExtIfDown
  @@ IntConnDown :> ScmpIntConnDown @@ EchoRequest :> ScmpEchoRequest
  @@ EchoReply :> ScmpEchoReply @@ TraceRequest :> ScmpTraceRequest
  @@ TraceReply :> ScmpTraceReply

(* The messages whose class has a code of its own: the others are read     *)
(* with code 0, whatever the packet says.                                  *)
HasCode == {DstUnreach, ParamProblem}

(* SCMP::size *)
SCMP_size(h) ==
  4 + (CASE h.type \in {DstUnreach, PacketTooBig, ParamProblem, EchoRequest, EchoReply} -> 4
         [] h.type = ExtIfDown -> 16
         [] h.type = IntConnDown -> 24
         [] h.type \in {TraceRequest, TraceReply} -> 20
         [] OTHER -> 0)

(* ScmpTraceReply::checksum *)
ScmpTraceReply_checksum(h) ==
  SumOf(<<U32(256 * h.type + h.code), U32(h.id), U32(h.seq), IsdAsn_checksum(h.sender),
          AsInterface_checksum(h.iface)>>)

(* The checksum() of the message classes and SCMP::checksum *)
ScmpMessage_checksum(h) ==
  Plus(U32(256 * h.type + h.code),
       CASE h.type = PacketTooBig -> U32(h.mtu)
         [] h.type = ParamProblem -> U32(h.pointer)
         [] h.type = ExtIfDown ->
              Plus(IsdAsn_checksum(h.sender), AsInterface_checksum(h.iface))
         [] h.type = IntConnDown ->
              SumOf(<<IsdAsn_checksum(h.sender), AsInterface_checksum(h.ingress),
                      AsInterface_checksum(h.egress)>>)
         [] h.type \in {EchoRequest, EchoReply, TraceRequest} -> U32(h.id + h.seq)
         [] OTHER -> U32(0))

SCMP_checksum(h) ==
  Plus(U32(h.chksum),
       IF h.type = TraceReply THEN ScmpTraceReply_checksum(h) ELSE ScmpMessage_checksum(h))

(* SCMP::serialize: an unknown error message is accepted without its body, *)
(* an unknown informational message is refused, and neither can be written *)
SCMP_serialize(st) ==
  LET a == Serialize(st, <<Byte("type"), Byte("code"), Uint16("chksum")>>)
      b == IF a.ok /\ a.rd /\ a.h.type \in DOMAIN ScmpMessage \ HasCode
           THEN [a EXCEPT !.h.code = 0] ELSE a
  IN  CASE ~b.ok -> b
        [] b.ok /\ b.h.type \in DOMAIN ScmpMessage -> Serialize(b, ScmpMessage[b.h.type])
        [] OTHER -> IF b.rd /\ b.h.type < 128 THEN b ELSE Fail(b)
=============================================================================
