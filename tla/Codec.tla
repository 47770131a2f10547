------------------------------- MODULE Codec -------------------------------
(***************************************************************************)
(* All headers under one name: what is written for a header, how long it   *)
(* is and what its checksum() returns.                                     *)
(***************************************************************************)
EXTENDS ScmpHeader, IpHeaders, TcpHeader

(* The serialize() of every header class *)
HeaderSerialize(k, st) ==
  CASE k = "SCION"            -> SCION_serialize(st)
    [] k = "PathMeta"         -> PathMeta_serialize(st)
    [] k = "InfoField"        -> InfoField_serialize(st)
    [] k = "HopField"         -> HopField_serialize(st)
    [] k = "HopByHopOpts"     -> HopByHopOpts_serialize(st)
    [] k = "EndToEndOpts"     -> EndToEndOpts_serialize(st)
    [] k = "SciOpt"           -> SciOpt_serialize(st)
    [] k = "AuthenticatorOpt" -> AuthenticatorOpt_serialize(st)
    [] k = "IdIntOpt"         -> IdIntOpt_serialize(st)
    [] k = "IdIntEntry"       -> IdIntEntry_serialize(st)
    [] k = "IdInt"            -> IF st.rd THEN parseExtensions(st) ELSE IdInt_write(st, 2)
    [] k = "SCMP"             -> SCMP_serialize(st)
    [] k = "UDP"              -> UDP_serialize(st)
    [] k = "Ethernet"         -> Ethernet_serialize(st)
    [] k = "IPv4"             -> IPv4_serialize(st)
    [] k = "IPv6"             -> IPv6_serialize(st)
    [] k = "ICMP"             -> ICMP_serialize(st)
    [] k = "ICMPv6"           -> ICMPv6_serialize(st)
    [] k = "STUN"             -> STUN_serialize(st)
    [] k = "TCP"              -> TCP_serialize(st)

(* The size() of every header class *)
HeaderSize(k, h) ==
  CASE k = "SCION"            -> SCION_size(h)
    [] k = "PathMeta"         -> 4
    [] k = "InfoField"        -> 8
    [] k = "HopField"         -> 12
    [] k \in {"HopByHopOpts", "EndToEndOpts"} -> 2
    [] k = "SciOpt"           -> SciOpt_size(h)
    [] k = "AuthenticatorOpt" -> 2 + h.dataLen
    [] k = "IdIntOpt"         -> IdIntOpt_size(h)
    [] k = "IdIntEntry"       -> IdIntEntry_size(h)
    [] k = "IdInt"            -> IdInt_size(h, 2)
    [] k = "SCMP"             -> SCMP_size(h)
    [] k = "UDP"              -> UDP_size
    [] k = "Ethernet"         -> 14
    [] k = "IPv4"             -> 20
    [] k = "IPv6"             -> 40
    [] k = "ICMP"             -> 8
    [] k = "ICMPv6"           -> ICMPv6_size
    [] k = "STUN"             -> STUN_size(h)
    [] k = "TCP"              -> TCP_size(h)

(* The checksum() of the headers that have one over their own fields *)
HasChecksum == {"SCMP", "UDP", "ICMP", "ICMPv6", "TCP"}

HeaderChecksum(k, h) ==
  CASE k = "SCMP"   -> SCMP_checksum(h)
    [] k = "UDP"    -> UDP_checksum(h)
    [] k = "ICMP"   -> ICMP_checksum(h)
    [] k = "ICMPv6" -> ICMPv6_checksum(h)
    [] k = "TCP"    -> TCP_checksum(h)

-----------------------------------------------------------------------------
(* Sample headers: field values of zeros, of ones and of mixed bits *)

Patterns == 0 .. 2

Pat(w, p) == [i \in 1 .. w |-> IF p < 2 THEN p ELSE (i * i + (i \div 3)) % 2]

V(w, p) == Decode(Pat(w, p))

(* 1-64496, 4094-2:ffff:ffff, 71-2:0:3b *)
IA(p) ==
  <<Bin(1, 16) \o Zeros(32) \o Bin(64496, 16),
    Bin(4094, 16) \o Bin(2, 16) \o Ones(32),
    Bin(71, 16) \o Bin(2, 16) \o Bin(0, 16) \o Bin(59, 16)>>[p + 1]

Host(p) == IF p = 0 THEN Pat(32, 2) ELSE Pat(128, p)

ScionSamples ==
  {[qos |-> V(8, p), fl |-> V(20, p), nh |-> V(8, p), hlen |-> IF p = 0 THEN 9 ELSE V(8, p),
    plen |-> V(16, p), ptype |-> V(8, p), dst |-> IA(p), src |-> IA((p + 1) % 3),
    dstHost |-> Host(q), srcHost |-> Host(r)] : p \in Patterns, q \in Patterns, r \in Patterns}

PathMetaSamples ==
  {m \in [currInf : 0 .. 2, currHf : {0, 1, 5}, seg0 : {1, 63}, seg1 : {0, 2}, seg2 : {0, 3}] :
     /\ m.seg2 > 0 => m.seg1 > 0
     /\ m.currInf < segmentCount(m)
     /\ m.currHf < hopFieldCount(m)}

IdIntOptSamples ==
  {[dataLen |-> IF v = 0 THEN 30 + IPAddress_size(Host(p)) ELSE 22, flags |-> 2 * V(4, p),
    agrMode |-> V(2, p), vtype |-> v, stackLen |-> 0, tos |-> V(8, p), delayHops |-> V(6, p),
    bitmap |-> V(4, p), func0 |-> V(3, p), func1 |-> 0, func2 |-> 4, func3 |-> V(3, p),
    instr0 |-> V(8, p), instr1 |-> 0, instr2 |-> 129, instr3 |-> V(8, p), sourceTS |-> V(48, p),
    sourcePort |-> V(16, p)]
   @@ (IF v = ThirdParty THEN [verifier |-> IA(p), verifierHost |-> Host(p)] ELSE <<>>) :
   p \in Patterns, v \in 0 .. 2}

IdIntEntrySamples ==
  LET base(p, f, m, l) == [flags |-> f, hop |-> V(6, p), mask |-> m, ml0 |-> l, ml1 |-> 0,
                           ml2 |-> 4, ml3 |-> l, mac |-> V(32, p)]
  IN  {LET b  == base(p, f, m, l)
           md == mdSize(b)
       IN  b @@ [dataLen |-> IdIntEntry_size(b), metadata |-> V(8 * md, p)]
             @@ (IF f % 2 = 1 THEN [nonce |-> V(96, p)] ELSE <<>>) :
       p \in {0, 2}, f \in {16, 1}, m \in {0, 5, 15}, l \in {0, 1, 4}}

(* A telemetry stack of up to two entries, with and without room for       *)
(* padding behind them                                                     *)
IdIntSamples ==
  {LET len == FoldLeft(LAMBDA n, e : n + IdIntEntry_size(e), 0, es)
   IN  [main |-> [o EXCEPT !.stackLen = (len \div 4) + slack], entries |-> es] :
   o \in {x \in IdIntOptSamples : x.vtype # 2 /\ x.tos = V(8, 2)},
   es \in {<<>>} \cup {<<x>> : x \in {y \in IdIntEntrySamples : y.hop = V(6, 2) /\ y.mask = 5}}
          \cup {<<x, x>> : x \in {y \in IdIntEntrySamples : y.hop = 0 /\ y.mask = 0}},
   slack \in {0, 1}}

ScmpSamples ==
  {[type |-> t, code |-> IF t \in HasCode THEN V(3, p) ELSE 0, chksum |-> V(16, p)]
   @@ (CASE t = PacketTooBig -> [mtu |-> V(16, p)]
         [] t = ParamProblem -> [pointer |-> V(16, p)]
         [] t = ExtIfDown -> [sender |-> IA(p), iface |-> V(64, p)]
         [] t = IntConnDown -> [sender |-> IA(p), ingress |-> V(64, p), egress |-> V(64, 2)]
         [] t \in {EchoRequest, EchoReply, TraceRequest} -> [id |-> V(16, 2), seq |-> V(16, p)]
         [] t = TraceReply -> [id |-> V(16, 2), seq |-> V(16, p), sender |-> IA(p),
                               iface |-> V(64, p)]
         [] OTHER -> <<>>) : t \in DOMAIN ScmpMessage, p \in Patterns}

StunSamples ==
  {[type |-> 1, tx |-> V(96, p)] : p \in Patterns}
  \cup {[type |-> 257, tx |-> V(96, p), port |-> V(16, q), ip |-> Host(q)] :
        p \in Patterns, q \in Patterns}

(* The options TCP hosts send with a SYN and in an established connection *)
SynOpts ==
  LET mss == "MSS" :> [mss |-> 1460]
      perm == "SAckPerm" :> <<>>
      ws == "WS" :> [wndShift |-> 14]
      ts == "TS" :> [TSval |-> V(32, 1), TSecr |-> V(32, 2)]
      mp == {"MpCapable" :> ([fieldMask |-> n, version |-> 1, flags |-> V(8, 2)]
                             @@ (IF n = 1 THEN [senderKey |-> V(64, 2)] ELSE <<>>)) : n \in 0 .. 1}
            \cup {"MpJoin" :> [content |-> "Syn", flags |-> 1, addressId |-> V(8, 2),
                               receiverToken |-> V(32, 2), senderRand |-> V(32, 1)],
                  "MpJoin" :> [content |-> "SynAck", flags |-> 0, addressId |-> V(8, 2),
                               senderMac |-> V(64, 2), senderRand |-> V(32, 1)]}
  IN  {a @@ b : a \in {mss, mss @@ perm, mss @@ perm @@ ws, mss @@ perm @@ ts @@ ws},
                b \in mp \cup {<<>>}}

SAckSample(n) ==
  [f \in {"blocks"} \cup {<<"left0", "right0", "left1", "right1", "left2", "right2">>[i] :
                           i \in 1 .. 2 * n} |->
     CASE f = "blocks" -> n [] f \in {"left0", "right1"} -> V(32, 1) [] OTHER -> V(32, 2)]

DssSamples ==
  LET fields(flags) ==
        (IF Bit(flags, DssACK) THEN [dataAck |-> V(IF Bit(flags, DssACK8) THEN 64 ELSE 32, 1)]
         ELSE <<>>)
        @@ (IF Bit(flags, DssDSN)
            THEN [dsn |-> V(IF Bit(flags, DssDSN8) THEN 64 ELSE 32, 2), subflowSeq |-> V(32, 2),
                  dataLevelLen |-> V(16, 1)]
            ELSE <<>>)
  IN  {[flags |-> f] @@ fields(f) : f \in {1, 3, 5, 15, 20}}
      \cup {[flags |-> f, chksum |-> V(16, 2)] @@ fields(f) : f \in {5, 15}}

AckOpts ==
  LET ts == "TS" :> [TSval |-> V(32, 1), TSecr |-> V(32, 2)]
      keys == [senderKey |-> V(64, 2), receiverKey |-> V(64, 1), dataLevelLen |-> V(16, 2),
               chksum |-> V(16, 1)]
      mp ==
        {"MpCapable" :> ([fieldMask |-> n, version |-> 1, flags |-> V(8, 2)]
                         @@ [f \in {MpCapableFields[i].f : i \in 1 .. n} |-> keys[f]]) :
           n \in 2 .. 4}
        \cup {"MpJoin" :> [content |-> "Ack", senderMac |-> V(160, 2)]}
        \cup {"MpDss" :> d : d \in DssSamples}
        \cup {"MpAddAddr" :> [flags |-> 1, addressId |-> 7, address |-> Host(p)] : p \in 0 .. 1}
        \cup {"MpAddAddr" :> [flags |-> 0, addressId |-> 7, address |-> Host(0),
                              mac |-> V(64, 2)]}
        \cup {"MpRemAddr" :> [ids |-> Pat(8 * n, 2)] : n \in {4, 5, 8}}
        \cup {"MpPrio" :> [backup |-> 1], "MpFail" :> [dsn |-> V(64, 2)],
              "MpClose" :> [receiverKey |-> V(64, 2)],
              "MpRst" :> [flags |-> 1, reason |-> 4]}
  IN  {o \in {a @@ b : a \in {<<>>, ts, "SAck" :> SAckSample(1), "SAck" :> SAckSample(3),
                              ts @@ ("SAck" :> SAckSample(2))},
                       b \in mp \cup {<<>>}} : measureOpts(o) <= 40}

TcpSamples ==
  {[sport |-> V(16, 2), dport |-> V(16, 1), seq |-> V(32, 2), ack |-> V(32, 1), flags |-> f,
    window |-> V(16, 2), chksum |-> V(16, 1), urgptr |-> 0, opts |-> o] :
   o \in SynOpts, f \in {2}} \cup
  {[sport |-> V(16, 2), dport |-> V(16, 1), seq |-> V(32, 2), ack |-> V(32, 1), flags |-> f,
    window |-> V(16, 2), chksum |-> V(16, 1), urgptr |-> 0, opts |-> o] :
   o \in AckOpts, f \in {16}}

Samples ==
  [SCION |-> ScionSamples,
   PathMeta |-> PathMetaSamples,
   InfoField |-> {[flags |-> V(8, p), segid |-> V(16, p), timestamp |-> V(32, p)] :
                  p \in Patterns},
   HopField |-> {[flags |-> V(8, p), expTime |-> V(8, p), consIngress |-> V(16, p),
                  consEgress |-> V(16, p), mac |-> V(48, p)] : p \in Patterns},
   HopByHopOpts |-> {[nh |-> V(8, p), extLen |-> V(8, p)] : p \in Patterns},
   EndToEndOpts |-> {[nh |-> V(8, p), extLen |-> V(8, p)] : p \in Patterns},
   SciOpt |-> {[type |-> Pad1]} \cup {[type |-> t, dataLen |-> n] : t \in {PadN, 77}, n \in 0 .. 3},
   AuthenticatorOpt |-> {[dataLen |-> 12 + n, spi |-> V(32, p), algorithm |-> V(8, p),
                          timestamp |-> V(48, p), authenticator |-> V(8 * n, p)] :
                         p \in Patterns, n \in {0, 1, 16, 36}},
   IdIntOpt |-> IdIntOptSamples,
   IdIntEntry |-> IdIntEntrySamples,
   IdInt |-> IdIntSamples,
   SCMP |-> ScmpSamples,
   UDP |-> {[sport |-> V(16, p), dport |-> V(16, q), len |-> V(16, 2), chksum |-> V(16, q)] :
            p \in Patterns, q \in Patterns},
   Ethernet |-> {[dst |-> V(48, p), src |-> V(48, 2), type |-> V(16, p)] : p \in Patterns},
   IPv4 |-> {[tos |-> V(8, p), len |-> V(16, p), id |-> V(16, q), flags |-> q, frag |-> V(13, p),
              ttl |-> V(8, q), proto |-> 17, src |-> Pat(32, p), dst |-> Pat(32, q)] :
             p \in Patterns, q \in Patterns},
   IPv6 |-> {[tc |-> V(8, p), fl |-> V(20, p), plen |-> V(16, p), nh |-> V(8, q),
              hlim |-> V(8, q), src |-> Pat(128, p), dst |-> Pat(128, q)] :
             p \in Patterns, q \in Patterns},
   ICMP |-> {[type |-> V(8, p), code |-> V(8, q), chksum |-> V(16, p), param1 |-> V(16, 2),
              param2 |-> V(16, q)] : p \in Patterns, q \in Patterns},
   ICMPv6 |-> {[type |-> V(8, p), code |-> V(8, q), chksum |-> V(16, p), param1 |-> V(16, 2),
                param2 |-> V(16, q)] : p \in Patterns, q \in Patterns},
   STUN |-> StunSamples,
   TCP |-> TcpSamples]

-----------------------------------------------------------------------------
(* What a header is written to, into a buffer that holds other data *)
Written(k, h) == HeaderSerialize(k, WriteStream(Ones(8 * HeaderSize(k, h)), h))

(* MPTCP options of a length that is no multiple of four: emitOpts() pads  *)
(* by the other options only, measureOpts() by all.                        *)
PaddingShort(k, h) ==
  k = "TCP" /\ SizeOfOpts(SelectSeq(Present(h.opts), LAMBDA n : ~IsPlain(n)), h.opts) % 4 # 0

(* The 32-bit sum of the halves of an ISD-ASN overflows. *)
IaOverflow(ia) ==
  LessU32(IsdAsn_checksum(ia), Word32(ia))

(* The telemetry stack is read as far as it is right. *)
ReadsPrefixes(k) == k = "IdInt"

Prefix(b, n) == SubSeq(b, 1, 8 * n)

(* Sums of 16-bit words that are the same checksum *)
SameSum(a, b) == OnesComplement(a) = OnesComplement(b)

HeaderRight(k, h) ==
  LET w == Written(k, h)
      r == HeaderSerialize(k, ReadStream(w.data))
  IN  ~PaddingShort(k, h) =>
        /\ w.ok
        /\ w.pos = 8 * HeaderSize(k, h)
        /\ r.ok
        /\ r.h = h
        /\ k # "STUN" => r.pos = w.pos \* STUN attributes are read from a view
        /\ ReadsPrefixes(k) \/ \A n \in 0 .. HeaderSize(k, h) - 1 :
                                ~HeaderSerialize(k, ReadStream(Prefix(w.data, n))).ok
        /\ k \in HasChecksum /\ ~("sender" \in DOMAIN h /\ IaOverflow(h.sender)) =>
             SameSum(HeaderChecksum(k, h), WordSum(w.data))
=============================================================================
