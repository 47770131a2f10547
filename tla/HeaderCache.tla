---------------------------- MODULE HeaderCache ----------------------------
(***************************************************************************)
(* The headers of an outgoing packet as ScionPackager and HeaderCache      *)
(* build them, and how the cache adapts them to the next payload           *)
(* (include/scion/socket/packager.hpp, header_cache.hpp).                  *)
(*                                                                         *)
(* An address, a path and a payload are reduced to the numbers that enter  *)
(* lengths and checksums: the sum of their 16-bit words and their size.    *)
(* An endpoint is [as, host, port]; AS 0 and host 0 are unspecified.       *)
(* One's complement sums are numbers modulo 65535.                         *)
(***************************************************************************)
EXTENDS Integers, Sequences

UDP == 17
HBHOpt == 200
E2EOpt == 201
SCMP == 202

Modulus == 65535

uint16(n) == n % 65536

Unspecified == [as |-> 0, host |-> 0, port |-> 0]

IsFullySpecified(ep) == ep.as # 0 /\ ep.host # 0

\* Size and sum of the words of the address: 8 bytes of ISD-ASN, 4 of IPv4.
AddressSize == 12
AddressSum(ep) == ep.as + ep.host

-----------------------------------------------------------------------------
(***************************************************************************)
(* Transport headers: [proto, sport, dport], or [proto, body] with the sum *)
(* of an SCMP message of MessageSize bytes.                                *)
(***************************************************************************)
MessageSize == 4

L4Size(l4) == IF l4.proto = UDP THEN 8 ELSE 4 + MessageSize

\* UDP's setPayload() and checksum(); the SCMP header has no length field.
L4Sum(l4, payload) ==
  IF l4.proto = UDP
  THEN l4.sport + l4.dport + uint16(L4Size(l4) + payload.size)
  ELSE l4.body

internetChecksum(sum) == (-sum) % Modulus

\* A flow label is a hash; what is hashed stands for it.
computeFlowLabel(to, from, l4) ==
  <<to.as, to.host, from.as, from.host,
    IF l4.proto = UDP THEN <<UDP, l4.sport, l4.dport>> ELSE <<SCMP>>>>

-----------------------------------------------------------------------------
(***************************************************************************)
(* Extensions are [hbh, e2e]: the sizes of the two option headers, 0 for   *)
(* one without a valid extension.                                          *)
(***************************************************************************)
NoExtensions == [hbh |-> 0, e2e |-> 0]

measureHeader(path, ext, l4) ==
  12 + 2 * AddressSize + path.size + ext.hbh + ext.e2e + L4Size(l4)

\* The option headers in front of the transport header.
writeHeaders(ext, proto) ==
  (IF ext.hbh > 0
   THEN <<[type |-> HBHOpt, size |-> ext.hbh,
           nh |-> IF ext.e2e > 0 THEN E2EOpt ELSE proto]>>
   ELSE << >>)
  \o (IF ext.e2e > 0 THEN <<[type |-> E2EOpt, size |-> ext.e2e, nh |-> proto]>> ELSE << >>)

\* The pseudo header of the checksum.
PseudoHeader(to, from, length, proto) ==
  AddressSum(to) + AddressSum(from) + uint16(length) + proto

EmptyCache == [empty |-> TRUE]

build(to, from, path, ext, l4, payload) ==
  LET ports == IF l4.proto = UDP
               THEN [l4 EXCEPT !.sport = from.port, !.dport = to.port] ELSE l4
      sum   == PseudoHeader(to, from, L4Size(l4) + payload.size, l4.proto)
  IN [empty |-> FALSE, to |-> to, from |-> from, path |-> path,
      nh |-> IF ext.e2e > 0 THEN E2EOpt ELSE IF ext.hbh > 0 THEN HBHOpt ELSE l4.proto,
      plen |-> uint16(ext.hbh + ext.e2e + L4Size(l4) + payload.size),
      fl |-> computeFlowLabel(to, from, ports),
      options |-> writeHeaders(ext, l4.proto),
      l4 |-> ports,
      length |-> uint16(L4Size(l4) + payload.size),
      chksum |-> internetChecksum(sum + L4Sum(ports, payload) + payload.sum),
      scionHdrChksum |-> sum,
      payloadSize |-> payload.size]

\* The next header field that updateHeaders() overwrites is the last one.
updateHeaders(h, proto) ==
  IF h.options = << >> THEN [h EXCEPT !.nh = proto]
  ELSE [h EXCEPT !.options[Len(h.options)].nh = proto]

\* Fault: the difference of the lengths is left out of the checksum.
updatePayload_SameSum(h, l4, payload) ==
  LET plen == uint16(h.plen - L4Size(h.l4) - h.payloadSize + L4Size(l4) + payload.size)
  IN [updateHeaders(h, l4.proto) EXCEPT
        !.plen = plen,
        !.l4 = l4,
        !.length = uint16(L4Size(l4) + payload.size),
        !.chksum = internetChecksum(h.scionHdrChksum + L4Sum(l4, payload) + payload.sum),
        !.payloadSize = payload.size]

\* updatePayload() takes the old protocol from byte 4, the first next header
\* field, and sums up differences in m_scionHdrChksum.
updatePayload(h, l4, payload) ==
  LET plen == uint16(h.plen - L4Size(h.l4) - h.payloadSize + L4Size(l4) + payload.size)
      sum  == h.scionHdrChksum + (l4.proto - h.nh) + (plen - h.plen)
  IN [updateHeaders(h, l4.proto) EXCEPT
        !.plen = plen,
        !.l4 = l4,
        !.length = uint16(L4Size(l4) + payload.size),
        !.scionHdrChksum = sum,
        !.chksum = internetChecksum(sum + L4Sum(l4, payload) + payload.sum),
        !.payloadSize = payload.size]

-----------------------------------------------------------------------------
(***************************************************************************)
(* ScionPackager: the source address and the checks before headers are     *)
(* built.  k is the packager's state [local, mapped, remote].              *)
(***************************************************************************)
\* getSourceAddress(): the path must start in the AS of the socket, if any.
SourceMatches(k, path) ==
  k.mapped.as = 0 \/ path.isEmpty \/ path.firstAS = k.mapped.as

getSourceAddress(k, path) ==
  IF k.mapped.as = 0 THEN [k.mapped EXCEPT !.as = path.firstAS] ELSE k.mapped

\* to is a destination, or Unspecified for a null pointer: the remote endpoint.
Destination(k, to) == IF to = Unspecified THEN k.remote ELSE to

measure(k, to, path, ext, l4) ==
  IF ~SourceMatches(k, path) \/ ~IsFullySpecified(Destination(k, to))
  THEN "InvalidArgument" ELSE measureHeader(path, ext, l4)

\* The error of pack(), "Ok" if it builds the headers.
PackError(k, to, path) ==
  CASE k.local.host = 0 \/ k.local.port = 0 -> "NoLocalHostAddr"
    [] ~SourceMatches(k, path) -> "InvalidArgument"
    [] ~IsFullySpecified(Destination(k, to)) -> "InvalidArgument"
    [] OTHER -> "Ok"

pack(k, to, path, ext, l4, payload) ==
  build(Destination(k, to), getSourceAddress(k, path), path, ext, l4, payload)

\* pack() with cached headers.
PackCachedError(h) == IF h.empty THEN "LogicError" ELSE "Ok"
packCached(h, l4, payload) == updatePayload(h, l4, payload)

-----------------------------------------------------------------------------
(***************************************************************************)
(* The packet on the wire and what a receiver requires of it.              *)
(***************************************************************************)
Packet(h, payload) ==
  [to |-> h.to, from |-> h.from, nh |-> h.nh, plen |-> h.plen, options |-> h.options,
   l4 |-> h.l4, length |-> h.length, chksum |-> h.chksum, payload |-> payload]

OptionsSize(options) ==
  (IF Len(options) > 0 THEN options[1].size ELSE 0)
  + (IF Len(options) > 1 THEN options[2].size ELSE 0)

\* Every next header field announces the header that follows.
HeadersChained(pkt) ==
  LET types == [i \in 1 .. Len(pkt.options) |-> pkt.options[i].type] \o <<pkt.l4.proto>>
      nexts == <<pkt.nh>> \o [i \in 1 .. Len(pkt.options) |-> pkt.options[i].nh]
  IN types = nexts

LengthsAgree(pkt) ==
  /\ pkt.plen = uint16(OptionsSize(pkt.options) + L4Size(pkt.l4) + pkt.payload.size)
  /\ pkt.l4.proto = UDP => pkt.length = uint16(L4Size(pkt.l4) + pkt.payload.size)

ChecksumCorrect(pkt) ==
  ( PseudoHeader(pkt.to, pkt.from, L4Size(pkt.l4) + pkt.payload.size, pkt.l4.proto)
    + L4Sum(pkt.l4, pkt.payload) + pkt.payload.sum + pkt.chksum ) % Modulus = 0

ValidPacket(pkt) == HeadersChained(pkt) /\ LengthsAgree(pkt) /\ ChecksumCorrect(pkt)
=============================================================================
