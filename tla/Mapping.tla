------------------------------ MODULE Mapping ------------------------------
(***************************************************************************)
(* SCION-mapped IPv6 addresses (include/scion/addr/mapping.hpp) and the    *)
(* prefix operations of generic::IPAddress (addr/generic_ip.hpp).  An      *)
(* address is the sequence of its bits, 32 or 128 of them; a SCION address *)
(* is a record of the 64 bits of its ISD-ASN and of its host; NoAddr is    *)
(* the error.                                                              *)
(***************************************************************************)
EXTENDS ScionHeaders

NoAddr == <<>>

ScIPAddress(ia, host) == [ia |-> ia, host |-> host]

(* The bits from..to of an address, counted from 0 at the most significant *)
Slice(ip, from, to) == SubSeq(ip, from + 1, to + 1)

AllZero(b) == \A i \in DOMAIN b : b[i] = 0

SCION_IP_PREFIX == Bin(252, 8)

(* IPAddress::is4in6, IPAddress::isScion and IPAddress::unmap4in6 *)
is4in6(ip) == ~is4(ip) /\ AllZero(Slice(ip, 0, 79)) /\ Slice(ip, 80, 95) = Ones(16)

isScion(ip) == ~is4(ip) /\ Slice(ip, 0, 7) = SCION_IP_PREFIX

unmap4in6(ip) == IF is4in6(ip) THEN Slice(ip, 96, 127) ELSE ip

(* samePrefix *)
samePrefix(a, b, prefixLen) ==
  /\ Len(a) = Len(b)
  /\ prefixLen <= Len(a)
  /\ \A i \in 1 .. prefixLen : a[i] = b[i]

(* The interface identifier of an IPv4 host *)
IsIPv4Iid(ip) == AllZero(Slice(ip, 64, 79)) /\ Slice(ip, 80, 95) = Ones(16)

(* classifyScionMappedIP *)
classifyScionMappedIP(ip) ==
  LET flags == Num(Slice(ip, 20, 23))
      kind(local, wildcard, v4, v6) ==
        CASE ~AllZero(local) -> v6
          [] AllZero(local) /\ AllZero(Slice(ip, 64, 127)) -> wildcard
          [] AllZero(local) /\ IsIPv4Iid(ip) -> v4
          [] OTHER -> v6
  IN  CASE ~isScion(ip) -> "INVALID"
        [] isScion(ip) /\ flags < 8 ->
             IF AllZero(Slice(ip, 20, 39)) THEN "WILDCARD_ASN"
             ELSE kind(Slice(ip, 40, 63), "BGP_WILDCARD", "BGP_IPV4", "BGP_IPV6")
        [] isScion(ip) /\ flags = 14 ->
             kind(Slice(ip, 56, 63), "PUBLIC_SCION_WILDCARD", "PUBLIC_SCION_IPV4",
                  "PUBLIC_SCION_IPV6")
        [] OTHER -> "RESERVED"

(* unmapIsdAsn: the ISD-ASN, and the AS-local prefix *)
unmapIsdAsn(ip) ==
  LET isd   == Zeros(4) \o Slice(ip, 8, 19)
      flags == Num(Slice(ip, 20, 23))
  IN  CASE flags < 8 ->
             [ia |-> isd \o Zeros(28) \o Slice(ip, 20, 39), localPrefix |-> Slice(ip, 40, 63)]
        [] flags = 14 ->
             [ia |-> isd \o Bin(2, 16) \o Slice(ip, 24, 55), localPrefix |-> Slice(ip, 56, 63)]
        [] OTHER -> NoAddr

(* mapToIPv6 *)
mapToIPv6(addr) ==
  LET host == unmap4in6(addr.host)
      asn  == SubSeq(addr.ia, 17, 64)
      head == SCION_IP_PREFIX \o SubSeq(addr.ia, 5, 16)
      iid  == Zeros(16) \o Ones(16) \o host
  IN  CASE ~is4(host) ->
             IF /\ isScion(host)
                /\ unmapIsdAsn(host) # NoAddr
                /\ unmapIsdAsn(host).ia = addr.ia
             THEN host ELSE NoAddr
        [] is4(host) /\ ~AllZero(SubSeq(addr.ia, 1, 4)) -> NoAddr
        [] OTHER ->
             CASE AllZero(SubSeq(asn, 1, 29)) -> head \o SubSeq(asn, 29, 48) \o Zeros(24) \o iid
               [] SubSeq(asn, 1, 16) = Bin(2, 16) ->
                    head \o Bin(14, 4) \o SubSeq(asn, 17, 48) \o Zeros(8) \o iid
               [] OTHER -> NoAddr

(* unmapFromIPv6 *)
unmapFromIPv6(ip) ==
  LET u == unmapIsdAsn(ip)
  IN  IF ~isScion(ip) \/ u = NoAddr THEN NoAddr
      ELSE ScIPAddress(u.ia, IF AllZero(u.localPrefix) /\ IsIPv4Iid(ip)
                             THEN Slice(ip, 96, 127) ELSE ip)
=============================================================================
