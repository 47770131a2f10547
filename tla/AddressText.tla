---------------------------- MODULE AddressText ----------------------------
(***************************************************************************)
(* The texts of addresses: parsing and formatting of ISD-ASNs, IP and      *)
(* SCION addresses and end points (src/addr/isd_asn.cpp, generic_ip.cpp,   *)
(* endpoint.cpp, include/scion/addr/address.hpp, endpoint.hpp).            *)
(*                                                                         *)
(* A text is a sequence of separators, names and numerals; a numeral is    *)
(* the sequence of its digits, so that "10" is ten or sixteen, as the      *)
(* parser reads it.  Upper and lower case are the same digit.  An IP       *)
(* address is its bits and the text of its zone; the result of a parser    *)
(* that fails is Refused, whatever the error code.                         *)
(***************************************************************************)
EXTENDS Mapping

Sep(c) == [sep |-> c, digits |-> <<>>]

Name(s) == Sep(s)

Numeral(d) == [sep |-> "", digits |-> d]

(* The number of characters *)
TextSize(text) ==
  FoldLeft(LAMBDA n, t : n + IF t.sep = "" THEN Len(t.digits) ELSE 1, 0, text)

find(text, c) == SelectInSeq(text, LAMBDA t : t = Sep(c))

rfind(text, c) == SelectLastInSeq(text, LAMBDA t : t = Sep(c))

After(text, i) == SubSeq(text, i + 1, Len(text))

(* boost::algorithm::make_split_iterator: there is at least one group *)
Split(text, c) ==
  FoldLeft(LAMBDA gs, t : IF t = Sep(c) THEN Append(gs, <<>>)
                          ELSE [gs EXCEPT ![Len(gs)] = Append(@, t)],
           << <<>> >>, text)

(* A number in three words of 16 bits, in front of which is the rest *)
Value(digits, base) ==
  FoldLeft(LAMBDA v, d :
             LET lo  == v[4] * base + d
                 mid == v[3] * base + (lo \div U16)
                 hi  == v[2] * base + (mid \div U16)
             IN  <<v[1] * base + (hi \div U16), hi % U16, mid % U16, lo % U16>>,
           <<0, 0, 0, 0>>, digits)

NoNumber == <<>>

(* std::from_chars on a whole group, which has to be one numeral, and the  *)
(* test that the value has at most w <= 48 bits.                           *)
from_chars(group, base, w) ==
  LET v    == Value(group[1].digits, base)
      bits == Bin(v[2], 16) \o Bin(v[3], 16) \o Bin(v[4], 16)
  IN  IF /\ Len(group) = 1
         /\ group[1].sep = ""
         /\ \A i \in DOMAIN group[1].digits : group[1].digits[i] < base
         /\ v[1] = 0
         /\ AllZero(SubSeq(bits, 1, 48 - w))
      THEN SubSeq(bits, 49 - w, 48) ELSE NoNumber

(* std::format of an unsigned number of 32 bits *)
Digits(n, base) ==
  LET rem(q) == (q[1] % base) * U16 + q[2]
      quot[k \in 0 .. 9] ==
        IF k = 0 THEN n ELSE <<quot[k - 1][1] \div base, rem(quot[k - 1]) \div base>>
      last == CHOOSE k \in 0 .. 9 : /\ \A j \in k + 1 .. 9 : quot[j] = <<0, 0>>
                                    /\ k = 0 \/ quot[k] # <<0, 0>>
  IN  [i \in 1 .. last + 1 |-> rem(quot[last + 1 - i]) % base]

Dec(b) == <<Numeral(Digits(Word32(Zeros(32 - Len(b)) \o b), 10))>>

Hex(b) == <<Numeral(Digits(Word32(Zeros(32 - Len(b)) \o b), 16))>>

-----------------------------------------------------------------------------
(* ISD-ASN: 16 and 48 bits *)

Isd_Parse(text) == from_chars(text, 10, 16)

Asn_Parse(text) ==
  LET gs  == Split(text, ":")
      v   == [i \in 1 .. Len(gs) |-> from_chars(gs[i], 16, 16)]
      bgp == from_chars(text, 10, 48)
  IN  CASE bgp # NoNumber -> bgp
        [] bgp = NoNumber /\ Len(gs) \in 2 .. 3 /\ \A i \in DOMAIN v : v[i] # NoNumber ->
             FlattenSeq(v) \o Zeros(48 - 16 * Len(gs))
        [] OTHER -> NoNumber

IsdAsn_Parse(text) ==
  LET i   == find(text, "-")
      isd == Isd_Parse(SubSeq(text, 1, i - 1))
      asn == Asn_Parse(After(text, i))
  IN  IF isd = NoNumber \/ asn = NoNumber THEN NoNumber ELSE isd \o asn

Asn_format(asn) ==
  IF AllZero(SubSeq(asn, 1, 16)) THEN Dec(SubSeq(asn, 17, 48))
  ELSE Hex(SubSeq(asn, 1, 16)) \o <<Sep(":")>> \o Hex(SubSeq(asn, 17, 32))
       \o <<Sep(":")>> \o Hex(SubSeq(asn, 33, 48))

IsdAsn_format(ia) == Dec(SubSeq(ia, 1, 16)) \o <<Sep("-")>> \o Asn_format(SubSeq(ia, 17, 64))

-----------------------------------------------------------------------------
(* IP addresses *)

IPAddress(ip, zone) == [ip |-> ip, zone |-> zone]

Refused == IPAddress(NoAddr, <<>>)

isScion4(ip) == classifyScionMappedIP(ip) \in {"BGP_IPV4", "PUBLIC_SCION_IPV4"}

parseIPv4(text) ==
  LET gs   == Split(text, ".")
      byte == [i \in 1 .. Len(gs) |-> from_chars(gs[i], 10, 8)]
  IN  IF Len(gs) = 4 /\ \A i \in DOMAIN byte : byte[i] # NoNumber
      THEN FlattenSeq(byte) ELSE NoAddr

(* One round of the loop over the groups of an IPv6 address.  addr holds   *)
(* the fields so far, collapsed the index (from 0) of the group "::".      *)
(* (An embedded IPv4 address in the eighth group is stored beyond the end  *)
(* of the array; here the result then has too many bits.)                  *)
IPv6Group(s, group, isLast) ==
  LET i       == Len(s.addr)
      allowed == \/ s.collapsed = -1
                 \/ s.collapsed = 0 /\ i \in 1 .. 2
                 \/ s.collapsed = 1 /\ i = 2
      ipv4    == parseIPv4(group)
      field   == from_chars(group, 16, 16)
  IN  CASE ~s.ok -> s
        [] s.ok /\ i > 7 -> Fail(s)
        [] s.ok /\ i <= 7 /\ group = <<>> ->
             IF allowed THEN [s EXCEPT !.addr = Append(@, Zeros(16)), !.collapsed = i]
             ELSE Fail(s)
        [] s.ok /\ i <= 7 /\ TextSize(group) > 4 ->
             IF ipv4 # NoAddr /\ isLast
             THEN [s EXCEPT !.addr = @ \o <<Slice(ipv4, 0, 15), Slice(ipv4, 16, 31)>>]
             ELSE Fail(s)
        [] OTHER -> IF field # NoNumber THEN [s EXCEPT !.addr = Append(@, field)] ELSE Fail(s)

IPAddress_Parse(text, noZone) ==
  LET p     == find(text, "%")
      zone  == IF p = 0 THEN <<>> ELSE After(text, p)
      body  == IF p = 0 THEN text ELSE SubSeq(text, 1, p - 1)
      gs    == Split(body, ":")
      s     == FoldLeft(LAMBDA st, k : IPv6Group(st, gs[k], k = Len(gs)),
                        [addr |-> <<>>, collapsed |-> -1, ok |-> TRUE],
                        [k \in 1 .. Len(gs) |-> k])
      extra == [k \in 1 .. 8 - Len(s.addr) |-> Zeros(16)]
      ipv4  == parseIPv4(body)
  IN  CASE text = <<>> \/ (p > 0 /\ (noZone \/ zone = <<>>)) -> Refused
        [] TextSize(gs[1]) > 4 ->
             IF zone = <<>> /\ ipv4 # NoAddr THEN IPAddress(ipv4, <<>>) ELSE Refused
        [] OTHER ->
             CASE ~s.ok \/ (Len(s.addr) < 8 /\ s.collapsed = -1) -> Refused
               [] s.ok /\ Len(s.addr) >= 8 -> IPAddress(FlattenSeq(s.addr), zone)
               [] OTHER ->
                    IPAddress(FlattenSeq(SubSeq(s.addr, 1, s.collapsed + 1) \o extra
                                         \o After(s.addr, s.collapsed + 1)), zone)

formatIPv4(ip) ==
  LET byte(i) == Dec(Slice(ip, 8 * i, 8 * i + 7))
  IN  byte(0) \o <<Sep(".")>> \o byte(1) \o <<Sep(".")>> \o byte(2) \o <<Sep(".")>> \o byte(3)

(* The fields first+1 .. last are the longest group of zeros among the     *)
(* first fields, or first = last = 0.  (The code counts bytes.)            *)
findLongestZeroGroup(fields, length) ==
  LET Close(s, i) == IF s.begin >= 0 /\ i - s.begin > s.last - s.first /\ i - s.begin > 1
                     THEN [begin |-> -1, first |-> s.begin, last |-> i]
                     ELSE [s EXCEPT !.begin = -1]
      Field(s, i) == CASE ~AllZero(fields[i + 1]) -> Close(s, i)
                       [] AllZero(fields[i + 1]) /\ s.begin = -1 -> [s EXCEPT !.begin = i]
                       [] OTHER -> s
  IN  Close(FoldLeft(Field, [begin |-> -1, first |-> 0, last |-> 0],
                     [i \in 1 .. length |-> i - 1]), length)

IPAddress_formatTo(addr, longForm) ==
  LET ip     == addr.ip
      fields == [i \in 1 .. 8 |-> Slice(ip, 16 * (i - 1), 16 * i - 1)]
      ipv4   == is4in6(ip) \/ isScion4(ip)
      length == IF ipv4 THEN 6 ELSE 8
      run    == IF longForm THEN [first |-> 0, last |-> 0]
                ELSE findLongestZeroGroup(fields, length)
      Fields(from, to) ==
        FlattenSeq([k \in 1 .. to - from |->
          (IF from + k = 1 THEN <<>> ELSE <<Sep(":")>>) \o Hex(fields[from + k])])
      If(c, text) == IF c THEN text ELSE <<>>
  IN  IF is4(ip) THEN formatIPv4(ip)
      ELSE Fields(0, run.first)
           \o If(run.last > run.first, <<Sep(":")>>)
           \o Fields(run.last, length)
           \o If(run.last = length, <<Sep(":")>>)
           \o If(ipv4, <<Sep(":")>> \o formatIPv4(Slice(ip, 96, 127)))
           \o If(addr.zone # <<>>, <<Sep("%")>> \o addr.zone)

-----------------------------------------------------------------------------
(* SCION addresses and end points *)

Address(ia, host) == [ia |-> ia, host |-> host]

NoAddress == Address(NoNumber, Refused)

Address_Parse(text) ==
  LET comma == find(text, ",")
      ia    == IsdAsn_Parse(SubSeq(text, 1, comma - 1))
      host  == IPAddress_Parse(After(text, comma), FALSE)
  IN  IF comma = 0 \/ ia = NoNumber \/ host = Refused THEN NoAddress ELSE Address(ia, host)

Address_format(addr) ==
  IsdAsn_format(addr.ia) \o <<Sep(",")>> \o IPAddress_formatTo(addr.host, FALSE)

Bracketed(text) == <<Sep("[")>> \o text \o <<Sep("]")>>

(* Either an error or the text in front of the port, and the port *)
splitHostPort(text) ==
  LET bracket == rfind(text, "]")
      rest    == After(text, bracket)
      sep     == rfind(text, ":")
      host    == SubSeq(text, 1, sep - 1)
      WithPort(addr, port) ==
        LET v == from_chars(port, 10, 16)
        IN  [ok |-> v # NoNumber, addr |-> addr, port |-> v]
      NoPort(addr) == [ok |-> TRUE, addr |-> addr, port |-> Zeros(16)]
  IN  CASE text # <<>> /\ text[1] = Sep("[") ->
             CASE bracket = 0 -> [ok |-> FALSE]
               [] bracket > 0 /\ rest = <<>> -> NoPort(SubSeq(text, 2, bracket - 1))
               [] OTHER -> IF rest[1] # Sep(":") THEN [ok |-> FALSE]
                           ELSE WithPort(SubSeq(text, 2, bracket - 1), Tail(rest))
        [] OTHER ->
             IF sep = 0 \/ find(After(host, find(host, ",")), ":") > 0 THEN NoPort(text)
             ELSE WithPort(host, After(text, sep))

Endpoint(addr, port) == [addr |-> addr, port |-> port]

NoEndpoint == Endpoint(NoAddress, NoNumber)

Endpoint_Parse(text) ==
  LET split == splitHostPort(text)
      sc    == Address_Parse(split.addr)
  IN  IF ~split.ok \/ sc = NoAddress THEN NoEndpoint ELSE Endpoint(sc, split.port)

Endpoint_format(ep) ==
  LET addr == Address_format(ep.addr)
  IN  (IF is4(ep.addr.host.ip) THEN addr ELSE Bracketed(addr)) \o <<Sep(":")>> \o Dec(ep.port)

IPEndpoint_Parse(text, noZone) ==
  LET split == splitHostPort(text)
      ip    == IPAddress_Parse(split.addr, noZone)
  IN  IF ~split.ok \/ ip = Refused THEN Endpoint(Refused, NoNumber)
      ELSE Endpoint(ip, split.port)

IPEndpoint_format(ep) ==
  LET ip == IPAddress_formatTo(ep.addr, FALSE)
  IN  (IF is4(ep.addr.ip) THEN ip ELSE Bracketed(ip)) \o <<Sep(":")>> \o Dec(ep.port)

-----------------------------------------------------------------------------
(* Cases *)

(* IPv6 addresses with every pattern of zero fields, IPv4 addresses alone  *)
(* and inside of IPv6 and SCION-mapped addresses, and addresses with zone  *)
TextHosts ==
  LET field(k) == Bin(<<64768, 1, 4096, 9, 16, 43981, 255, 65535>>[k], 16)
      v6(used) == FlattenSeq([k \in 1 .. 8 |-> IF k \in used THEN field(k) ELSE Zeros(16)])
      v4       == {Zeros(32), Bin(10, 8) \o Bin(255, 8) \o Bin(0, 8) \o Bin(1, 8), Ones(32)}
      bgp      == Zeros(15) \o <<1>> \o Zeros(32) \o Bin(64512, 16)
      public   == Zeros(15) \o <<1>> \o Bin(2, 16) \o Zeros(16) \o Bin(272, 16)
      mapped   == {mapToIPv6(ScIPAddress(ia, ip)) : ia \in {bgp, public}, ip \in v4}
      zone     == <<Name("eth0")>>
  IN  {IPAddress(v6(used), <<>>) : used \in SUBSET (1 .. 8)}
      \cup {IPAddress(ip, <<>>) : ip \in v4 \cup mapped}
      \cup {IPAddress(Zeros(80) \o Ones(16) \o ip, <<>>) : ip \in v4}
      \cup {IPAddress(v6(used), zone) : used \in {{}, {1, 8}, {1, 2, 3, 4}, 1 .. 8}}

TextAsns ==
  {Zeros(48), Zeros(47) \o <<1>>, Zeros(32) \o Bin(64512, 16), Zeros(16) \o Ones(32),
   Zeros(15) \o <<1>> \o Zeros(32), Bin(65280, 16) \o Zeros(16) \o Bin(272, 16),
   Bin(2, 16) \o Bin(10, 16) \o Zeros(16), Ones(48)}

TextCases ==
  {Endpoint(Address(Bin(isd, 16) \o asn, host), Bin(port, 16)) :
     isd \in {64}, asn \in {Bin(65280, 16) \o Zeros(16) \o Bin(272, 16)},
     host \in TextHosts, port \in {30041}}
  \cup
  {Endpoint(Address(Bin(isd, 16) \o asn, host), Bin(port, 16)) :
     isd \in {0, 1, 65535}, asn \in TextAsns,
     host \in {IPAddress(Ones(32), <<>>), IPAddress(Zeros(127) \o <<1>>, <<>>)},
     port \in {0, 1, 65535}}

(* The leftmost of the longest groups of two or more zero fields *)
ZeroGroups(ip, length) ==
  LET zero(i)   == AllZero(Slice(ip, 16 * (i - 1), 16 * i - 1))
      groups    == {g \in (1 .. length) \X (1 .. length) :
                      g[1] < g[2] /\ \A i \in g[1] .. g[2] : zero(i)}
  IN  {g \in groups : \A h \in groups : \/ h[2] - h[1] < g[2] - g[1]
                                        \/ h[2] - h[1] = g[2] - g[1] /\ g[1] <= h[1]}

(* "a:b::", with two or more fields in front of the zeros: the parser      *)
(* accepts a "::" at the end after one field only.                         *)
EndsInZeros(host) ==
  /\ ~is4(host.ip) /\ ~is4in6(host.ip) /\ ~isScion4(host.ip)
  /\ \E g \in ZeroGroups(host.ip, 8) : g[2] = 8 /\ g[1] \in 3 .. 8

(* The short form names every field outside of the zeros it leaves out *)
ShortForm(ip, text) ==
  LET length   == IF is4in6(ip) \/ isScion4(ip) THEN 6 ELSE 8
      groups   == Split(text, ":")
      fields   == Len(SelectSeq(groups, LAMBDA g : g # <<>>)) - IF length = 6 THEN 1 ELSE 0
      collapse == {i \in 1 .. Len(text) - 1 : text[i] = Sep(":") /\ text[i + 1] = Sep(":")}
  IN  ~is4(ip) =>
        /\ Cardinality(collapse) = Cardinality(ZeroGroups(ip, length))
        /\ \A g \in ZeroGroups(ip, length) :
             /\ fields = length - (g[2] - g[1] + 1)
             /\ \A i \in collapse : Len(SelectSeq(SubSeq(text, 1, i - 1),
                                                  LAMBDA t : t.sep = "")) = g[1] - 1

TextRight(ep) ==
  LET host  == ep.addr.host
      short == IPAddress_formatTo(host, FALSE)
      full  == IPAddress_formatTo(host, TRUE)
      ip    == Endpoint(host, ep.port)
      noPort == Endpoint(ep.addr, Zeros(16))
  IN  /\ IsdAsn_Parse(IsdAsn_format(ep.addr.ia)) = ep.addr.ia
      /\ IPAddress_Parse(full, FALSE) = host
      /\ IPAddress_Parse(full, TRUE) = IF host.zone = <<>> THEN host ELSE Refused
      /\ ShortForm(host.ip, SubSeq(short, 1, Len(short) - IF host.zone = <<>> THEN 0 ELSE 2))
      /\ EndsInZeros(host) <=> IPAddress_Parse(short, FALSE) = Refused
      /\ ~EndsInZeros(host) =>
           /\ IPAddress_Parse(short, FALSE) = host
           /\ IPEndpoint_Parse(IPEndpoint_format(ip), FALSE) = ip
           /\ Endpoint_Parse(Endpoint_format(ep)) = ep
           /\ Endpoint_Parse(Address_format(ep.addr)) = noPort
           /\ Endpoint_Parse(Bracketed(Address_format(ep.addr))) = noPort
=============================================================================
