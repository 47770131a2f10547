---------------------------- MODULE Algorithms ----------------------------
(***************************************************************************)
(* The algorithms of the library and of Scitra-TUN that have no state of   *)
(* their own, each compared with a reference on a set of cases: headers,   *)
(* texts of addresses, packets through the translator, paths and their     *)
(* reversal, policies.  A behaviour chooses an algorithm and a group of    *)
(* cases, then a case.                                                     *)
(***************************************************************************)
EXTENDS Translation, AddressText, Paths, PolicyCases

VARIABLE case

vars == <<case>>

Init == case = [alg |-> "none"]

(* Cases are grouped so that the groups can be checked in parallel. *)
Groups ==
  {[alg |-> "header", kind |-> k] : k \in DOMAIN Samples}
  \cup {[alg |-> "packet", nat |-> nat, bytes |-> n] :
          nat \in {NotMapped, External}, n \in {Len(c.data) \div 8 : c \in TranslationCases}}
  \cup {[alg |-> "text"], [alg |-> "path"]}
  \cup {[alg |-> "policy", size |-> n] : n \in 1 .. 3}

ChooseGroup == case.alg = "none" /\ case' \in Groups

Chosen(alg, c) == case' = [alg |-> alg, of |-> c]

Open(alg) == case.alg = alg /\ "of" \notin DOMAIN case

HeaderCase ==
  /\ Open("header")
  /\ \E h \in Samples[case.kind] : Chosen("header", [kind |-> case.kind, h |-> h])

PacketCase ==
  /\ Open("packet")
  /\ \E c \in TranslationCases : /\ c.nat = case.nat /\ Len(c.data) = 8 * case.bytes
                                 /\ Chosen("packet", c)

TextCase == Open("text") /\ \E ep \in TextCases : Chosen("text", ep)

PathCase == Open("path") /\ \E p \in PathSamples : Chosen("path", p)

PolicyCase ==
  /\ Open("policy")
  /\ \E f \in PolicyFiles : Len(f.policies) = case.size /\ Chosen("policy", f)

Next == ChooseGroup \/ HeaderCase \/ TextCase \/ PacketCase \/ PathCase \/ PolicyCase

Spec == Init /\ [][Next]_vars

-----------------------------------------------------------------------------
(* The step takes a case of the algorithm.  The properties are about the   *)
(* result of that step.                                                    *)
Takes(alg) == case'.alg = alg /\ "of" \in DOMAIN case'

(* Every header the library writes is read back with all its fields, takes *)
(* the number of bytes that size() announces, and is refused when bytes    *)
(* are missing at its end; checksum(), which is computed from the fields,  *)
(* is the sum of the words that were written.  (Not for MPTCP options      *)
(* whose length is no multiple of four, nor for the checksum of an ISD-ASN *)
(* whose halves overflow: there the code deviates, see the README.)  The   *)
(* text of an address or end point is read back as well, and its short     *)
(* form leaves out the longest group of zeros; the parser refuses exactly  *)
(* the texts that end in "::" after two or more fields.                    *)
CodecRoundTrip ==
  [][/\ Takes("header") => HeaderRight(case'.of.kind, case'.of.h)
     /\ Takes("text") => TextRight(case'.of)]_vars

(* A packet that a host sends to a SCION-mapped address arrives at the     *)
(* other host with the same payload, layer 4 header, traffic class and     *)
(* mapped addresses, an MSS that fits both path MTUs, and the identifier   *)
(* of an echo request restored in the reply.  A packet that does not fit   *)
(* the path MTU is never passed on; if it has no path or no SCION address, *)
(* or an MTU of at least 1280 would let it fit, it is answered by the ICMP *)
(* error that quotes it and names that MTU, otherwise it is dropped, and   *)
(* so is a packet for another host.  (Whether it is answered, and with     *)
(* which MTU, is left open if the path MTU is more than 40 bytes smaller   *)
(* than the SCION headers, MtuUnderflow: there the code reports 65535.)    *)
(* The layer 4 checksum is right after the translation at the sender and   *)
(* the rewriting for a NAT, and after the translation at the receiver:     *)
(* for UDP and TCP, as long as one fold suffices for each update           *)
(* (UpdateInexact) and for the ISD-ASNs (IaOverflow); for SCMP, on its way *)
(* if no NAT rewrites it (socket.cpp:302-310) and the buffer was not used  *)
(* for SCMP before (translator.hpp:249), at the receiver always.  The      *)
(* underlay's UDP header is right as well, and the reset of a refused      *)
(* subflow reaches the sender of the SYN and acknowledges it.              *)
Translated == [][Takes("packet") => TranslatedRight(case'.of)]_vars

(* A path is reversed in its encoded form as in its decoded form: end      *)
(* points, directions, segments, hop fields and the current position are   *)
(* swapped and reserved bits kept, reversing twice gives the same bytes,   *)
(* the hops read from the bytes are the links between the hop fields, over *)
(* peering links as well, and those of the reverse path in reverse; the    *)
(* expiry does not change.  A path of another length is refused.           *)
PathReversed == [][Takes("path") => ReversalRight(case'.of)]_vars

(* Policy files mean what scitra-policy.json(5) says: a file is accepted   *)
(* if each matcher names a policy and each policy extends one that         *)
(* precedes it, and then every chain of failovers ends; a flow gets        *)
(* exactly the paths that the first policy of its chain with any allows,   *)
(* as the orderings sort them.  A file that is refused leaves the policy   *)
(* as it was.  Excepted are the files with one of Differences, in which    *)
(* the code contradicts the manual page, see the statements below.         *)
PolicyHonoured ==
  [][Takes("policy") /\ Differences(case'.of) = {} => PolicyRight(case'.of)]_vars

-----------------------------------------------------------------------------
(* Statements that the code does not keep                                  *)

(* The translator decides by the path MTU whether a packet that is too     *)
(* long is answered.                                                       *)
TooLongAnsweredRight ==
  [][Takes("packet") => Egress(case'.of).res.verdict = ExpectedVerdict(case'.of)]_vars

(* The layer 4 checksum of every packet on the wire is right: of packets   *)
(* with an exact update in a fresh buffer and behind a NAT, ...            *)
WireRight(c) ==
  LET e == Egress(c) IN e.res.verdict = "Pass" => ScionRight(Wire(e.res.pkt, c.nat).pkt)

ScmpRightBehindNat ==
  [][Takes("packet") /\ case'.of.l4.kind = "ICMPv6" /\ case'.of.stale = 0 =>
       WireRight(case'.of)]_vars

(* ... of packets in a buffer that is used again, ...                      *)
ScmpRightInReusedBuffer ==
  [][Takes("packet") /\ case'.of.l4.kind = "ICMPv6" /\ case'.of.nat = NotMapped =>
       WireRight(case'.of)]_vars

(* ... and of UDP and TCP packets, whose checksum is updated.              *)
UpdatesRight ==
  [][Takes("packet") /\ case'.of.l4.kind # "ICMPv6" /\ IaExact(case'.of) =>
       WireRight(case'.of)]_vars

(* Policy files mean what the manual page says: ...                        *)
TakesOnly(difference) == Takes("policy") /\ Differences(case'.of) = {difference}

(* ... a matcher must name a policy (scitra-policy.json.5.md:30, 34; the   *)
(* code skips a matcher without one), ...                                  *)
MatcherNeedsPolicy == [][TakesOnly("no_policy") => PolicyRight(case'.of)]_vars

(* ... it may name the default policy (refused), ...                       *)
MatcherMayNameDefault ==
  [][TakesOnly("default_matched") => PolicyRight(case'.of)]_vars

(* ... a traffic class of zero is a value like others (it matches any;     *)
(* policy.hpp:37 says so), ...                                             *)
TrafficClassZeroMatches ==
  [][TakesOnly("class") => PolicyRight(case'.of)]_vars

(* ... a policy can only extend one that precedes it (:76-84; the default  *)
(* policy is extended before its definition, as if it were empty), ...     *)
ExtendedPrecedes == [][TakesOnly("default_early") => PolicyRight(case'.of)]_vars

(* ... each interface of a predicate may be zero (:95), ...                *)
InterfaceMayBeZero == [][TakesOnly("interfaces") => PolicyRight(case'.of)]_vars

(* ... and a predicate means the same in a sequence as in an ACL.          *)
SequencePredicatesMatch ==
  [][TakesOnly("sequence") => PolicyRight(case'.of)]_vars
=============================================================================
