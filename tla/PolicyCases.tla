---------------------------- MODULE PolicyCases ----------------------------
(***************************************************************************)
(* Policy files, flows and paths for which the policies of Policy.tla are  *)
(* compared with what scitra-policy.json(5) says: which files are refused, *)
(* which policy a flow gets, which paths remain and in which order.        *)
(* Where the code differs from the manual page, Differences says so.       *)
(***************************************************************************)
EXTENDS Policy

-----------------------------------------------------------------------------
(* Paths from AS 10 to AS 30 of ISD 1 *)

Hop(isd, asn, ingress, egress) ==
  [isd |-> isd, asn |-> asn, ingress |-> ingress, egress |-> egress]

Link(lat, bw) == [lat |-> lat * Millisecond, bw |-> bw]

MakePath(id, hs, mtu, links) ==
  [id |-> id, empty |-> FALSE, ifaces |-> hs, hopCount |-> IF hs = Absent THEN 1 ELSE Len(hs[1]) - 1,
   mtu |-> mtu, links |-> links]

Direct   == MakePath(1, <<<<Hop(1, 10, 0, 1), Hop(1, 30, 1, 0)>>>>, 1400, <<<<Link(30, 10)>>>>)
ViaCore  == MakePath(2, <<<<Hop(1, 10, 0, 2), Hop(1, 20, 1, 2), Hop(1, 30, 2, 0)>>>>, 1500,
                     <<<<Link(5, 100), Link(5, 50)>>>>)
ViaOther == MakePath(3, <<<<Hop(1, 10, 0, 2), Hop(2, 20, 3, 4), Hop(1, 30, 3, 0)>>>>, 1500,
                     <<<<Link(5, 100), Link(0, 0)>>>>)
NoMeta   == MakePath(4, <<<<Hop(1, 10, 0, 3), Hop(1, 30, 4, 0)>>>>, 1280, Absent)
NoIfaces == MakePath(5, Absent, 1500, Absent)
InsideAS    == [MakePath(6, <<<<>>>>, 1500, Absent) EXCEPT !.empty = TRUE, !.hopCount = 0]

PathLists ==
  {<<>>, <<InsideAS>>, <<NoIfaces>>, <<Direct, ViaCore, ViaOther>>, <<ViaOther, NoMeta, Direct>>,
   <<NoMeta, NoIfaces, ViaOther, ViaCore>>}

-----------------------------------------------------------------------------
(* Policies and files *)

Pred(isd, asn, ifs) == [isd |-> isd, asn |-> asn, ifs |-> ifs]

AnyHop  == Pred(0, 0, <<>>)
Isd1    == Pred(1, 0, <<>>)
Isd2    == Pred(2, 0, <<>>)
Core    == Pred(1, 20, <<>>)
First2  == Pred(1, 10, <<2>>)
OverOne == Pred(1, 30, <<1>>)
Exactly == Pred(2, 20, <<3, 4>>)

Allow(hp)  == [sign |-> "+", hp |-> hp]
Deny(hp) == [sign |-> "-", hp |-> hp]
Once(hp)   == [any |-> {hp}, times |-> "1"]

Acls == {Absent, <<<<>>>>, <<<<Deny(Isd2), Allow(AnyHop)>>>>, <<<<Allow(Isd1)>>>>,
         <<<<Allow(Exactly), Deny(Isd2), Deny(OverOne), Allow(AnyHop)>>>>,
         <<<<Allow(AnyHop), Deny(Isd2)>>>>, <<<<Allow(BadPredicate)>>>>,
         <<<<[sign |-> "?", hp |-> AnyHop]>>>>}

Sequences == {Absent, <<<<[any |-> {AnyHop}, times |-> "*"]>>>>, <<<<Once(First2), Once(Core), Once(AnyHop)>>>>,
              <<<<Once(AnyHop), [any |-> {Core, Isd2}, times |-> "?"], Once(OverOne)>>>>,
              <<<<[any |-> {Isd1}, times |-> "+"]>>>>,
              <<<<[any |-> {Isd1, Exactly}, times |-> "*"], Once(Pred(1, 30, <<3>>))>>>>}

Requirements == {Absent, <<<<[name |-> "min_mtu", value |-> 1400]>>>>,
                 <<<<[name |-> "max_meta_lat", value |-> 10], [name |-> "min_mtu", value |-> 70000]>>>>,
                 <<<<[name |-> "max_meta_lat", value |-> 10]>>>>,
                 <<<<[name |-> "min_meta_bw", value |-> 10]>>>>, <<<<[name |-> "min_lat", value |-> 1]>>>>}

Orderings == {Absent, <<<<"hops_asc">>>>, <<<<"meta_bandwidth_desc", "hops_asc">>>>,
              <<<<"random", "meta_latency_desc">>>>, <<<<"hops_desc", "meta_latency_asc">>>>,
              <<<<"meta_latency_desc", "random">>>>, <<<<"meta_bandwidth_asc">>>>, <<<<"shortest">>>>}

Obj(name, extends, failover, acl, sequence, reqs, ordering) ==
  [name |-> name, extends |-> extends, failover |-> failover, acl |-> acl, sequence |-> sequence,
   reqs |-> reqs, ordering |-> ordering]

AnyEp == [isd |-> 0, asn |-> 0, host |-> 0, port |-> 0]
Ep(asn, host, port) == [isd |-> 1, asn |-> asn, host |-> host, port |-> port]

(* What applies policy to flows; traffic class tc may be missing *)
Apply(policy, dst, proto, tc) ==
  [matcher |-> [src |-> AnyEp, dst |-> dst, proto |-> proto, tc |-> tc], policy |-> policy]

Matchers ==
  {<<>>,
   <<Apply("b", Ep(30, 7, 80), 0, Absent), Apply("a", Ep(30, 0, 0), 17, <<1>>)>>,
   <<Apply("b", Ep(0, 0, 0), 0, Absent), Apply("a", AnyEp, 0, Absent)>>}

OddMatchers ==
  {<<Apply("default", AnyEp, 0, Absent)>>, <<Apply("c", AnyEp, 0, Absent)>>,
   <<Apply(NoName, Ep(30, 7, 0), 6, Absent), Apply("a", AnyEp, 0, Absent)>>,
   <<Apply("a", AnyEp, 0, <<0>>)>>, <<Apply("a", AnyEp, 0, <<300>>)>>,
   <<Apply("a", AnyEp, 6, <<1>>), Apply("b", Ep(30, 7, 81), 0, <<1>>)>>}

Flows ==
  {[src |-> Ep(10, 1, 1000), dst |-> Ep(30, 7, port), proto |-> proto, tc |-> 1] :
     port \in {80, 81}, proto \in {6, 17}}
  \cup {[src |-> Ep(10, 1, 1000), dst |-> Ep(30, 7, 80), proto |-> 17, tc |-> 0]}

(* One policy with each combination of attributes *)
SinglePolicyFiles ==
  {[policies |-> <<Obj(Default, NoName, NoName, acl, sequence, reqs, ordering)>>, matchers |-> <<>>] :
     acl \in Acls, sequence \in Sequences, reqs \in Requirements, ordering \in Orderings}

(* Each form of hop predicate, in a line of an ACL and in a sequence *)
PredicateFiles ==
  LET preds == {Pred(isd, asn, ifs) : isd \in 0 .. 2, asn \in {0, 10, 20, 30},
                                      ifs \in {<<>>, <<0>>, <<2>>, <<0, 2>>, <<3, 0>>, <<3, 4>>, <<0, 0>>}}
      file(acl, sequence) ==
        [policies |-> <<Obj(Default, NoName, NoName, acl, sequence, Absent, Absent)>>, matchers |-> <<>>]
      many == [any |-> {AnyHop}, times |-> "*"]
  IN  {file(<<<<Deny(hp), Allow(AnyHop)>>>>, Absent) : hp \in preds}
      \cup {file(Absent, <<<<many, Once(hp), many>>>>) : hp \in preds}

(* Policies in each order that extend and fail over to one another *)
Attributes(name) ==
  CASE name = Default -> <<<<<<Deny(Isd2), Allow(AnyHop)>>>>, Absent, Absent, <<<<"hops_asc">>>>>>
    [] name = "a" -> <<Absent, <<<<Once(First2), Once(Isd2), Once(AnyHop)>>>>, Absent,
                       <<<<"meta_latency_asc">>>>>>
    [] name = "b" -> <<Absent, Absent, <<<<[name |-> "max_meta_lat", value |-> 10]>>>>, Absent>>

NamedObj(name, extends, failover) ==
  LET at == Attributes(name) IN Obj(name, extends, failover, at[1], at[2], at[3], at[4])

LinkedFiles(names) ==
  LET refs == [names \cup {Default} -> {NoName, Default, "a", "b"}]
  IN  {[policies |-> [i \in DOMAIN order |-> NamedObj(order[i], extends[order[i]], failover[order[i]])],
        matchers |-> matchers] :
         order \in SetToSeqs(names), matchers \in Matchers,
         extends \in {f \in refs : f[Default] \in {NoName, "a"} /\ f["b"] # NoName},
         failover \in {f \in refs : f[Default] \in {NoName, "b"} /\ f["b"] # NoName}}

OddFiles ==
  {[policies |-> <<NamedObj(Default, NoName, NoName), NamedObj("a", NoName, Default),
                   NamedObj("b", "a", "a")>>,
    matchers |-> matchers] : matchers \in OddMatchers}

PolicyFiles ==
  SinglePolicyFiles \cup PredicateFiles \cup OddFiles
  \cup LinkedFiles({Default, "a", "b"}) \cup LinkedFiles({"a", "b"})

-----------------------------------------------------------------------------
(* What the manual page promises *)

Precedes(file, i, name) == \E j \in 1 .. i - 1 : file.policies[j].name = name

Defined(file, name) == Precedes(file, Len(file.policies) + 1, name)

(* A policy extends one that precedes it; the default policy is empty if   *)
(* the file does not define it.                                            *)
MayExtend(file, i, name) ==
  name = NoName \/ Precedes(file, i, name) \/ (name = Default /\ ~Defined(file, Default))

(* About failover the manual page says nothing of the kind: that only the  *)
(* default policy may be named before it is defined, and has no failover   *)
(* itself, is the comment in policy.cpp:523-526.                           *)
MayFailOver(file, i, name) ==
  /\ name \in {NoName, Default} \/ Precedes(file, i, name)
  /\ file.policies[i].name = Default => name = NoName

ValidAttributes(obj) ==
  /\ \A k \in DOMAIN obj.acl : \A i \in DOMAIN obj.acl[k] :
       obj.acl[k][i].sign # "?" /\ obj.acl[k][i].hp # BadPredicate
  /\ \A k \in DOMAIN obj.reqs : \A i \in DOMAIN obj.reqs[k] : obj.reqs[k][i].name # "min_lat"
  /\ \A k \in DOMAIN obj.ordering : \A i \in DOMAIN obj.ordering[k] :
       obj.ordering[k][i] # "shortest"

Accepted(file) ==
  /\ \A i \in DOMAIN file.policies :
       LET obj == file.policies[i]
       IN  MayExtend(file, i, obj.extends) /\ MayFailOver(file, i, obj.failover) /\ ValidAttributes(obj)
  /\ \A i \in DOMAIN file.matchers :
       LET m == file.matchers[i]
       IN  /\ m.policy = Default \/ Defined(file, m.policy)
           /\ m.matcher.tc = Absent \/ m.matcher.tc[1] \in 0 .. 63

(* The attribute a policy has: its own, or the one of the policy it        *)
(* extends                                                                 *)
RECURSIVE Inherited(_, _, _)
Inherited(file, i, attribute) ==
  LET obj == file.policies[i]
  IN  CASE obj[attribute] # Absent -> obj[attribute]
        [] obj[attribute] = Absent /\ ~Precedes(file, i, obj.extends) -> Absent
        [] OTHER -> Inherited(file, CHOOSE j \in 1 .. i - 1 : file.policies[j].name = obj.extends,
                              attribute)

AttributeOf(file, name, attribute) ==
  IF Defined(file, name)
  THEN Inherited(file, CHOOSE i \in DOMAIN file.policies : file.policies[i].name = name, attribute)
  ELSE Absent

(* A flow fulfils a clause whose elements are zero or its own. *)
EpMatches(m, ep) == \A element \in {"isd", "asn", "host", "port"} : m[element] \in {0, ep[element]}

FlowMatches(m, flow) ==
  /\ EpMatches(m.src, flow.src) /\ EpMatches(m.dst, flow.dst)
  /\ m.proto \in {0, flow.proto}
  /\ m.tc \in {Absent, <<flow.tc>>}

(* The policies of a flow in the order in which they are tried *)
RECURSIVE ChainFrom(_, _)
ChainFrom(file, name) ==
  LET next == LET i == CHOOSE i \in DOMAIN file.policies : file.policies[i].name = name
              IN  file.policies[i].failover
  IN  IF name = Default \/ next = NoName THEN <<name>> ELSE <<name>> \o ChainFrom(file, next)

Chain(file, flow) ==
  LET applies == {i \in DOMAIN file.matchers : FlowMatches(file.matchers[i].matcher, flow)}
  IN  IF applies = {} THEN <<Default>> ELSE ChainFrom(file, file.matchers[Min(applies)].policy)

(* ISD-ASN, ISD-ASN#IF or ISD-ASN#Ig,Eg, in which any element may be zero *)
HopMatches(hp, hop) ==
  /\ hp.isd \in {0, hop.isd}
  /\ hp.asn \in {0, hop.asn}
  /\ Len(hp.ifs) = 1 => hp.ifs[1] \in {0, hop.ingress, hop.egress}
  /\ Len(hp.ifs) = 2 => hp.ifs[1] \in {0, hop.ingress} /\ hp.ifs[2] \in {0, hop.egress}

(* The cuts of a path into the parts that the elements of an expression    *)
(* stand for                                                               *)
Follows(expr, hs) ==
  \E cut \in [0 .. Len(expr) -> 0 .. Len(hs)] :
    /\ cut[0] = 0 /\ cut[Len(expr)] = Len(hs)
    /\ \A e \in DOMAIN expr :
         LET n == cut[e] - cut[e - 1]
         IN  /\ n >= 0
             /\ expr[e].times \in {"1", "+"} => n > 0
             /\ expr[e].times \in {"1", "?"} => n < 2
             /\ \A i \in cut[e - 1] + 1 .. cut[e] : \E hp \in expr[e].any : HopMatches(hp, hs[i])

Satisfies(req, path) ==
  LET links == path.links[1]
  IN  CASE req.name = "min_mtu" -> path.mtu >= req.value
        [] req.name = "max_meta_lat" ->
             /\ path.links # Absent /\ \A i \in DOMAIN links : links[i].lat > 0
             /\ MapThenSumSet(LAMBDA i : links[i].lat, DOMAIN links) <= req.value * Millisecond
        [] req.name = "min_meta_bw" ->
             path.links # Absent /\ \A i \in DOMAIN links : links[i].bw >= req.value

(* The manual page leaves open what becomes of a hop that no line of the   *)
(* ACL mentions, which the code denies (policy.cpp:391), and of paths      *)
(* without metadata: test_policy.cpp rejects them, but accepts the empty   *)
(* path.                                                                   *)
AllowedBy(file, name, path) ==
  LET acl == AttributeOf(file, name, "acl")
      sequence == AttributeOf(file, name, "sequence")
      reqs == AttributeOf(file, name, "reqs")
      hs == path.ifaces[1]
  IN  \/ path.empty
      \/ /\ path.ifaces # Absent
         /\ acl # Absent =>
              \A h \in DOMAIN hs : \E i \in DOMAIN acl[1] :
                /\ HopMatches(acl[1][i].hp, hs[h]) /\ acl[1][i].sign = "+"
                /\ \A j \in 1 .. i - 1 : ~HopMatches(acl[1][j].hp, hs[h])
         /\ sequence # Absent => Follows(sequence[1], hs)
         /\ reqs # Absent => \A i \in DOMAIN reqs[1] : Satisfies(reqs[1][i], path)

(* The key a path is sorted by, smallest first *)
SortKey(ordering, path) ==
  CASE ordering = "hops_asc"  -> path.hopCount
    [] ordering = "hops_desc" -> -path.hopCount
    [] ordering = "meta_latency_asc"  -> getMetaLatency(path)
    [] ordering = "meta_latency_desc" -> -getMetaLatency(path)
    [] ordering = "meta_bandwidth_asc"  -> getMetaBw(path)
    [] ordering = "meta_bandwidth_desc" -> -getMetaBw(path)

(* The last ordering decides, an earlier one between equals; paths that    *)
(* are equal in all of them stay in the order they came in.  Behind a      *)
(* shuffle any order may remain.                                           *)
RECURSIVE InOrder(_, _, _)
InOrder(orderings, a, b) ==
  LET last == orderings[Len(orderings)]
      ka   == SortKey(last, a.path)
      kb   == SortKey(last, b.path)
  IN  CASE orderings = <<>> -> a.pos < b.pos
        [] orderings # <<>> /\ last = "random" -> TRUE
        [] OTHER -> ka < kb \/ (ka = kb /\ InOrder(Front(orderings), a, b))

WellOrdered(orderings, paths, result) ==
  LET with(k) == [path |-> result[k], pos |-> CHOOSE i \in DOMAIN paths : paths[i] = result[k]]
  IN  \A i, j \in DOMAIN result : i < j => InOrder(orderings, with(i), with(j))

RightSelection(file, flow, paths) ==
  LET results  == applySet(loadJsonFile(file), flow, paths)
      chain    == Chain(file, flow)
      allowed(i) == {p \in ToSet(paths) : AllowedBy(file, chain[i], p)}
      useful   == {i \in DOMAIN chain : allowed(i) # {}}
      ordering == AttributeOf(file, chain[Min(useful)], "ordering")
  IN  /\ IsInjective(chain)
      /\ IF useful = {} THEN results = {<<>>}
         ELSE /\ results # {}
              /\ \A result \in results :
                   /\ IsInjective(result)
                   /\ ToSet(result) = allowed(Min(useful))
                   /\ WellOrdered(IF ordering = Absent THEN <<>> ELSE ordering[1], paths, result)

PolicyRight(file) ==
  /\ loadJsonFile(file).ok <=> Accepted(file)
  /\ loadPathPolicy(<<>>, file) = IF Accepted(file) THEN <<loadJsonFile(file)>> ELSE <<>>
  /\ Accepted(file) => \A flow \in Flows, paths \in PathLists : RightSelection(file, flow, paths)

-----------------------------------------------------------------------------
(* Where the code differs from the manual page *)

(* One of two interfaces is zero: the code ignores the egress if the       *)
(* ingress is zero, and takes #Ig,0 for #IF.                               *)
HalfWild(hp) == Len(hp.ifs) = 2 /\ (hp.ifs[1] = 0) # (hp.ifs[2] = 0)

(* In a sequence the code ignores everything behind an ISD of zero, and    *)
(* the interfaces behind an ASN of zero.                                   *)
Shortened(hp) ==
  \/ hp.isd = 0 /\ (hp.asn # 0 \/ \E i \in DOMAIN hp.ifs : hp.ifs[i] # 0)
  \/ hp.asn = 0 /\ \E i \in DOMAIN hp.ifs : hp.ifs[i] # 0

AclPredicates(file) ==
  UNION {{acl[i].hp : i \in DOMAIN acl} : acl \in UNION {ToSet(obj.acl) : obj \in ToSet(file.policies)}}

SequencePredicates(file) ==
  UNION {UNION {element.any : element \in ToSet(sequence)} :
         sequence \in UNION {ToSet(obj.sequence) : obj \in ToSet(file.policies)}}

(* What the code treats otherwise: matchers without a policy, with the     *)
(* default policy or with a traffic class of zero or more than six bits, a *)
(* default policy that is extended before its definition, and the          *)
(* predicates above                                                        *)
Differences(file) ==
  LET ms == ToSet(file.matchers)
  IN  {d \in {"no_policy", "default_matched", "class", "default_early", "interfaces", "sequence"} :
         CASE d = "no_policy"       -> \E m \in ms : m.policy = NoName
           [] d = "default_matched" -> \E m \in ms : m.policy = Default
           [] d = "class" ->
                \E m \in ms : m.matcher.tc # Absent /\ m.matcher.tc[1] \in {0} \cup 64 .. 255
           [] d = "default_early" ->
                \E i \in DOMAIN file.policies :
                  /\ file.policies[i].extends = Default
                  /\ Defined(file, Default) /\ ~Precedes(file, i, Default)
           [] d = "interfaces" ->
                \E hp \in AclPredicates(file) \cup SequencePredicates(file) : HalfWild(hp)
           [] d = "sequence" -> \E hp \in SequencePredicates(file) : Shortened(hp)}
=============================================================================
