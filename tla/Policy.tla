------------------------------- MODULE Policy -------------------------------
(***************************************************************************)
(* Path policies (include/scion/path/policy.hpp, src/path/policy.cpp): the *)
(* parsed form of a policy file, the choice of a policy for a flow, and    *)
(* the selection and order of the paths.                                   *)
(*                                                                         *)
(* A value that may be missing is a sequence of at most one element.  A    *)
(* policy file is a sequence of policies in document order and a sequence  *)
(* of matchers; a name that is not given is NoName.  Zero is the wildcard  *)
(* of predicates and matchers.                                             *)
(***************************************************************************)
EXTENDS Integers, Sequences, SequencesExt, FiniteSets, FiniteSetsExt

NoName == ""
Default == "default"

POLICY_INDEX_NONE    == -1
POLICY_INDEX_DEFAULT == -2

MaxDuration == 2147483647 \* Duration::max()
MaxBw       == 2147483647 \* the greatest std::uint64_t
Millisecond == 1000000    \* in nanoseconds

Absent == <<>>

-----------------------------------------------------------------------------
(* TrafficMatcher *)

matchEp(matcher, value) ==
  \/ matcher.isd = 0
  \/ /\ matcher.isd = value.isd
     /\ \/ matcher.asn = 0
        \/ /\ matcher.asn = value.asn
           /\ \/ matcher.host = 0
              \/ matcher.host = value.host /\ matcher.port \in {0, value.port}

match(m, flow) ==
  /\ matchEp(m.src, flow.src)
  /\ matchEp(m.dst, flow.dst)
  /\ m.proto \in {0, flow.proto}
  /\ m.tc \in {0, flow.tc}

-----------------------------------------------------------------------------
(* HopPredicate: match is used by ACLs, regex by sequences *)

matchHop(hp, hop) ==
  /\ hp.isd \in {0, hop.isd}
  /\ hp.asn \in {0, hop.asn}
  /\ hp.ingress # 0 =>
       IF hp.egress # 0 THEN hop.ingress = hp.ingress /\ hop.egress = hp.egress
       ELSE hp.ingress \in {hop.ingress, hop.egress}

(* What the regular expression of a predicate accepts *)
regexHop(hp, hop) ==
  \/ hp.isd = 0
  \/ hp.isd = hop.isd /\ hp.asn = 0
  \/ /\ hp.isd = hop.isd /\ hp.asn = hop.asn
     /\ \/ hp.ingress = 0
        \/ hp.egress = 0 /\ hp.ingress \in {hop.ingress, hop.egress}
        \/ hp.ingress = hop.ingress /\ hp.egress = hop.egress

(* A sequence expression is a sequence of alternatives of predicates, each *)
(* with a quantifier.  regex_match() keeps the set of the numbers of hops  *)
(* that can have been consumed.                                            *)
Consume(element, hs, from) ==
  LET ok(i) == \E hp \in element.any : regexHop(hp, hs[i])
      many  == {n \in from + 1 .. Len(hs) : \A i \in from + 1 .. n : ok(i)}
      one   == many \cap {from + 1}
  IN  CASE element.times = "1" -> one
        [] element.times = "?" -> {from} \cup one
        [] element.times = "+" -> many
        [] element.times = "*" -> {from} \cup many

regex_match(expr, hs) ==
  Len(hs) \in FoldLeft(LAMBDA at, element : UNION {Consume(element, hs, n) : n \in at}, {0}, expr)

-----------------------------------------------------------------------------
(* Metadata and requirements *)

getMetaLatency(path) ==
  IF path.links = Absent \/ \E i \in DOMAIN path.links[1] : path.links[1][i].lat = 0
  THEN MaxDuration
  ELSE FoldLeft(LAMBDA lat, link : lat + link.lat, 0, path.links[1])

getMetaBw(path) ==
  IF path.links = Absent \/ \E i \in DOMAIN path.links[1] : path.links[1][i].bw = 0
  THEN 0
  ELSE FoldLeft(LAMBDA bw, link : IF link.bw < bw THEN link.bw ELSE bw, MaxBw, path.links[1])

fulfills(req, path) ==
  CASE req.name = "min_mtu"      -> path.mtu >= req.value
    [] req.name = "max_meta_lat" -> getMetaLatency(path) <= req.value
    [] req.name = "min_meta_bw"  -> getMetaBw(path) >= req.value

-----------------------------------------------------------------------------
(* Policy: matchACL, matchSequence, checkRequirements, test, sort, apply *)

(* Fault: a hop that no line of the ACL mentions is allowed. *)
AllowUnmentioned(policy, hs) ==
  policy.acl # Absent =>
    \A h \in DOMAIN hs :
      LET lines == SelectSeq(policy.acl[1], LAMBDA line : matchHop(line.hp, hs[h]))
      IN  lines # <<>> => lines[1].allow

matchACL(policy, hs) ==
  policy.acl # Absent =>
    \A h \in DOMAIN hs :
      LET lines == SelectSeq(policy.acl[1], LAMBDA line : matchHop(line.hp, hs[h]))
      IN  lines # <<>> /\ lines[1].allow

matchSequence(policy, hs) ==
  policy.sequence # Absent => regex_match(policy.sequence[1], hs)

checkRequirements(policy, path) ==
  policy.reqs # Absent => \A i \in DOMAIN policy.reqs[1] : fulfills(policy.reqs[1][i], path)

test(policy, path) ==
  \/ path.empty
  \/ /\ path.ifaces # Absent
     /\ checkRequirements(policy, path)
     /\ matchACL(policy, path.ifaces[1])
     /\ matchSequence(policy, path.ifaces[1])

(* stable_sort by a key, ascending or descending *)
stable_sort(paths, key(_), asc) ==
  LET before(i, j) == LET a == key(paths[i])
                          b == key(paths[j])
                      IN  IF a = b THEN i < j ELSE (a < b) = asc
      rank(i)      == 1 + Cardinality({j \in DOMAIN paths : before(j, i)})
  IN  [k \in DOMAIN paths |-> paths[CHOOSE i \in DOMAIN paths : rank(i) = k]]

hopCount(path) == path.hopCount

Sorted(ordering, paths) ==
  CASE ordering = "random"              -> SetToSeqs(ToSet(paths))
    [] ordering = "hops_asc"            -> {stable_sort(paths, hopCount, TRUE)}
    [] ordering = "hops_desc"           -> {stable_sort(paths, hopCount, FALSE)}
    [] ordering = "meta_latency_asc"    -> {stable_sort(paths, getMetaLatency, TRUE)}
    [] ordering = "meta_latency_desc"   -> {stable_sort(paths, getMetaLatency, FALSE)}
    [] ordering = "meta_bandwidth_asc"  -> {stable_sort(paths, getMetaBw, TRUE)}
    [] ordering = "meta_bandwidth_desc" -> {stable_sort(paths, getMetaBw, FALSE)}

(* The orders sort() may leave: the shuffle is random *)
sort(policy, paths) ==
  IF policy.ordering = Absent THEN {paths}
  ELSE FoldLeft(LAMBDA results, ordering : UNION {Sorted(ordering, r) : r \in results},
                {paths}, policy.ordering[1])

apply(policy, paths) == sort(policy, SelectSeq(paths, LAMBDA p : test(policy, p)))

-----------------------------------------------------------------------------
(* Parsing *)

OrderingNames ==
  {"random", "hops_asc", "hops_desc", "meta_latency_asc", "meta_latency_desc",
   "meta_bandwidth_asc", "meta_bandwidth_desc"}

(* A predicate of a file names an AS and no interface, one, or two.        *)
(* HopPredicate::Parse() refuses BadPredicate.                             *)
BadPredicate == [isd |-> -1, asn |-> 0, ifs |-> <<>>]

ParseHop(hp) ==
  [isd |-> hp.isd, asn |-> hp.asn, ingress |-> IF hp.ifs = <<>> THEN 0 ELSE hp.ifs[1],
   egress |-> IF Len(hp.ifs) < 2 THEN 0 ELSE hp.ifs[2]]

parseAcl(lines) ==
  [ok |-> \A i \in DOMAIN lines : lines[i].sign \in {"+", "-"} /\ lines[i].hp # BadPredicate,
   value |-> [i \in DOMAIN lines |-> [allow |-> lines[i].sign = "+", hp |-> ParseHop(lines[i].hp)]]]

parseRequirements(reqs) ==
  [ok |-> \A i \in DOMAIN reqs : reqs[i].name \in {"min_mtu", "max_meta_lat", "min_meta_bw"},
   value |-> [i \in DOMAIN reqs |->
                [name |-> reqs[i].name,
                 value |-> CASE reqs[i].name = "min_mtu" -> Min({reqs[i].value, 65535})
                             [] reqs[i].name = "max_meta_lat" -> reqs[i].value * Millisecond
                             [] OTHER -> reqs[i].value]]]

parseOrdering(names) ==
  [ok |-> \A i \in DOMAIN names : names[i] \in OrderingNames, value |-> names]

(* The sequence expression: each predicate in it has to be valid *)
parseSequence(expr) ==
  [ok |-> \A i \in DOMAIN expr : BadPredicate \notin expr[i].any,
   value |-> [i \in DOMAIN expr |-> [expr[i] EXCEPT !.any = {ParseHop(hp) : hp \in @}]]]

EmptyPolicy == [acl |-> Absent, sequence |-> Absent, reqs |-> Absent, ordering |-> Absent]

(* The constructor: attributes that are not defined come from the base *)
MakePolicy(obj, base) ==
  LET own(given, parsed(_), inherited) ==
        IF given = Absent THEN [ok |-> TRUE, value |-> inherited]
        ELSE [ok |-> parsed(given[1]).ok, value |-> <<parsed(given[1]).value>>]
      acl      == own(obj.acl, parseAcl, base.acl)
      sequence == own(obj.sequence, parseSequence, base.sequence)
      reqs     == own(obj.reqs, parseRequirements, base.reqs)
      ordering == own(obj.ordering, parseOrdering, base.ordering)
  IN  [ok |-> acl.ok /\ sequence.ok /\ reqs.ok /\ ordering.ok,
       policy |-> [acl |-> acl.value, sequence |-> sequence.value, reqs |-> reqs.value,
                   ordering |-> ordering.value]]

EmptySet == [ok |-> TRUE, names |-> <<>>, policies |-> <<>>, default |-> EmptyPolicy,
             matchers |-> <<>>]

(* policyNames: the index of the policy with a name, zero if there is none *)
IndexOf(set, name) == IF name \in ToSet(set.names)
                      THEN CHOOSE i \in DOMAIN set.names : set.names[i] = name ELSE 0

(* One element of "policies"; after an exception nothing else is parsed *)
ParsePolicy(set, obj) ==
  LET known(name) == name \in {NoName, Default} \cup ToSet(set.names)
      base == CASE obj.extends = NoName  -> EmptyPolicy
                [] obj.extends = Default -> set.default
                [] OTHER -> set.policies[IndexOf(set, obj.extends)].policy
      next == CASE obj.failover = NoName  -> POLICY_INDEX_NONE
                [] obj.failover = Default -> POLICY_INDEX_DEFAULT
                [] OTHER -> IndexOf(set, obj.failover)
  IN  CASE ~set.ok -> set
        [] set.ok /\ (\/ ~known(obj.extends) \/ ~known(obj.failover)
                      \/ obj.name = Default /\ obj.failover # NoName
                      \/ ~MakePolicy(obj, base).ok) -> [set EXCEPT !.ok = FALSE]
        [] OTHER ->
             LET policy == MakePolicy(obj, base).policy
             IN  IF obj.name = Default THEN [set EXCEPT !.default = policy]
                 ELSE [set EXCEPT !.names = Append(@, obj.name),
                                  !.policies = Append(@, [policy |-> policy, next |-> next])]

(* The constructor of TrafficMatcher: clauses that are not given are zero *)
MakeMatcher(m) == [m EXCEPT !.tc = IF @ = Absent THEN 0 ELSE @[1]]

(* One element of "matchers" *)
ParseMatcher(set, obj) ==
  LET index == IF obj.policy = NoName THEN POLICY_INDEX_NONE ELSE IndexOf(set, obj.policy)
  IN  IF set.ok /\ index # 0 /\ MakeMatcher(obj.matcher).tc \in 0 .. 255
      THEN [set EXCEPT !.matchers =
              Append(@, [matcher |-> MakeMatcher(obj.matcher), policy |-> index])]
      ELSE [set EXCEPT !.ok = FALSE]

(* loadJsonFile and parse *)
loadJsonFile(file) ==
  FoldLeft(ParseMatcher, FoldLeft(ParsePolicy, EmptySet, file.policies), file.matchers)

(* ScitraTun::loadPathPolicy: a file that is refused changes nothing *)
loadPathPolicy(current, file) ==
  IF loadJsonFile(file).ok THEN <<loadJsonFile(file)>> ELSE current

-----------------------------------------------------------------------------
(* PolicySet *)

getPolicyIndex(set, flow) ==
  LET hits == SelectSeq(set.matchers, LAMBDA m : /\ match(m.matcher, flow)
                                                 /\ m.policy \in DOMAIN set.policies)
  IN  IF hits # <<>> THEN set.policies[hits[1].policy]
      ELSE [policy |-> set.default, next |-> POLICY_INDEX_NONE]

RECURSIVE Failover(_, _, _)
Failover(set, entry, paths) ==
  LET filtered == apply(entry.policy, paths)
  IN  CASE filtered # {<<>>} \/ entry.next = POLICY_INDEX_NONE -> filtered
        [] filtered = {<<>>} /\ entry.next = POLICY_INDEX_DEFAULT -> apply(set.default, paths)
        [] OTHER -> Failover(set, set.policies[entry.next], paths)

applySet(set, flow, paths) ==
  IF paths = <<>> THEN {paths} ELSE Failover(set, getPolicyIndex(set, flow), paths)
=============================================================================
