------------------------------ MODULE PathMtu ------------------------------
(***************************************************************************)
(* PathMtuDiscoverer (include/scion/scmp/path_mtu.hpp): Path MTUs in an    *)
(* LRU cache made of a list of records, least recently accessed first, and *)
(* an index of list iterators.  Every method runs under m_mutex, so every  *)
(* method is one action.                                                   *)
(*                                                                         *)
(* List nodes have an identity (Nodes): an iterator in the index may in    *)
(* principle dangle or point to the record of another destination.         *)
(***************************************************************************)
EXTENDS Naturals, SequencesExt

CONSTANTS
  Dests,         \* Destination: host address and digest of the path to it
  Nodes,         \* identities of list nodes
  NoNode,        \* "not in the index"
  Unknown,       \* PMTU of a destination that is not in the cache
  NoRecord,      \* contents of a node that is not in the list
  PathMtus,      \* MTUs in path metadata; 0 means there is no metadata
  ScmpMtus,      \* MTUs reported by SCMP errors or by the local stack
  HopMtus,       \* possible MTUs of the local AS (firstHopMtu)
  Capacities,    \* capacities the cache may be given
  MaxTime        \* bound on the clock

ASSUME PathMtuAssumption ==
  /\ NoNode \notin Nodes
  /\ Unknown \notin Nat
  /\ PathMtus \subseteq Nat
  /\ ScmpMtus \subseteq Nat
  /\ HopMtus \subseteq Nat
  /\ Capacities \subseteq Nat
  /\ MaxTime \in Nat

VARIABLES
  maximumMtu,    \* m_maximumMtu
  capacity,      \* m_capacity
  list,          \* m_mtu: list of nodes, least recently accessed first
  rec,           \* contents of the nodes
  index,         \* m_index
  now            \* the clock callers take their timestamps from

vars == <<maximumMtu, capacity, list, rec, index, now>>

(***************************************************************************)
(* "accessed" is the time of the access itself; lastAccess is the          *)
(* timestamp the caller passed in.  Only lastAccess exists in the code.    *)
(***************************************************************************)
Record == [dest: Dests, lastAccess: Nat, accessed: Nat, mtu: Nat]

TypeOK ==
  /\ maximumMtu \in Nat
  /\ capacity \in Nat \ {0}
  /\ list \in Seq(Nodes)
  /\ DOMAIN rec = Nodes
  /\ \A n \in ToSet(list) : rec[n] \in Record
  /\ index \in [Dests -> Nodes \cup {NoNode}]
  /\ now \in Nat

Max1(c) == IF c = 0 THEN 1 ELSE c

Init ==
  /\ maximumMtu \in HopMtus
  /\ \E c \in Capacities : capacity = Max1(c)
  /\ list = << >>
  /\ rec = [n \in Nodes |-> NoRecord]
  /\ index = [d \in Dests |-> NoNode]
  /\ now = 0

(***************************************************************************)
(* Timestamps callers pass to getMtu().  The threads of Scitra-TUN take    *)
(* theirs when a packet is received and reach the cache after several      *)
(* locks, in any order; exportFlows() takes the default, Timestamp().      *)
(***************************************************************************)
Stamps == 0 .. now

\* Fault: records leave the list, but not the index.
UnindexForgotten(S) == index

\* m_index.erase() for the destinations of all nodes in S.
Unindex(S) ==
  [d \in Dests |-> IF \E n \in S : rec[n].dest = d THEN NoNode ELSE index[d]]

\* The nodes in S are freed.
Freed(S) == [n \in Nodes |-> IF n \in S THEN NoRecord ELSE rec[n]]

\* Fault: an accessed record keeps its place.
SpliceNowhere(i) == list

\* m_mtu.splice(m_mtu.end(), m_mtu, iter) for the node at position i.
SpliceToEnd(i) == Append(RemoveAt(list, i), list[i])

\* get(): a record is found, stamped and becomes the most recently used.
Touch(d, t) ==
  /\ index[d] # NoNode
  /\ \E i \in DOMAIN list : list[i] = index[d] /\ list' = SpliceToEnd(i)
  /\ rec' = [rec EXCEPT ![index[d]] =
               [@ EXCEPT !.lastAccess = t, !.accessed = now]]
  /\ UNCHANGED <<maximumMtu, capacity, index, now>>

\* Fault: eviction starts one record too late.
InsertLate(d, m, t) ==
  /\ index[d] = NoNode
  /\ LET full    == Len(list) > capacity
         evicted == IF full THEN {Head(list)} ELSE {}
         rest    == IF full THEN Tail(list) ELSE list
     IN \E n \in Nodes \ ToSet(rest) :
          /\ list' = Append(rest, n)
          /\ rec' = [Freed(evicted) EXCEPT ![n] =
                       [dest |-> d, lastAccess |-> t, accessed |-> now, mtu |-> m]]
          /\ index' = [Unindex(evicted) EXCEPT ![d] = n]
  /\ UNCHANGED <<maximumMtu, capacity, now>>

\* insert(): the front of a full list is evicted, then n is appended.
Insert(d, m, t) ==
  /\ index[d] = NoNode
  /\ LET full    == Len(list) >= capacity
         evicted == IF full THEN {Head(list)} ELSE {}
         rest    == IF full THEN Tail(list) ELSE list
     IN \E n \in Nodes \ ToSet(rest) :
          /\ list' = Append(rest, n)
          /\ rec' = [Freed(evicted) EXCEPT ![n] =
                       [dest |-> d, lastAccess |-> t, accessed |-> now, mtu |-> m]]
          /\ index' = [Unindex(evicted) EXCEPT ![d] = n]
  /\ UNCHANGED <<maximumMtu, capacity, now>>

\* getMtu(): both overloads; a RawPath has no metadata.
GetMtu(d, meta, t) ==
  \/ Touch(d, t)
  \/ Insert(d, IF meta = 0 THEN maximumMtu ELSE meta, t)

\* Fault: the last reported MTU wins.
UpdateMtuBlindly(d, m) ==
  /\ index[d] # NoNode
  /\ rec' = [rec EXCEPT ![index[d]] = [@ EXCEPT !.mtu = m]]
  /\ UNCHANGED <<maximumMtu, capacity, list, index, now>>

\* updateMtu(): lowers a known PMTU, has no effect otherwise.
UpdateMtu(d, m) ==
  /\ index[d] # NoNode
  /\ rec[index[d]].mtu >= m
  /\ rec' = [rec EXCEPT ![index[d]] = [@ EXCEPT !.mtu = m]]
  /\ UNCHANGED <<maximumMtu, capacity, list, index, now>>

(***************************************************************************)
(* handleScmpCallback(): PacketTooBig carries an MTU, ParameterProblem     *)
(* (invalid size) stands for 8000.  The destination is taken from the      *)
(* quoted packet.                                                          *)
(***************************************************************************)
HandleScmp(d) == \E m \in ScmpMtus : UpdateMtu(d, m)

\* erase()
ForgetMtu(d) ==
  /\ index[d] # NoNode
  /\ \E i \in DOMAIN list : list[i] = index[d] /\ list' = RemoveAt(list, i)
  /\ rec' = Freed({index[d]})
  /\ index' = [index EXCEPT ![d] = NoNode]
  /\ UNCHANGED <<maximumMtu, capacity, now>>

\* The first k records leave the list.
DropFront(k) ==
  LET S == {list[i] : i \in 1 .. k}
  IN /\ list' = SubSeq(list, k + 1, Len(list))
     /\ rec' = Freed(S)
     /\ index' = Unindex(S)

\* Fault: records accessed at cutoff are removed, too.
ClearOldInclusive(cutoff) ==
  /\ \E k \in 0 .. Len(list) :
       /\ \A i \in 1 .. k : rec[list[i]].lastAccess <= cutoff
       /\ k < Len(list) => rec[list[k + 1]].lastAccess > cutoff
       /\ DropFront(k)
  /\ UNCHANGED <<maximumMtu, capacity, now>>

\* clear(cutoff): stops at the first record that is not older than cutoff.
ClearOld(cutoff) ==
  /\ \E k \in 0 .. Len(list) :
       /\ \A i \in 1 .. k : rec[list[i]].lastAccess < cutoff
       /\ k < Len(list) => rec[list[k + 1]].lastAccess >= cutoff
       /\ DropFront(k)
  /\ UNCHANGED <<maximumMtu, capacity, now>>

Clear ==
  /\ DropFront(Len(list))
  /\ UNCHANGED <<maximumMtu, capacity, now>>

\* setCapacity(): the least recently used records are dropped.
SetCapacity(c) ==
  /\ capacity' = Max1(c)
  /\ DropFront(IF capacity' < Len(list) THEN Len(list) - capacity' ELSE 0)
  /\ UNCHANGED <<maximumMtu, now>>

SetFirstHopMtu(m) ==
  /\ maximumMtu' = m
  /\ UNCHANGED <<capacity, list, rec, index, now>>

Tick ==
  /\ now < MaxTime
  /\ now' = now + 1
  /\ UNCHANGED <<maximumMtu, capacity, list, rec, index>>

Next ==
  \/ \E d \in Dests : \/ \E meta \in PathMtus, t \in Stamps : GetMtu(d, meta, t)
                      \/ HandleScmp(d)
                      \/ ForgetMtu(d)
  \/ \E cutoff \in 0 .. now : ClearOld(cutoff)
  \/ Clear
  \/ \E c \in Capacities : SetCapacity(c)
  \/ \E m \in HopMtus : SetFirstHopMtu(m)
  \/ Tick

Spec == Init /\ [][Next]_vars
-----------------------------------------------------------------------------
(***************************************************************************)
(* Properties                                                              *)
(***************************************************************************)

(***************************************************************************)
(* The index and the list describe the same records: no iterator of        *)
(* m_index dangles or leads to another destination's record, no record in  *)
(* the list is unreachable, no node is linked twice.                       *)
(***************************************************************************)
IndexMatchesList ==
  /\ \A d \in Dests : index[d] # NoNode =>
       index[d] \in ToSet(list) /\ rec[index[d]].dest = d
  /\ \A n \in ToSet(list) : index[rec[n].dest] = n
  /\ \A i, j \in DOMAIN list : list[i] = list[j] => i = j

\* insert() evicts and setCapacity() trims: the list never outgrows m_capacity.
WithinCapacity == Len(list) <= capacity

(***************************************************************************)
(* The list is sorted by the time of the last access, whatever timestamps  *)
(* callers pass and in whatever order: the front, which insert() evicts    *)
(* and setCapacity() trims, is the least recently used record.             *)
(***************************************************************************)
SortedByAccess ==
  \A i, j \in DOMAIN list : i < j =>
    rec[list[i]].accessed <= rec[list[j]].accessed

(***************************************************************************)
(* clear(cutoff) stops at the first record stamped at or after cutoff.     *)
(* Late and missing timestamps cannot keep a record alive that was not     *)
(* accessed since cutoff, wherever it is in the list, and no record is     *)
(* lost whose caller gave a timestamp of cutoff or later.                  *)
(***************************************************************************)
ClearRemovesOld ==
  [][\A cutoff \in 0 .. now : ClearOld(cutoff) =>
        /\ \A n \in ToSet(list') : rec[n].accessed >= cutoff
        /\ \A n \in ToSet(list) \ ToSet(list') : rec[n].lastAccess < cutoff]_vars

(***************************************************************************)
(* The LRU cache implements the partial map of PmtuAbs.                    *)
(***************************************************************************)
Known == [d \in Dests |-> IF index[d] = NoNode THEN Unknown ELSE rec[index[d]].mtu]

Abs == INSTANCE PmtuAbs WITH known <- Known

\* PathMtuDiscoverer keeps the promise of PmtuAbs: a late or repeated SCMP error
\* with a larger MTU never raises a known PMTU, a lookup does not reset what an
\* error has lowered, and learning one PMTU evicts at most one other.
ImplementsMap == Abs!Spec

-----------------------------------------------------------------------------
(***************************************************************************)
(* Statements of the headers that the code does not keep                   *)
(***************************************************************************)

(***************************************************************************)
(* path_mtu.hpp, documentation of the constructor: "Path MTUs can never be *)
(* larger than this value" (firstHopMtu).                                  *)
(***************************************************************************)
NeverAboveFirstHop ==
  \A n \in ToSet(list) : rec[n].mtu <= maximumMtu

(***************************************************************************)
(* path_mtu.hpp, documentation of getMtu(): "A monotonically increasing    *)
(* timestamp".  If it were, the list would be sorted by timestamps.        *)
(***************************************************************************)
SortedByStamp ==
  \A i, j \in DOMAIN list : i < j =>
    rec[list[i]].lastAccess <= rec[list[j]].lastAccess

(***************************************************************************)
(* path_mtu.hpp, documentation of clear(cutoff): "Remove all records that  *)
(* have not been accessed since `cutoff`".  A record is lost that was      *)
(* accessed since, with a timestamp taken before.                          *)
(***************************************************************************)
ClearRemovesOnlyOld ==
  [][\A cutoff \in 0 .. now : ClearOld(cutoff) =>
        \A n \in ToSet(list) \ ToSet(list') : rec[n].accessed < cutoff]_vars
=============================================================================
