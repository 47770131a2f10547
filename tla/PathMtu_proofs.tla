--------------------------- MODULE PathMtu_proofs ---------------------------
(***************************************************************************)
(* Proofs about the Path MTU cache for every number of destinations,       *)
(* nodes, capacities and MTUs.                                             *)
(***************************************************************************)
EXTENDS PathMtu, SequenceTheorems, TLAPS

-----------------------------------------------------------------------------
(***************************************************************************)
(* Facts about lists without repetitions.                                  *)
(***************************************************************************)
Distinct(s) == \A i, j \in DOMAIN s : s[i] = s[j] => i = j

\* Erasing the i-th element of a list shifts the elements behind it.
LEMMA RemoveAtSeq ==
  ASSUME NEW S, NEW s \in Seq(S), NEW i \in DOMAIN s
  PROVE  /\ RemoveAt(s, i) \in Seq(S)
         /\ Len(RemoveAt(s, i)) = Len(s) - 1
         /\ \A j \in 1 .. Len(s) - 1 :
              RemoveAt(s, i)[j] = IF j < i THEN s[j] ELSE s[j + 1]
<1> DEFINE a == SubSeq(s, 1, i - 1)
           b == SubSeq(s, i + 1, Len(s))
<1>0. i \in 1 .. Len(s) /\ Len(s) \in Nat
  OBVIOUS
<1>1. a \in Seq(S) /\ Len(a) = i - 1 /\ \A j \in 1 .. i - 1 : a[j] = s[j]
  BY <1>0
<1>2. b \in Seq(S) /\ Len(b) = Len(s) - i /\ \A j \in 1 .. Len(s) - i : b[j] = s[i + j]
  BY <1>0
<1>3. RemoveAt(s, i) = a \o b
  BY DEF RemoveAt
<1> HIDE DEF a, b
<1>4. a \o b \in Seq(S) /\ Len(a \o b) = Len(s) - 1
  BY <1>0, <1>1, <1>2
<1>5. ASSUME NEW j \in 1 .. Len(s) - 1
      PROVE  (a \o b)[j] = IF j < i THEN s[j] ELSE s[j + 1]
  <2>1. CASE j < i
    BY <1>0, <1>1, <1>2, <2>1
  <2>2. CASE ~(j < i)
    <3>1. (a \o b)[j] = b[j - Len(a)]
      BY <1>0, <1>1, <1>2, <2>2, SMTT(30)
    <3>2. j - (i - 1) \in 1 .. Len(s) - i /\ i + (j - (i - 1)) = j + 1
      BY <1>0, <2>2
    <3>3. QED BY <1>0, <1>1, <1>2, <2>2, <3>1, <3>2
  <2>3. QED BY <2>1, <2>2
<1>6. QED BY <1>3, <1>4, <1>5

\* Erasing from a list without repetitions removes exactly that element.
LEMMA RemoveAtSet ==
  ASSUME NEW S, NEW s \in Seq(S), NEW i \in DOMAIN s, Distinct(s)
  PROVE  /\ ToSet(RemoveAt(s, i)) = ToSet(s) \ {s[i]}
         /\ Distinct(RemoveAt(s, i))
<1> DEFINE r == RemoveAt(s, i)
<1>0. i \in 1 .. Len(s) /\ Len(s) \in Nat /\ DOMAIN s = 1 .. Len(s)
  OBVIOUS
<1>a. /\ r \in Seq(S) /\ Len(r) = Len(s) - 1
      /\ \A j \in 1 .. Len(s) - 1 : r[j] = IF j < i THEN s[j] ELSE s[j + 1]
  BY RemoveAtSeq
<1> HIDE DEF r
<1>b. DOMAIN r = 1 .. Len(s) - 1
  BY <1>a
<1>1. /\ r \in Seq(S) /\ Len(r) = Len(s) - 1 /\ DOMAIN r = 1 .. Len(s) - 1
      /\ \A j \in 1 .. Len(s) - 1 : r[j] = IF j < i THEN s[j] ELSE s[j + 1]
  BY <1>a, <1>b
<1>2. ASSUME NEW x \in ToSet(r) PROVE x \in ToSet(s) \ {s[i]}
  BY <1>0, <1>1 DEF ToSet, Distinct
<1>3. ASSUME NEW x \in ToSet(s) \ {s[i]} PROVE x \in ToSet(r)
  <2>1. PICK k \in 1 .. Len(s) : x = s[k] /\ k # i
    BY <1>0 DEF ToSet
  <2>2. CASE k < i
    BY <1>0, <1>1, <2>1, <2>2 DEF ToSet
  <2>3. CASE k > i
    <3>1. k - 1 \in 1 .. Len(s) - 1 /\ r[k - 1] = s[k]
      BY <1>0, <1>1, <2>1, <2>3
    <3>2. QED BY <1>1, <2>1, <3>1 DEF ToSet
  <2>4. QED BY <1>0, <2>1, <2>2, <2>3
<1>4. Distinct(r)
  BY <1>0, <1>1, SMTT(30) DEF Distinct
<1>5. QED BY <1>2, <1>3, <1>4 DEF r

\* Appending a new element to a list without repetitions.
LEMMA AppendSet ==
  ASSUME NEW S, NEW s \in Seq(S), NEW x \in S
  PROVE  /\ Append(s, x) \in Seq(S)
         /\ Len(Append(s, x)) = Len(s) + 1
         /\ ToSet(Append(s, x)) = ToSet(s) \cup {x}
         /\ Distinct(s) /\ x \notin ToSet(s) => Distinct(Append(s, x))
<1> DEFINE r == Append(s, x)
<1>0. DOMAIN s = 1 .. Len(s) /\ Len(s) \in Nat
  OBVIOUS
<1>a. /\ r \in Seq(S) /\ Len(r) = Len(s) + 1
      /\ \A j \in 1 .. Len(s) : r[j] = s[j]
      /\ r[Len(s) + 1] = x
  BY <1>0
<1> HIDE DEF r
<1>b. DOMAIN r = 1 .. Len(s) + 1
  BY <1>a
<1>1. /\ r \in Seq(S) /\ Len(r) = Len(s) + 1 /\ DOMAIN r = 1 .. Len(s) + 1
      /\ \A j \in 1 .. Len(s) : r[j] = s[j]
      /\ r[Len(s) + 1] = x
      /\ DOMAIN s = 1 .. Len(s) /\ Len(s) \in Nat
  BY <1>0, <1>a, <1>b
<1>2. ToSet(r) = ToSet(s) \cup {x}
  BY <1>1 DEF ToSet
<1>3. Distinct(s) /\ x \notin ToSet(s) => Distinct(r)
  BY <1>1 DEF Distinct, ToSet
<1>4. QED BY <1>1, <1>2, <1>3 DEF r

\* Dropping the first k elements of a list without repetitions.
LEMMA SuffixSet ==
  ASSUME NEW S, NEW s \in Seq(S), NEW k \in 0 .. Len(s), Distinct(s)
  PROVE  LET r == SubSeq(s, k + 1, Len(s))
         IN  /\ r \in Seq(S)
             /\ Len(r) = Len(s) - k
             /\ \A j \in 1 .. Len(s) - k : r[j] = s[k + j]
             /\ ToSet(r) = ToSet(s) \ {s[i] : i \in 1 .. k}
             /\ Distinct(r)
<1> DEFINE r == SubSeq(s, k + 1, Len(s))
<1>0. Len(s) \in Nat /\ DOMAIN s = 1 .. Len(s) /\ k \in Nat /\ k <= Len(s)
  OBVIOUS
<1>a. /\ r \in Seq(S) /\ Len(r) = Len(s) - k
      /\ \A j \in 1 .. Len(s) - k : r[j] = s[k + j]
  <2>1. k + 1 \in Int /\ Len(s) \in Int /\ \A i \in k + 1 .. Len(s) : s[i] \in S
    BY <1>0
  <2>2. /\ r \in Seq(S)
        /\ Len(r) = IF k + 1 <= Len(s) THEN Len(s) - (k + 1) + 1 ELSE 0
        /\ \A i \in 1 .. Len(s) - (k + 1) + 1 : r[i] = s[(k + 1) + i - 1]
    BY <2>1, SubSeqProperties
  <2> HIDE DEF r
  <2>3. Len(r) = Len(s) - k
    <3>1. ASSUME NEW n \in Nat, k \in Nat, k <= n
          PROVE  (IF k + 1 <= n THEN n - (k + 1) + 1 ELSE 0) = n - k
      BY <3>1
    <3>2. QED BY <1>0, <2>2, <3>1
  <2>4. ASSUME NEW j \in 1 .. Len(s) - k PROVE r[j] = s[k + j]
    <3>1. j \in 1 .. Len(s) - (k + 1) + 1 /\ (k + 1) + j - 1 = k + j
      BY <1>0
    <3>2. QED BY <2>2, <3>1
  <2>5. QED BY <2>2, <2>3, <2>4
<1> HIDE DEF r
<1>b. DOMAIN r = 1 .. Len(s) - k
  BY <1>a
<1>1. /\ r \in Seq(S) /\ Len(r) = Len(s) - k /\ DOMAIN r = 1 .. Len(s) - k
      /\ \A j \in 1 .. Len(s) - k : r[j] = s[k + j]
  BY <1>a, <1>b
<1>2. ASSUME NEW x \in ToSet(r) PROVE x \in ToSet(s) \ {s[i] : i \in 1 .. k}
  <2>1. PICK j \in 1 .. Len(s) - k : x = s[k + j]
    BY <1>1 DEF ToSet
  <2>2. k + j \in DOMAIN s /\ \A i \in 1 .. k : i \in DOMAIN s /\ i # k + j
    BY <1>0
  <2>3. QED BY <2>1, <2>2 DEF ToSet, Distinct
<1>3. ASSUME NEW x \in ToSet(s) \ {s[i] : i \in 1 .. k} PROVE x \in ToSet(r)
  <2>1. PICK j \in 1 .. Len(s) : x = s[j] /\ j \notin 1 .. k
    BY <1>0 DEF ToSet
  <2>2. j - k \in 1 .. Len(s) - k /\ r[j - k] = s[j]
    BY <1>0, <1>1, <2>1
  <2>3. QED BY <1>1, <2>1, <2>2 DEF ToSet
<1>4. ASSUME NEW i \in DOMAIN r, NEW j \in DOMAIN r, r[i] = r[j] PROVE i = j
  <2>1. k + i \in DOMAIN s /\ k + j \in DOMAIN s /\ s[k + i] = s[k + j]
    BY <1>0, <1>1, <1>4
  <2>2. QED BY <1>0, <1>1, <2>1 DEF Distinct
<1>5. QED BY <1>1, <1>2, <1>3, <1>4 DEF r, Distinct

-----------------------------------------------------------------------------
(***************************************************************************)
(* The inductive invariant.  IndexMatchesList alone is inductive only      *)
(* together with the types: it reads records through nodes and nodes       *)
(* through positions.                                                      *)
(***************************************************************************)
ListInv ==
  /\ list \in Seq(Nodes)
  /\ DOMAIN rec = Nodes
  /\ \A n \in ToSet(list) : rec[n] \in Record
  /\ index \in [Dests -> Nodes \cup {NoNode}]
  /\ IndexMatchesList

IInv == TypeOK /\ IndexMatchesList /\ WithinCapacity

\* Erasing records from the front of the list, whatever asked for it.
LEMMA DropFrontInv ==
  ASSUME ListInv, NEW k \in 0 .. Len(list), DropFront(k)
  PROVE  ListInv' /\ Len(list') = Len(list) - k
<1> DEFINE S == {list[i] : i \in 1 .. k}
<1>1. list \in Seq(Nodes) /\ Distinct(list)
  BY DEF ListInv, IndexMatchesList, Distinct
<1>2. /\ list' \in Seq(Nodes)
      /\ Len(list') = Len(list) - k
      /\ ToSet(list') = ToSet(list) \ S
      /\ Distinct(list')
  BY <1>1, SuffixSet, ZenonT(40) DEF DropFront
<1>3. S \subseteq ToSet(list)
  BY <1>1 DEF ToSet
<1>4. rec' = Freed(S) /\ index' = Unindex(S)
  BY DEF DropFront
<1> HIDE DEF S
<1>5. ToSet(list) \subseteq Nodes
  BY <1>1 DEF ToSet
<1>6. DOMAIN rec' = Nodes /\ \A n \in ToSet(list') : rec'[n] = rec[n] /\ rec[n] \in Record
  BY <1>2, <1>4, <1>5 DEF Freed, ListInv
<1>7. index' \in [Dests -> Nodes \cup {NoNode}]
  BY <1>4 DEF Unindex, ListInv
<1>8. ASSUME NEW d \in Dests, index'[d] # NoNode
      PROVE  index'[d] \in ToSet(list') /\ rec'[index'[d]].dest = d
  <2>1. index'[d] = index[d] /\ ~(\E n \in S : rec[n].dest = d)
    BY <1>4, <1>8 DEF Unindex
  <2>2. index[d] \in ToSet(list) /\ rec[index[d]].dest = d
    BY <1>8, <2>1 DEF ListInv, IndexMatchesList
  <2>3. QED BY <1>2, <1>6, <2>1, <2>2
<1>9. ASSUME NEW n \in ToSet(list') PROVE index'[rec'[n].dest] = n
  <2>1. n \in ToSet(list) /\ n \notin S /\ rec'[n] = rec[n] /\ rec[n].dest \in Dests
    BY <1>2, <1>6 DEF Record
  <2>2. index[rec[n].dest] = n
    BY <2>1 DEF ListInv, IndexMatchesList
  <2>3. ASSUME NEW m \in S, rec[m].dest = rec[n].dest PROVE FALSE
    BY <1>3, <2>1, <2>2, <2>3 DEF ListInv, IndexMatchesList
  <2>4. QED BY <1>4, <2>1, <2>2, <2>3 DEF Unindex
<1>10. QED
  BY <1>2, <1>6, <1>7, <1>8, <1>9 DEF ListInv, IndexMatchesList, Distinct

\* A lookup that finds a record moves it to the end of the list.
LEMMA TouchInv ==
  ASSUME ListInv, now \in Nat, NEW d \in Dests, NEW t \in Nat, Touch(d, t)
  PROVE  ListInv' /\ Len(list') = Len(list)
<1>1. list \in Seq(Nodes) /\ Distinct(list) /\ ToSet(list) \subseteq Nodes
  BY DEF ListInv, IndexMatchesList, Distinct, ToSet
<1>2. PICK i \in DOMAIN list : list[i] = index[d] /\ list' = SpliceToEnd(i)
  BY DEF Touch
<1> DEFINE r == RemoveAt(list, i)
           x == list[i]
<1>3. /\ r \in Seq(Nodes) /\ Len(r) = Len(list) - 1
      /\ ToSet(r) = ToSet(list) \ {x} /\ Distinct(r)
  BY <1>1, RemoveAtSeq, RemoveAtSet
<1>4. x \in ToSet(list) /\ x \in Nodes /\ Len(list) \in Nat
  BY <1>1 DEF ToSet
<1>5. list' = Append(r, x)
  BY <1>2 DEF SpliceToEnd
<1> HIDE DEF r, x
<1>6. /\ list' \in Seq(Nodes) /\ Len(list') = Len(list)
      /\ ToSet(list') = ToSet(list) /\ Distinct(list')
  <2>1. /\ list' \in Seq(Nodes) /\ Len(list') = Len(r) + 1
        /\ ToSet(list') = ToSet(r) \cup {x}
        /\ Distinct(r) /\ x \notin ToSet(r) => Distinct(list')
    BY <1>3, <1>4, <1>5, AppendSet
  <2>2. Len(list') = Len(list)
    BY <1>3, <1>4, <2>1
  <2>3. QED BY <1>3, <1>4, <2>1, <2>2
<1>7. /\ DOMAIN rec' = Nodes /\ index' = index
      /\ \A n \in ToSet(list) : rec'[n] \in Record /\ rec'[n].dest = rec[n].dest
  BY <1>1 DEF Touch, ListInv, Record
<1>8. QED
  BY <1>6, <1>7 DEF ListInv, IndexMatchesList, Distinct

\* A lookup that finds nothing evicts the front of a full list and appends.
LEMMA InsertInv ==
  ASSUME ListInv, now \in Nat, capacity \in Nat \ {0}, WithinCapacity,
         NEW d \in Dests, NEW m \in Nat, NEW t \in Nat, Insert(d, m, t)
  PROVE  ListInv' /\ Len(list') <= capacity
<1> DEFINE full    == Len(list) >= capacity
           evicted == IF full THEN {Head(list)} ELSE {}
           rest    == IF full THEN Tail(list) ELSE list
           R       == [dest |-> d, lastAccess |-> t, accessed |-> now, mtu |-> m]
<1>0. list \in Seq(Nodes) /\ Distinct(list)
  BY DEF ListInv, IndexMatchesList, Distinct
<1>1. /\ list \in Seq(Nodes) /\ Distinct(list) /\ ToSet(list) \subseteq Nodes
      /\ Len(list) \in Nat
  BY <1>0 DEF ToSet
<1>2. PICK n \in Nodes \ ToSet(rest) :
        /\ list' = Append(rest, n)
        /\ rec' = [Freed(evicted) EXCEPT ![n] = R]
        /\ index' = [Unindex(evicted) EXCEPT ![d] = n]
  BY DEF Insert
<1>3. /\ rest \in Seq(Nodes) /\ Distinct(rest) /\ evicted \subseteq ToSet(list)
      /\ ToSet(rest) = ToSet(list) \ evicted
      /\ Len(rest) < capacity
  <2>1. CASE full
    <3>1. 1 \in DOMAIN list /\ Head(list) = list[1] /\ Len(list) # 0 /\ Len(list) = capacity
      BY <1>1, <2>1 DEF WithinCapacity
    <3>2. Tail(list) = SubSeq(list, 2, Len(list))
      BY <1>1, <3>1
    <3>3. {list[i] : i \in 1 .. 1} = {list[1]}
      OBVIOUS
    <3>4. 1 \in 0 .. Len(list) /\ 1 + 1 = 2
      BY <1>1, <3>1
    <3>5. /\ SubSeq(list, 1 + 1, Len(list)) \in Seq(Nodes)
          /\ Len(SubSeq(list, 1 + 1, Len(list))) = Len(list) - 1
          /\ ToSet(SubSeq(list, 1 + 1, Len(list))) = ToSet(list) \ {list[i] : i \in 1 .. 1}
          /\ Distinct(SubSeq(list, 1 + 1, Len(list)))
      BY <1>1, <3>4, SuffixSet
    <3>6. list[1] \in ToSet(list)
      BY <3>1 DEF ToSet
    <3> DEFINE u == Tail(list)
    <3>7. u \in Seq(Nodes) /\ Len(u) = Len(list) - 1 /\ Distinct(u)
          /\ ToSet(u) = ToSet(list) \ {list[1]}
      BY <3>2, <3>3, <3>4, <3>5
    <3>8. rest = u /\ evicted = {list[1]}
      BY <2>1, <3>1
    <3> HIDE DEF u, rest, evicted
    <3>9. Len(u) < capacity
      BY <1>1, <3>1, <3>7
    <3>10. QED BY <3>6, <3>7, <3>8, <3>9
  <2>2. CASE ~full
    BY <1>1, <2>2
  <2>3. QED BY <2>1, <2>2
<1>4. ToSet(rest) \subseteq Nodes
  BY <1>1, <1>3
<1>5. R \in Record /\ R.dest = d
  BY DEF Record
<1> HIDE DEF rest, evicted, R
<1>6. /\ list' \in Seq(Nodes) /\ Len(list') = Len(rest) + 1
      /\ ToSet(list') = ToSet(rest) \cup {n} /\ Distinct(list')
  BY <1>2, <1>3, AppendSet
<1>7. Len(list') <= capacity
  <2>1. Len(rest) \in Nat
    BY <1>3
  <2>2. QED BY <1>3, <1>6, <2>1
<1>8. /\ DOMAIN rec' = Nodes
      /\ rec'[n] = R
      /\ \A k \in ToSet(rest) : rec'[k] = rec[k] /\ rec[k] \in Record
  BY <1>2, <1>3, <1>4 DEF Freed, ListInv
<1>9. /\ index' \in [Dests -> Nodes \cup {NoNode}]
      /\ index'[d] = n
      /\ \A e \in Dests \ {d} : index'[e] = IF \E k \in evicted : rec[k].dest = e
                                          THEN NoNode ELSE index[e]
  BY <1>2 DEF Unindex, ListInv
<1>10. ASSUME NEW e \in Dests, index'[e] # NoNode
       PROVE  index'[e] \in ToSet(list') /\ rec'[index'[e]].dest = e
  <2>1. CASE e = d
    BY <1>5, <1>6, <1>8, <1>9, <2>1
  <2>2. CASE e # d
    <3>1. index'[e] = index[e] /\ ~(\E k \in evicted : rec[k].dest = e)
      BY <1>9, <1>10, <2>2
    <3>2. index[e] \in ToSet(list) /\ rec[index[e]].dest = e
      BY <1>10, <3>1 DEF ListInv, IndexMatchesList
    <3>3. index[e] \in ToSet(rest)
      BY <1>3, <3>1, <3>2
    <3>4. QED BY <1>6, <1>8, <3>1, <3>2, <3>3
  <2>3. QED BY <2>1, <2>2
<1>11. ASSUME NEW k \in ToSet(list') PROVE index'[rec'[k].dest] = k
  <2>1. CASE k = n
    BY <1>5, <1>8, <1>9, <2>1
  <2>2. CASE k # n
    <3>1. k \in ToSet(rest) /\ k \in ToSet(list) /\ k \notin evicted
      BY <1>3, <1>6, <2>2
    <3>2. rec'[k] = rec[k] /\ rec[k].dest \in Dests
      BY <1>8, <3>1 DEF Record
    <3>3. index[rec[k].dest] = k
      BY <3>1 DEF ListInv, IndexMatchesList
    <3>4. rec[k].dest # d
      <4>1. k # NoNode
        BY <1>4, <3>1, PathMtuAssumption
      <4>2. index[d] = NoNode
        BY DEF Insert
      <4>3. QED BY <3>3, <4>1, <4>2
    <3>5. ASSUME NEW l \in evicted, rec[l].dest = rec[k].dest PROVE FALSE
      BY <1>3, <3>1, <3>3, <3>5 DEF ListInv, IndexMatchesList
    <3>6. QED BY <1>9, <3>2, <3>3, <3>4, <3>5
  <2>3. QED BY <2>1, <2>2
<1>12. \A k \in ToSet(list') : rec'[k] \in Record
  BY <1>5, <1>6, <1>8
<1>13. QED
  BY <1>6, <1>7, <1>8, <1>9, <1>10, <1>11, <1>12 DEF ListInv, IndexMatchesList, Distinct

\* A known PMTU is lowered in place.
LEMMA UpdateMtuInv ==
  ASSUME ListInv, NEW d \in Dests, NEW m \in Nat, UpdateMtu(d, m)
  PROVE  ListInv' /\ list' = list
<1>1. ToSet(list) \subseteq Nodes /\ list' = list /\ index' = index
  BY DEF ListInv, ToSet, UpdateMtu
<1>2. /\ DOMAIN rec' = Nodes
      /\ \A n \in ToSet(list) : rec'[n] \in Record /\ rec'[n].dest = rec[n].dest
  BY <1>1 DEF UpdateMtu, ListInv, Record
<1>3. QED BY <1>1, <1>2 DEF ListInv, IndexMatchesList

\* One record is erased.
LEMMA ForgetMtuInv ==
  ASSUME ListInv, NEW d \in Dests, ForgetMtu(d)
  PROVE  ListInv' /\ Len(list') = Len(list) - 1
<1>0. list \in Seq(Nodes) /\ Distinct(list)
  BY DEF ListInv, IndexMatchesList, Distinct
<1>1. ToSet(list) \subseteq Nodes
  BY <1>0 DEF ToSet
<1>2. PICK i \in DOMAIN list : list[i] = index[d] /\ list' = RemoveAt(list, i)
  BY DEF ForgetMtu
<1>3. /\ list' \in Seq(Nodes) /\ Len(list') = Len(list) - 1
      /\ ToSet(list') = ToSet(list) \ {index[d]} /\ Distinct(list')
  BY <1>0, <1>2, RemoveAtSeq, RemoveAtSet
<1>4. /\ DOMAIN rec' = Nodes
      /\ \A n \in ToSet(list') : rec'[n] = rec[n] /\ rec[n] \in Record
  BY <1>1, <1>3 DEF ForgetMtu, Freed, ListInv
<1>5. index' = [index EXCEPT ![d] = NoNode] /\ index[d] # NoNode
  BY DEF ForgetMtu
<1>6. index' \in [Dests -> Nodes \cup {NoNode}]
  BY <1>5 DEF ListInv
<1>7. ASSUME NEW e \in Dests, index'[e] # NoNode
      PROVE  index'[e] \in ToSet(list') /\ rec'[index'[e]].dest = e
  <2>1. e # d /\ index'[e] = index[e]
    BY <1>5, <1>7 DEF ListInv
  <2>2. index[e] \in ToSet(list) /\ rec[index[e]].dest = e /\ rec[index[d]].dest = d
    BY <1>5, <1>7, <2>1 DEF ListInv, IndexMatchesList
  <2>3. QED BY <1>3, <1>4, <2>1, <2>2
<1>8. ASSUME NEW n \in ToSet(list') PROVE index'[rec'[n].dest] = n
  <2>1. rec'[n] = rec[n] /\ rec[n].dest \in Dests /\ n \in ToSet(list) /\ n # index[d]
    BY <1>3, <1>4 DEF Record
  <2>2. index[rec[n].dest] = n
    BY <2>1 DEF ListInv, IndexMatchesList
  <2>3. QED BY <1>5, <2>1, <2>2 DEF ListInv
<1>9. QED
  BY <1>3, <1>4, <1>6, <1>7, <1>8 DEF ListInv, IndexMatchesList, Distinct

LEMMA InitInv == Init => IInv
<1> SUFFICES ASSUME Init PROVE IInv
  OBVIOUS
<1>1. list \in Seq(Nodes) /\ ToSet(list) = {} /\ Len(list) = 0 /\ DOMAIN list = {}
  BY DEF Init, ToSet
<1>2. maximumMtu \in Nat /\ capacity \in Nat \ {0}
  BY PathMtuAssumption DEF Init, Max1
<1>3. index = [d \in Dests |-> NoNode] /\ DOMAIN rec = Nodes /\ now = 0
  BY DEF Init
<1>4. QED BY <1>1, <1>2, <1>3 DEF IInv, TypeOK, IndexMatchesList, WithinCapacity

LEMMA NextInv == IInv /\ [Next]_vars => IInv'
<1> SUFFICES ASSUME IInv, [Next]_vars PROVE IInv'
  OBVIOUS
<1>1. /\ ListInv /\ maximumMtu \in Nat /\ capacity \in Nat \ {0} /\ now \in Nat
      /\ Len(list) <= capacity /\ WithinCapacity /\ Len(list) \in Nat
  BY DEF IInv, TypeOK, WithinCapacity, ListInv
<1>2. SUFFICES /\ ListInv' /\ maximumMtu' \in Nat /\ capacity' \in Nat \ {0}
               /\ now' \in Nat /\ Len(list') <= capacity'
  BY DEF IInv, TypeOK, WithinCapacity, ListInv
<1>3. ASSUME NEW d \in Dests, NEW meta \in PathMtus, NEW t \in Stamps, GetMtu(d, meta, t)
      PROVE  /\ ListInv' /\ maximumMtu' \in Nat /\ capacity' \in Nat \ {0}
             /\ now' \in Nat /\ Len(list') <= capacity'
  <2>1. t \in Nat
    BY <1>1 DEF Stamps
  <2>2. CASE Touch(d, t)
    BY <1>1, <2>1, <2>2, TouchInv DEF Touch
  <2>3. CASE Insert(d, IF meta = 0 THEN maximumMtu ELSE meta, t)
    <3>1. (IF meta = 0 THEN maximumMtu ELSE meta) \in Nat
      BY <1>1, PathMtuAssumption
    <3>2. ListInv' /\ Len(list') <= capacity
      BY <1>1, <2>1, <2>3, <3>1, InsertInv
    <3>3. QED BY <1>1, <2>3, <3>2 DEF Insert
  <2>4. QED BY <1>3, <2>2, <2>3 DEF GetMtu
<1>4. ASSUME NEW d \in Dests, HandleScmp(d)
      PROVE  /\ ListInv' /\ maximumMtu' \in Nat /\ capacity' \in Nat \ {0}
             /\ now' \in Nat /\ Len(list') <= capacity'
  <2>1. PICK m \in ScmpMtus : UpdateMtu(d, m)
    BY <1>4 DEF HandleScmp
  <2>2. m \in Nat
    BY PathMtuAssumption
  <2>3. QED BY <1>1, <2>1, <2>2, UpdateMtuInv DEF UpdateMtu
<1>5. ASSUME NEW d \in Dests, ForgetMtu(d)
      PROVE  /\ ListInv' /\ maximumMtu' \in Nat /\ capacity' \in Nat \ {0}
             /\ now' \in Nat /\ Len(list') <= capacity'
  <2>1. ListInv' /\ Len(list') = Len(list) - 1
    BY <1>1, <1>5, ForgetMtuInv
  <2>2. QED BY <1>1, <1>5, <2>1 DEF ForgetMtu
<1>6. ASSUME NEW cutoff \in 0 .. now, ClearOld(cutoff)
      PROVE  /\ ListInv' /\ maximumMtu' \in Nat /\ capacity' \in Nat \ {0}
             /\ now' \in Nat /\ Len(list') <= capacity'
  <2>1. PICK k \in 0 .. Len(list) : DropFront(k)
    BY <1>6 DEF ClearOld
  <2>2. ListInv' /\ Len(list') = Len(list) - k
    BY <1>1, <2>1, DropFrontInv
  <2>3. QED BY <1>1, <1>6, <2>2 DEF ClearOld
<1>7. ASSUME Clear
      PROVE  /\ ListInv' /\ maximumMtu' \in Nat /\ capacity' \in Nat \ {0}
             /\ now' \in Nat /\ Len(list') <= capacity'
  <2>1. Len(list) \in 0 .. Len(list) /\ DropFront(Len(list))
    BY <1>1, <1>7 DEF Clear
  <2>2. ListInv' /\ Len(list') = Len(list) - Len(list)
    BY <1>1, <2>1, DropFrontInv
  <2>3. QED BY <1>1, <1>7, <2>2 DEF Clear
<1>8. ASSUME NEW c \in Capacities, SetCapacity(c)
      PROVE  /\ ListInv' /\ maximumMtu' \in Nat /\ capacity' \in Nat \ {0}
             /\ now' \in Nat /\ Len(list') <= capacity'
  <2> DEFINE k == IF capacity' < Len(list) THEN Len(list) - capacity' ELSE 0
  <2>1. capacity' \in Nat \ {0} /\ DropFront(k)
    BY <1>8, PathMtuAssumption DEF SetCapacity, Max1
  <2>2. k \in 0 .. Len(list) /\ Len(list) - k <= capacity'
    BY <1>1, <2>1
  <2> HIDE DEF k
  <2>3. ListInv' /\ Len(list') = Len(list) - k
    BY <1>1, <2>1, <2>2, DropFrontInv
  <2>4. QED BY <1>1, <1>8, <2>1, <2>2, <2>3 DEF SetCapacity
<1>9. ASSUME NEW m \in HopMtus, SetFirstHopMtu(m)
      PROVE  /\ ListInv' /\ maximumMtu' \in Nat /\ capacity' \in Nat \ {0}
             /\ now' \in Nat /\ Len(list') <= capacity'
  BY <1>1, <1>9, PathMtuAssumption DEF SetFirstHopMtu, ListInv, IndexMatchesList
<1>10. CASE Tick
  BY <1>1, <1>10 DEF Tick, ListInv, IndexMatchesList
<1>11. CASE UNCHANGED vars
  BY <1>1, <1>11 DEF vars, ListInv, IndexMatchesList
<1>12. QED
  BY <1>3, <1>4, <1>5, <1>6, <1>7, <1>8, <1>9, <1>10, <1>11 DEF Next

\* The invariant holds in every reachable state.
THEOREM Invariance == Spec => []IInv
BY InitInv, NextInv, PTL DEF Spec

\* No method leaves the list, its nodes or the index ill-typed.
THEOREM TypeCorrect == Spec => []TypeOK
BY Invariance, PTL DEF IInv

\* The index and the list agree: no iterator of m_index dangles or leads to
\* the record of another destination, no record is unreachable.
THEOREM IndexCorrect == Spec => []IndexMatchesList
BY Invariance, PTL DEF IInv

\* The list never outgrows its capacity, whatever capacity is set and when.
THEOREM CapacityRespected == Spec => []WithinCapacity
BY Invariance, PTL DEF IInv

-----------------------------------------------------------------------------
(***************************************************************************)
(* Order of the list.                                                      *)
(***************************************************************************)
Ordered(s, r) ==
  \A i, j \in DOMAIN s : i < j => r[s[i]].accessed <= r[s[j]].accessed

\* Erasing an element keeps the order of the others.
LEMMA OrderedRemoveAt ==
  ASSUME NEW S, NEW s \in Seq(S), NEW i \in DOMAIN s, NEW r, Ordered(s, r)
  PROVE  Ordered(RemoveAt(s, i), r)
<1> DEFINE u == RemoveAt(s, i)
<1>1. /\ u \in Seq(S) /\ Len(u) = Len(s) - 1
      /\ \A j \in 1 .. Len(s) - 1 : u[j] = IF j < i THEN s[j] ELSE s[j + 1]
  BY RemoveAtSeq
<1> HIDE DEF u
<1>2. Len(s) \in Nat /\ DOMAIN s = 1 .. Len(s) /\ DOMAIN u = 1 .. Len(s) - 1
  BY <1>1
<1>3. Ordered(u, r)
  <2> SUFFICES ASSUME NEW j \in DOMAIN u, NEW k \in DOMAIN u, j < k
               PROVE  r[u[j]].accessed <= r[u[k]].accessed
    BY DEF Ordered
  <2> DEFINE f(x) == IF x < i THEN x ELSE x + 1
  <2>1. f(j) \in DOMAIN s /\ f(k) \in DOMAIN s /\ f(j) < f(k)
    BY <1>2
  <2>2. u[j] = s[f(j)] /\ u[k] = s[f(k)]
    BY <1>1, <1>2
  <2> HIDE DEF f
  <2>3. QED BY <2>1, <2>2 DEF Ordered
<1>4. QED BY <1>3 DEF u

\* So does erasing the front.
LEMMA OrderedSuffix ==
  ASSUME NEW S, NEW s \in Seq(S), NEW k \in 0 .. Len(s), Distinct(s), NEW r, Ordered(s, r)
  PROVE  Ordered(SubSeq(s, k + 1, Len(s)), r)
<1> DEFINE u == SubSeq(s, k + 1, Len(s))
<1>1. u \in Seq(S) /\ Len(u) = Len(s) - k /\ \A j \in 1 .. Len(s) - k : u[j] = s[k + j]
  BY SuffixSet
<1> HIDE DEF u
<1>2. Len(s) \in Nat /\ DOMAIN s = 1 .. Len(s) /\ DOMAIN u = 1 .. Len(s) - k
  BY <1>1
<1>3. Ordered(u, r)
  <2> SUFFICES ASSUME NEW i \in DOMAIN u, NEW j \in DOMAIN u, i < j
               PROVE  r[u[i]].accessed <= r[u[j]].accessed
    BY DEF Ordered
  <2>1. k + i \in DOMAIN s /\ k + j \in DOMAIN s /\ k + i < k + j
    BY <1>2
  <2>2. u[i] = s[k + i] /\ u[j] = s[k + j]
    BY <1>1, <1>2
  <2>3. QED BY <2>1, <2>2 DEF Ordered
<1>4. QED BY <1>3 DEF u

\* A record that was accessed no earlier than any other belongs at the end.
LEMMA OrderedAppend ==
  ASSUME NEW S, NEW s \in Seq(S), NEW x \in S, NEW r, Ordered(s, r),
         \A n \in ToSet(s) : r[n].accessed <= r[x].accessed
  PROVE  Ordered(Append(s, x), r)
<1> DEFINE u == Append(s, x)
<1>1. /\ Len(u) = Len(s) + 1 /\ DOMAIN u = 1 .. Len(s) + 1
      /\ \A j \in 1 .. Len(s) : u[j] = s[j]
      /\ u[Len(s) + 1] = x
      /\ DOMAIN s = 1 .. Len(s) /\ Len(s) \in Nat
  OBVIOUS
<1> HIDE DEF u
<1>2. Ordered(u, r)
  BY <1>1 DEF Ordered, ToSet
<1>3. QED BY <1>2 DEF u

\* The order is one of the access times.
LEMMA OrderedSame ==
  ASSUME NEW s, NEW r, NEW q, Ordered(s, r),
         \A n \in ToSet(s) : q[n].accessed = r[n].accessed
  PROVE  Ordered(s, q)
BY DEF Ordered, ToSet

\* A timestamp may be older than the access it came with; none is from the future.
Stamped(S, r) == \A n \in S : r[n].lastAccess <= r[n].accessed /\ r[n].accessed <= now

\* The list is sorted by the access times, whatever the timestamps.
OrderInv == Stamped(ToSet(list), rec) /\ Ordered(list, rec)

\* The front of the list is dropped.
LEMMA DropFrontOrder ==
  ASSUME ListInv, OrderInv, NEW k \in 0 .. Len(list), DropFront(k), now' = now
  PROVE  OrderInv'
<1> DEFINE S == {list[i] : i \in 1 .. k}
<1>1. list \in Seq(Nodes) /\ Distinct(list)
  BY DEF ListInv, IndexMatchesList, Distinct
<1>2. ToSet(list') = ToSet(list) \ S /\ rec' = Freed(S) /\ Ordered(list', rec)
  BY <1>1, SuffixSet, OrderedSuffix DEF DropFront, OrderInv
<1> HIDE DEF S
<1>3. ToSet(list) \subseteq Nodes
  BY <1>1 DEF ToSet
<1>4. \A n \in ToSet(list') : rec'[n] = rec[n] /\ n \in ToSet(list)
  BY <1>2, <1>3 DEF Freed
<1>5. Ordered(list', rec')
  BY <1>2, <1>4, OrderedSame
<1>6. QED BY <1>4, <1>5 DEF OrderInv, Stamped

\* A lookup that finds a record.
LEMMA TouchOrder ==
  ASSUME ListInv, OrderInv, now \in Nat, NEW d \in Dests, NEW t \in Stamps, Touch(d, t)
  PROVE  OrderInv'
<1>1. list \in Seq(Nodes) /\ Distinct(list) /\ ToSet(list) \subseteq Nodes
  BY DEF ListInv, IndexMatchesList, Distinct, ToSet
<1>2. PICK i \in DOMAIN list : list[i] = index[d] /\ list' = SpliceToEnd(i)
  BY DEF Touch
<1> DEFINE u == RemoveAt(list, i)
           x == list[i]
<1>3. /\ u \in Seq(Nodes) /\ ToSet(u) = ToSet(list) \ {x} /\ Ordered(u, rec)
  BY <1>1, RemoveAtSeq, RemoveAtSet, OrderedRemoveAt DEF OrderInv
<1>4. x \in ToSet(list) /\ x \in Nodes /\ x = index[d] /\ list' = Append(u, x)
  BY <1>1, <1>2 DEF ToSet, SpliceToEnd
<1> HIDE DEF u, x
<1>5. ToSet(list') = ToSet(list)
  <2>1. u \in Seq(Nodes) /\ x \in Nodes
    BY <1>3, <1>4
  <2>2. ToSet(Append(u, x)) = ToSet(u) \cup {x}
    BY <2>1, AppendSet
  <2>3. QED BY <1>3, <1>4, <2>2
<1>6. /\ rec'[x].lastAccess = t /\ rec'[x].accessed = now /\ t <= now
      /\ \A n \in ToSet(u) : rec'[n] = rec[n]
      /\ now' = now
  BY <1>1, <1>3, <1>4 DEF Touch, ListInv, Record, Stamps
<1>7. \A n \in ToSet(list') : rec'[n].lastAccess <= rec'[n].accessed /\ rec'[n].accessed <= now
  BY <1>3, <1>5, <1>6 DEF Stamped, OrderInv
<1>8. Ordered(u, rec')
  BY <1>3, <1>6, OrderedSame
<1>9. \A n \in ToSet(u) : rec'[n].accessed <= rec'[x].accessed
  BY <1>3, <1>6 DEF OrderInv, Stamped
<1>10. Ordered(list', rec')
  <2>1. u \in Seq(Nodes) /\ x \in Nodes
    BY <1>3, <1>4
  <2>2. Ordered(Append(u, x), rec')
    BY <1>8, <1>9, <2>1, OrderedAppend
  <2>3. QED BY <1>4, <2>2
<1>11. QED BY <1>5, <1>6, <1>7, <1>10 DEF OrderInv, Stamped

\* A lookup that finds nothing.
LEMMA InsertOrder ==
  ASSUME ListInv, OrderInv, now \in Nat, capacity \in Nat \ {0},
         NEW d \in Dests, NEW m \in Nat, NEW t \in Stamps, Insert(d, m, t)
  PROVE  OrderInv'
<1> DEFINE full    == Len(list) >= capacity
           evicted == IF full THEN {Head(list)} ELSE {}
           rest    == IF full THEN Tail(list) ELSE list
           R       == [dest |-> d, lastAccess |-> t, accessed |-> now, mtu |-> m]
<1>1. list \in Seq(Nodes) /\ Distinct(list) /\ ToSet(list) \subseteq Nodes /\ Len(list) \in Nat
  BY DEF ListInv, IndexMatchesList, Distinct, ToSet
<1>2. PICK n \in Nodes \ ToSet(rest) :
        list' = Append(rest, n) /\ rec' = [Freed(evicted) EXCEPT ![n] = R]
  BY DEF Insert
<1>3. /\ rest \in Seq(Nodes) /\ Ordered(rest, rec)
      /\ ToSet(rest) = ToSet(list) \ evicted
  <2>1. CASE full
    <3>1. 1 \in 0 .. Len(list) /\ 1 + 1 = 2 /\ Len(list) # 0
      BY <1>1, <2>1
    <3>2. rest = SubSeq(list, 1 + 1, Len(list)) /\ evicted = {list[1]}
      BY <1>1, <2>1, <3>1
    <3>3. {list[i] : i \in 1 .. 1} = {list[1]}
      OBVIOUS
    <3> HIDE DEF rest, evicted
    <3>4. Ordered(rest, rec)
      BY <1>1, <3>1, <3>2, OrderedSuffix DEF OrderInv
    <3>5. rest \in Seq(Nodes) /\ ToSet(rest) = ToSet(list) \ {list[i] : i \in 1 .. 1}
      BY <1>1, <3>1, <3>2, SuffixSet, ZenonT(40)
    <3>6. QED BY <3>2, <3>3, <3>4, <3>5
  <2>2. CASE ~full
    BY <1>1, <2>2 DEF OrderInv
  <2>3. QED BY <2>1, <2>2
<1>4. R.lastAccess = t /\ R.accessed = now /\ t <= now
  BY DEF Stamps
<1> HIDE DEF full, rest, evicted, R
<1>5. ToSet(rest) \subseteq Nodes /\ n \notin ToSet(rest) /\ n \in Nodes
  BY <1>1, <1>3
<1>6. rec'[n] = R /\ (\A k \in ToSet(rest) : rec'[k] = rec[k]) /\ now' = now
  BY <1>2, <1>3, <1>5 DEF Freed, Insert
<1>7. ToSet(list') = ToSet(rest) \cup {n}
  BY <1>2, <1>3, <1>5, AppendSet
<1>8. Ordered(rest, rec')
  BY <1>3, <1>6, OrderedSame
<1>9. \A k \in ToSet(rest) : rec'[k].accessed <= rec'[n].accessed
  BY <1>3, <1>4, <1>6 DEF OrderInv, Stamped
<1>10. Ordered(list', rec')
  BY <1>2, <1>3, <1>5, <1>8, <1>9, OrderedAppend
<1>11. \A k \in ToSet(list') : rec'[k].lastAccess <= rec'[k].accessed /\ rec'[k].accessed <= now
  BY <1>3, <1>4, <1>6, <1>7 DEF OrderInv, Stamped
<1>12. QED BY <1>6, <1>10, <1>11 DEF OrderInv, Stamped

\* A record is erased on request.
LEMMA ForgetMtuOrder ==
  ASSUME ListInv, OrderInv, NEW d \in Dests, ForgetMtu(d)
  PROVE  OrderInv'
<1>1. list \in Seq(Nodes) /\ Distinct(list) /\ ToSet(list) \subseteq Nodes
  BY DEF ListInv, IndexMatchesList, Distinct, ToSet
<1>2. PICK i \in DOMAIN list : list[i] = index[d] /\ list' = RemoveAt(list, i)
  BY DEF ForgetMtu
<1>3. ToSet(list') = ToSet(list) \ {index[d]} /\ Ordered(list', rec)
  BY <1>1, <1>2, RemoveAtSet, OrderedRemoveAt DEF OrderInv
<1>4. now' = now /\ \A n \in ToSet(list') : rec'[n] = rec[n]
  BY <1>1, <1>3 DEF ForgetMtu, Freed
<1>5. Ordered(list', rec')
  BY <1>3, <1>4, OrderedSame
<1>6. QED BY <1>3, <1>4, <1>5 DEF OrderInv, Stamped

\* Every method preserves the order.
LEMMA NextOrder == IInv /\ OrderInv /\ [Next]_vars => OrderInv'
<1> SUFFICES ASSUME IInv, OrderInv, [Next]_vars PROVE OrderInv'
  OBVIOUS
<1>1. /\ ListInv /\ maximumMtu \in Nat /\ capacity \in Nat \ {0} /\ now \in Nat
      /\ Len(list) \in Nat /\ \A n \in ToSet(list) : n \in Nodes /\ rec[n] \in Record
  BY DEF IInv, TypeOK, ListInv, ToSet
<1>2. ASSUME NEW d \in Dests, NEW meta \in PathMtus, NEW t \in Stamps, GetMtu(d, meta, t)
      PROVE  OrderInv'
  <2>1. CASE Touch(d, t)
    BY <1>1, <1>2, <2>1, TouchOrder
  <2>2. CASE Insert(d, IF meta = 0 THEN maximumMtu ELSE meta, t)
    <3>1. (IF meta = 0 THEN maximumMtu ELSE meta) \in Nat
      BY <1>1, PathMtuAssumption
    <3>2. QED BY <1>1, <1>2, <2>2, <3>1, InsertOrder
  <2>3. QED BY <1>2, <2>1, <2>2 DEF GetMtu
<1>3. ASSUME NEW d \in Dests, HandleScmp(d) PROVE OrderInv'
  <2>1. PICK m \in ScmpMtus : UpdateMtu(d, m)
    BY <1>3 DEF HandleScmp
  <2>2. /\ list' = list /\ now' = now
        /\ \A n \in ToSet(list) : rec'[n].lastAccess = rec[n].lastAccess
                               /\ rec'[n].accessed = rec[n].accessed
    BY <1>1, <2>1 DEF UpdateMtu, ListInv, Record
  <2>3. Ordered(list, rec')
    BY <2>2, OrderedSame DEF OrderInv
  <2>4. QED BY <2>2, <2>3 DEF OrderInv, Stamped
<1>4. ASSUME NEW d \in Dests, ForgetMtu(d) PROVE OrderInv'
  BY <1>1, <1>4, ForgetMtuOrder
<1>5. ASSUME NEW cutoff \in 0 .. now, ClearOld(cutoff) PROVE OrderInv'
  BY <1>1, <1>5, DropFrontOrder DEF ClearOld
<1>6. CASE Clear
  <2>1. Len(list) \in 0 .. Len(list)
    BY <1>1
  <2>2. QED BY <1>1, <1>6, <2>1, DropFrontOrder DEF Clear
<1>7. ASSUME NEW c \in Capacities, SetCapacity(c) PROVE OrderInv'
  <2> DEFINE k == IF capacity' < Len(list) THEN Len(list) - capacity' ELSE 0
  <2>1. capacity' \in Nat \ {0} /\ DropFront(k) /\ now' = now
    BY <1>7, PathMtuAssumption DEF SetCapacity, Max1
  <2>2. k \in 0 .. Len(list)
    BY <1>1, <2>1
  <2> HIDE DEF k
  <2>3. QED BY <1>1, <2>1, <2>2, DropFrontOrder
<1>8. ASSUME NEW m \in HopMtus, SetFirstHopMtu(m) PROVE OrderInv'
  BY <1>8 DEF SetFirstHopMtu, OrderInv, Stamped, Ordered
<1>9. CASE Tick
  <2>1. UNCHANGED <<list, rec>> /\ now' = now + 1
    BY <1>9 DEF Tick
  <2>2. \A n \in ToSet(list) : rec[n].accessed \in Nat
    BY <1>1 DEF Record
  <2>3. QED BY <1>1, <2>1, <2>2 DEF OrderInv, Stamped, Ordered
<1>10. CASE UNCHANGED vars
  BY <1>10 DEF vars, OrderInv, Stamped, Ordered
<1>11. QED
  BY <1>2, <1>3, <1>4, <1>5, <1>6, <1>7, <1>8, <1>9, <1>10 DEF Next

LEMMA OrderInvariance == Spec => [](IInv /\ OrderInv)
<1>1. Init => OrderInv
  BY DEF Init, OrderInv, Stamped, Ordered, ToSet
<1>2. QED BY <1>1, InitInv, NextInv, NextOrder, PTL DEF Spec

\* Whatever timestamps the callers pass, late ones and none at all: the list is
\* sorted by the time of access, and eviction takes the least recently used.
THEOREM ListSorted == Spec => []SortedByAccess
<1>1. OrderInv => SortedByAccess
  BY DEF OrderInv, Ordered, SortedByAccess
<1>2. QED BY <1>1, OrderInvariance, PTL

\* clear(cutoff), which stops at the first young timestamp, leaves no record that
\* was not accessed since cutoff, and loses none with a timestamp since cutoff.
THEOREM ClearComplete == Spec => ClearRemovesOld
<1> DEFINE Complete(c) ==
             /\ \A n \in ToSet(list') : rec[n].accessed >= c
             /\ \A n \in ToSet(list) \ ToSet(list') : rec[n].lastAccess < c
<1>1. ASSUME IInv, OrderInv, NEW cutoff \in 0 .. now, ClearOld(cutoff)
      PROVE  Complete(cutoff)
  <2>1. list \in Seq(Nodes) /\ Distinct(list) /\ Len(list) \in Nat /\ DOMAIN list = 1 .. Len(list)
    BY <1>1 DEF IInv, TypeOK, IndexMatchesList, Distinct
  <2>2. PICK k \in 0 .. Len(list) :
          /\ \A i \in 1 .. k : rec[list[i]].lastAccess < cutoff
          /\ k < Len(list) => rec[list[k + 1]].lastAccess >= cutoff
          /\ DropFront(k)
    BY <1>1 DEF ClearOld
  <2> DEFINE S == {list[i] : i \in 1 .. k}
  <2>3. ToSet(list') = ToSet(list) \ S
    <3>1. list' = SubSeq(list, k + 1, Len(list))
      BY <2>2 DEF DropFront
    <3>2. list \in Seq(Nodes) /\ Distinct(list) /\ k \in 0 .. Len(list)
      BY <2>1
    <3>3. ToSet(SubSeq(list, k + 1, Len(list))) = ToSet(list) \ S
      BY <3>2, SuffixSet, ZenonT(40)
    <3>4. QED BY <3>1, <3>3
  <2>4. \A j \in 1 .. Len(list) : /\ rec[list[j]].accessed \in Nat
                                 /\ rec[list[j]].lastAccess \in Nat
                                 /\ rec[list[j]].lastAccess <= rec[list[j]].accessed
    BY <1>1, <2>1 DEF IInv, TypeOK, OrderInv, Stamped, Record, ToSet
  <2>5. ASSUME NEW n \in S PROVE rec[n].lastAccess < cutoff
    BY <2>2
  <2>6. ASSUME NEW n \in ToSet(list) \ S PROVE rec[n].accessed >= cutoff
    <3>1. PICK j \in 1 .. Len(list) : n = list[j] /\ j > k
      BY <2>1 DEF ToSet
    <3>2. k < Len(list) /\ k + 1 \in DOMAIN list /\ (k + 1 = j \/ k + 1 < j)
      BY <2>1, <3>1
    <3>3. rec[list[k + 1]].accessed <= rec[list[j]].accessed
      BY <1>1, <2>1, <2>4, <3>1, <3>2 DEF OrderInv, Ordered
    <3>4. QED BY <1>1, <2>1, <2>2, <2>4, <3>1, <3>2, <3>3 DEF IInv, TypeOK
  <2> HIDE DEF S
  <2>7. QED BY <2>3, <2>5, <2>6
<1>2. IInv /\ OrderInv => [\A cutoff \in 0 .. now : ClearOld(cutoff) => Complete(cutoff)]_vars
  BY <1>1
<1>3. QED BY <1>2, OrderInvariance, PTL DEF ClearRemovesOld

-----------------------------------------------------------------------------
(***************************************************************************)
(* The cache implements the partial map of PmtuAbs.                        *)
(***************************************************************************)

\* A record in the list is known with its MTU.
LEMMA KnownValue ==
  ASSUME IInv, NEW d \in Dests
  PROVE  /\ index[d] # NoNode => Known[d] = rec[index[d]].mtu /\ Known[d] \in Nat
                              /\ index[d] \in ToSet(list) /\ rec[index[d]].dest = d
                              /\ index[d] \in Nodes
         /\ index[d] = NoNode <=> Known[d] = Unknown
<1>1. index[d] # NoNode => /\ index[d] \in ToSet(list) /\ rec[index[d]].dest = d
                          /\ rec[index[d]] \in Record /\ index[d] \in Nodes
  BY DEF IInv, TypeOK, IndexMatchesList
<1>2. QED BY <1>1, PathMtuAssumption DEF Known, Record

\* Records that leave the list with their entries in the index are forgotten.
LEMMA KnownAfter ==
  ASSUME IInv, NEW D \in SUBSET Dests,
         \A d \in Dests : \/ d \in D /\ index'[d] = NoNode
                          \/ /\ d \notin D /\ index'[d] = index[d]
                             /\ index[d] # NoNode => rec'[index[d]].mtu = rec[index[d]].mtu
  PROVE  Known' = [d \in Dests |-> IF d \in D THEN Unknown ELSE Known[d]]
BY DEF Known

LEMMA DropFrontMaps ==
  ASSUME IInv, NEW k \in 0 .. Len(list), DropFront(k)
  PROVE  Abs!Drop
<1> DEFINE S == {list[i] : i \in 1 .. k}
           D == {d \in Dests : \E n \in S : rec[n].dest = d}
<1>1. rec' = Freed(S) /\ index' = Unindex(S)
  BY DEF DropFront
<1> HIDE DEF S
<1>2. ASSUME NEW d \in Dests, d \notin D, index[d] # NoNode
      PROVE  rec'[index[d]].mtu = rec[index[d]].mtu
  <2>1. index[d] \in Nodes /\ rec[index[d]].dest = d
    BY <1>2, KnownValue
  <2>2. index[d] \notin S
    BY <1>2, <2>1
  <2>3. QED BY <1>1, <2>1, <2>2 DEF Freed
<1>3. \A d \in Dests : index'[d] = IF d \in D THEN NoNode ELSE index[d]
  BY <1>1 DEF Unindex
<1>4. D \in SUBSET Dests
  OBVIOUS
<1> HIDE DEF D
<1>5. Known' = [d \in Dests |-> IF d \in D THEN Unknown ELSE Known[d]]
  BY <1>2, <1>3, <1>4, KnownAfter
<1>6. QED BY <1>4, <1>5 DEF Abs!Drop

\* A lookup that finds nothing learns one PMTU and evicts at most one.
LEMMA InsertMaps ==
  ASSUME IInv, NEW d \in Dests, NEW m \in Nat, NEW t \in Nat, Insert(d, m, t)
  PROVE  Abs!Learn(d)
<1> DEFINE full    == Len(list) >= capacity
           evicted == IF full THEN {Head(list)} ELSE {}
           rest    == IF full THEN Tail(list) ELSE list
           R       == [dest |-> d, lastAccess |-> t, accessed |-> now, mtu |-> m]
           S       == {e \in Dests \ {d} : \E n \in evicted : rec[n].dest = e}
<1>1. PICK n \in Nodes \ ToSet(rest) :
        /\ rec' = [Freed(evicted) EXCEPT ![n] = R]
        /\ index' = [Unindex(evicted) EXCEPT ![d] = n]
  BY DEF Insert
<1>2. index[d] = NoNode /\ n # NoNode /\ R.mtu = m
  BY PathMtuAssumption DEF Insert
<1>3. \A a, b \in S : a = b
  OBVIOUS
<1>4. S \in SUBSET (Dests \ {d})
  OBVIOUS
<1>5. \A x \in ToSet(list) : x \in evicted \/ x \in ToSet(rest)
  <2>1. CASE full
    <3>1. list \in Seq(Nodes) /\ Len(list) # 0 /\ Len(list) \in Nat
      BY <2>1 DEF IInv, TypeOK
    <3>2. /\ Len(Tail(list)) = Len(list) - 1 /\ DOMAIN Tail(list) = 1 .. Len(list) - 1
          /\ \A j \in 1 .. Len(list) - 1 : Tail(list)[j] = list[j + 1]
          /\ Head(list) = list[1] /\ DOMAIN list = 1 .. Len(list)
      BY <3>1
    <3>3. ASSUME NEW x \in ToSet(list), x # list[1] PROVE x \in ToSet(Tail(list))
      <4>1. PICK j \in 1 .. Len(list) : x = list[j] /\ j # 1
        BY <3>2, <3>3 DEF ToSet
      <4>2. j - 1 \in 1 .. Len(list) - 1 /\ (j - 1) + 1 = j
        BY <3>1, <4>1
      <4>3. QED BY <3>2, <4>1, <4>2 DEF ToSet
    <3>4. QED BY <2>1, <3>2, <3>3
  <2>2. CASE ~full
    BY <2>2
  <2>3. QED BY <2>1, <2>2
<1> HIDE DEF full, rest, evicted, R
<1>6. Known'[d] = m
  <2>1. index'[d] = n /\ rec'[n] = R
    BY <1>1 DEF Unindex, Freed, IInv, TypeOK
  <2>2. QED BY <1>2, <2>1 DEF Known
<1>7. ASSUME NEW e \in Dests \ {d} PROVE Known'[e] = IF e \in S THEN Unknown ELSE Known[e]
  <2>1. index'[e] = IF \E x \in evicted : rec[x].dest = e THEN NoNode ELSE index[e]
    BY <1>1 DEF Unindex
  <2>2. CASE e \in S
    BY <2>1, <2>2 DEF Known
  <2>3. CASE e \notin S /\ index[e] = NoNode
    BY <2>1, <2>3 DEF Known
  <2>4. CASE e \notin S /\ index[e] # NoNode
    <3>1. /\ index'[e] = index[e] /\ index[e] \in ToSet(list) /\ index[e] \in Nodes
          /\ rec[index[e]].dest = e
      BY <2>1, <2>4, KnownValue
    <3>2. index[e] \notin evicted
      BY <2>4, <3>1
    <3>3. index[e] # n
      BY <1>1, <1>5, <3>1, <3>2
    <3>4. rec'[index[e]] = rec[index[e]]
      BY <1>1, <3>1, <3>2, <3>3 DEF Freed
    <3>5. QED BY <2>4, <3>1, <3>4 DEF Known
  <2>5. QED BY <2>2, <2>3, <2>4
<1> HIDE DEF S
<1>8. Known' = [e \in Dests |-> IF e = d THEN Known'[d]
                                ELSE IF e \in S THEN Unknown ELSE Known[e]]
  <2>1. Known' = [e \in Dests |-> Known'[e]]
    BY DEF Known
  <2>2. \A e \in Dests : Known'[e] = IF e = d THEN Known'[d]
                                    ELSE IF e \in S THEN Unknown ELSE Known[e]
    BY <1>7
  <2>3. QED BY <2>1, <2>2
<1>9. Known[d] = Unknown
  BY <1>2, KnownValue
<1>10. QED BY <1>3, <1>4, <1>6, <1>8, <1>9 DEF Abs!Learn

\* Every step of the cache is one of the map, or changes nothing the map knows.
LEMMA NextMaps == IInv /\ [Next]_vars => [Abs!Next]_Known
<1> SUFFICES ASSUME IInv, [Next]_vars PROVE [Abs!Next]_Known
  OBVIOUS
<1>0. /\ list \in Seq(Nodes) /\ Len(list) \in Nat /\ maximumMtu \in Nat /\ now \in Nat
      /\ capacity \in Nat \ {0} /\ DOMAIN rec = Nodes
  BY DEF IInv, TypeOK
<1>1. ASSUME NEW d \in Dests, NEW meta \in PathMtus, NEW t \in Stamps, GetMtu(d, meta, t)
      PROVE  [Abs!Next]_Known
  <2>1. CASE Touch(d, t)
    <3>1. /\ index' = index
          /\ \A n \in Nodes : rec[n] \in Record => rec'[n].mtu = rec[n].mtu
      BY <1>0, <2>1 DEF Touch, Record
    <3>2. \A e \in Dests : index[e] # NoNode => rec'[index[e]].mtu = rec[index[e]].mtu
      BY <3>1 DEF IInv, TypeOK, IndexMatchesList
    <3>3. QED BY <3>1, <3>2 DEF Known
  <2>2. CASE Insert(d, IF meta = 0 THEN maximumMtu ELSE meta, t)
    <3>1. (IF meta = 0 THEN maximumMtu ELSE meta) \in Nat /\ t \in Nat
      BY <1>0, PathMtuAssumption DEF Stamps
    <3>2. QED BY <2>2, <3>1, InsertMaps DEF Abs!Next
  <2>3. QED BY <1>1, <2>1, <2>2 DEF GetMtu
<1>2. ASSUME NEW d \in Dests, HandleScmp(d) PROVE Abs!Lower(d)
  <2>1. PICK m \in ScmpMtus : UpdateMtu(d, m)
    BY <1>2 DEF HandleScmp
  <2>2. m \in Nat /\ index[d] # NoNode
    BY <2>1, PathMtuAssumption DEF UpdateMtu
  <2>3. Known[d] = rec[index[d]].mtu /\ Known[d] \in Nat /\ Known[d] # Unknown /\ index[d] \in Nodes
    BY <2>2, KnownValue
  <2>4. m \in 0 .. Known[d]
    BY <2>1, <2>2, <2>3 DEF UpdateMtu
  <2>5. \A e \in Dests \ {d} : index[e] # NoNode => index[e] # index[d]
    BY <2>2, KnownValue
  <2>6. /\ index' = index /\ rec'[index[d]].mtu = m
        /\ \A n \in Nodes \ {index[d]} : rec'[n] = rec[n]
    BY <1>0, <2>1, <2>2, <2>3 DEF UpdateMtu, IInv, TypeOK, IndexMatchesList, Record
  <2>7. \A e \in Dests : Known'[e] = IF e = d THEN m ELSE Known[e]
    BY <2>2, <2>5, <2>6, KnownValue DEF Known
  <2>8. Known' = [Known EXCEPT ![d] = m]
    BY <2>7 DEF Known
  <2>9. QED BY <2>3, <2>4, <2>8 DEF Abs!Lower
<1>3. ASSUME NEW d \in Dests, ForgetMtu(d) PROVE Abs!Drop
  <2>1. index[d] # NoNode /\ index' = [index EXCEPT ![d] = NoNode] /\ rec' = Freed({index[d]})
    BY <1>3 DEF ForgetMtu
  <2>2. \A e \in Dests \ {d} : index[e] # NoNode => index[e] # index[d] /\ index[e] \in Nodes
    BY <2>1, KnownValue
  <2>3. Known' = [e \in Dests |-> IF e \in {d} THEN Unknown ELSE Known[e]]
    <3>1. \A e \in Dests : index'[e] = IF e = d THEN NoNode ELSE index[e]
      BY <2>1 DEF IInv, TypeOK
    <3>2. \A e \in Dests \ {d} : index[e] # NoNode => rec'[index[e]] = rec[index[e]]
      BY <2>1, <2>2 DEF Freed
    <3>3. {d} \in SUBSET Dests
      OBVIOUS
    <3>4. QED BY <3>1, <3>2, <3>3, KnownAfter
  <2>4. QED BY <2>3 DEF Abs!Drop
<1>4. ASSUME NEW cutoff \in 0 .. now, ClearOld(cutoff) PROVE Abs!Drop
  BY <1>4, DropFrontMaps DEF ClearOld
<1>5. ASSUME Clear PROVE Abs!Drop
  <2>1. Len(list) \in 0 .. Len(list)
    BY <1>0
  <2>2. QED BY <1>5, <2>1, DropFrontMaps DEF Clear
<1>6. ASSUME NEW c \in Capacities, SetCapacity(c) PROVE Abs!Drop
  <2> DEFINE k == IF capacity' < Len(list) THEN Len(list) - capacity' ELSE 0
  <2>1. capacity' \in Nat \ {0} /\ DropFront(k)
    BY <1>6, PathMtuAssumption DEF SetCapacity, Max1
  <2>2. k \in 0 .. Len(list)
    BY <1>0, <2>1
  <2> HIDE DEF k
  <2>3. QED BY <2>1, <2>2, DropFrontMaps
<1>7. ASSUME NEW m \in HopMtus, SetFirstHopMtu(m) PROVE Known' = Known
  BY <1>7 DEF SetFirstHopMtu, Known
<1>8. CASE Tick
  BY <1>8 DEF Tick, Known
<1>9. CASE UNCHANGED vars
  BY <1>9 DEF vars, Known
<1>10. QED
  BY <1>1, <1>2, <1>3, <1>4, <1>5, <1>6, <1>7, <1>8, <1>9 DEF Next, Abs!Next

\* The LRU cache with its list and index keeps the promise of a partial map:
\* a known PMTU is never raised, and a new one costs at most one other.
THEOREM CacheImplementsMap == Spec => ImplementsMap
<1>1. Init => Abs!Init
  BY DEF Init, Abs!Init, Known
<1>2. QED BY <1>1, NextMaps, Invariance, PTL DEF Spec, ImplementsMap, Abs!Spec
=============================================================================
