------------------------- MODULE Interposer_proofs -------------------------
(***************************************************************************)
(* Proofs about the interposer for any number of threads, descriptors,     *)
(* addresses and paths.                                                    *)
(***************************************************************************)
EXTENDS Interposer, FiniteSetTheorems, WellFoundedInduction, TLAPS

\* Calls that the wrappers start, and the parts of the handlers.
Calls == {"getaddrinfo", "inet_pton", "socket", "sockopt", "bind", "connect", "getpeername",
          "getsockname", "recv", "send", "sendmmsg", "close"}
Pcs == Calls \cup Referring \cup {"idle", "bind.lock", "connect.lock", "promote", "libc", "crash"}

\* Where the argument is the address of a host or of a socket, where the call
\* has no descriptor, and where the family of the native socket is known.
WithHost == {"getaddrinfo", "inet_pton"}
WithAddr == {"bind", "connect", "send", "sendmmsg", "bind.lock", "connect.lock", "promote",
             "send.lock", "send.select", "send.pack"}
WithoutFd == {"idle", "getaddrinfo", "inet_pton", "socket"}
WithFamily == {"bind.lock", "connect.lock", "promote"}

\* Calls that are passed to libc without a lock.
PassedOn == {"bind", "connect", "close"}

NativeTypes == [fam : Families \cup {"scion"}, type : {"dgram", "stream"}]
Arguments == Addrs \cup SockAddrs \cup NativeTypes \cup {"addr", "noaddr", None} \cup PassedOn
Executions == [pc : Pcs, fd : Fds \cup {None}, arg : Arguments,
               fam : {"inet", "inet6", None}, n : Nat, path : PathObjects \cup {None}]

Executes(r) ==
  /\ r \in Executions
  /\ r.pc \in WithHost => r.arg \in Addrs
  /\ r.pc \in WithAddr => r.arg \in SockAddrs
  /\ r.pc \notin WithoutFd => r.fd \in Fds
  /\ r.pc \in WithFamily => r.fam \in {"inet", "inet6"}
  /\ r.pc = "send.pack" => r.path \in PathObjects
  /\ r.pc = "libc" => r.arg \in PassedOn

Packets == [k : {"data"}, from : Addrs] \cup [k : {"scmp"}, dig : Digests]

\* Each thread has the arguments that its part of a handler needs.
ThreadInv == th \in [Threads -> Executions] /\ \A t \in Threads : Executes(th[t])

\* The path cache, the packets and the flag that stops the interposer.
EnvInv ==
  /\ inbox \in [Fds -> Packets \cup {None}]
  /\ cached \in [Digests -> Gens \cup {None}]
  /\ disabled \in BOOLEAN

\* The tables of surrogates agree, apart from configured surrogates that were
\* replaced; what the application was given resolves.
AddressInv ==
  /\ addressOf \in [SurrogateIps -> Hosts \cup {None}]
  /\ surrogateOf \in [Hosts -> SurrogateIps \cup {None}]
  /\ given \subseteq [ip : In6, a : Hosts]
  /\ \A ip \in SurrogateIps : addressOf[ip] # None =>
       \/ \E i \in 1 .. Len(Configured) : Configured[i].ip = ip
       \/ \E a \in Hosts : surrogateOf[a] = ip

ResolveInv ==
  /\ \A a \in Hosts : surrogateOf[a] # None => addressOf[surrogateOf[a]] = a
  /\ GivenAddressResolves

\* Sockets, their cached headers and the selections made for them.
SocketInv ==
  /\ sockets \in [Fds -> Sockets \cup {None}]
  /\ last \in [Fds -> Selections \cup {None}]
  /\ CachedHeaderValid
  /\ \A fd \in Fds : last[fd] # None => sockets[fd] # None /\ sockets[fd].lastSelected = last[fd].dig

IInv == ThreadInv /\ EnvInv /\ AddressInv /\ SocketInv /\ SocketOutlivesCall

-----------------------------------------------------------------------------
(***************************************************************************)
(* Addresses.                                                              *)
(***************************************************************************)
\* A set of naturals has a least element.
LEMMA LeastNat ==
  ASSUME NEW S \in SUBSET Nat, S # {}
  PROVE  \E m \in S : \A x \in S : m <= x
<1>1. PICK m \in S : \A y \in S : ~ (<<y, m>> \in OpToRel(<, Nat))
  BY NatLessThanWellFounded, WFMin
<1>2. ASSUME NEW y \in S PROVE m <= y
  <2>1. y \in Nat /\ m \in Nat /\ ~ (<<y, m>> \in OpToRel(<, Nat))
    BY <1>1
  <2>2. ~(y < m)
    BY <2>1 DEF OpToRel
  <2>3. y \in Nat /\ m \in Nat
    OBVIOUS
  <2>4. QED BY <2>2, <2>3
<1>3. QED BY <1>2

\* So does a finite sequence of entries have a last one with some property.
LEMMA LastEntry ==
  ASSUME NEW n \in Nat, NEW S \in SUBSET (1 .. n), S # {}
  PROVE  \E i \in S : \A j \in S : j <= i
<1> DEFINE T == {x \in 0 .. n : n - x \in S}
<1>1. T \in SUBSET Nat /\ T # {}
  <2>1. PICK j \in S : TRUE
    OBVIOUS
  <2>2. n - j \in 0 .. n /\ n - (n - j) = j
    OBVIOUS
  <2>3. n - j \in T
    BY <2>1, <2>2
  <2>4. T \in SUBSET Nat
    OBVIOUS
  <2> HIDE DEF T
  <2>5. QED BY <2>3, <2>4
<1>2. PICK m \in T : \A x \in T : m <= x
  BY <1>1, LeastNat
<1>3. n - m \in S /\ m \in 0 .. n
  OBVIOUS
<1>4. ASSUME NEW j \in S PROVE j <= n - m
  <2>1. n - j \in T /\ j \in 1 .. n
    <3>1. j \in 1 .. n
      OBVIOUS
    <3>2. n - j \in 0 .. n /\ n - (n - j) = j
      BY <3>1
    <3>3. QED BY <3>1, <3>2
  <2>2. m <= n - j
    BY <1>2, <2>1
  <2>3. QED BY <1>3, <2>1, <2>2
<1>5. QED BY <1>3, <1>4

\* There is a free surrogate for every address.
LEMMA FreeSurrogate ==
  ASSUME AddressInv, NEW a \in Hosts
  PROVE  \E ip \in SurrogateIps : ip >= Hash[a] /\ addressOf[ip] = None
<1> SUFFICES ASSUME \A ip \in SurrogateIps : ip >= Hash[a] => addressOf[ip] # None
             PROVE  FALSE
  OBVIOUS
<1>1. /\ IsFiniteSet(Hosts) /\ Hash[a] \in Nat /\ MaxSurrogate \in Nat /\ Len(Configured) \in Nat
      /\ Hash[a] + Len(Configured) + Cardinality(Hosts) <= MaxSurrogate
      /\ None \notin SurrogateIps
  BY InterposerAssumption
<1> DEFINE C == {Configured[i].ip : i \in 1 .. Len(Configured)}
           G == {surrogateOf[h] : h \in Hosts}
           I == Hash[a] .. MaxSurrogate
<1>2. IsFiniteSet(C) /\ Cardinality(C) <= Len(Configured)
  <2> DEFINE f == [i \in 1 .. Len(Configured) |-> Configured[i].ip]
  <2>1. f \in Surjection(1 .. Len(Configured), C)
    BY DEF Surjection
  <2> DEFINE n == Len(Configured)
  <2>2. n \in Nat /\ (1 > n => n = 0) /\ n - 1 + 1 = n
    BY <1>1
  <2> HIDE DEF n
  <2>3. IsFiniteSet(1 .. n) /\ Cardinality(1 .. n) = IF 1 > n THEN 0 ELSE n - 1 + 1
    BY <2>2, FS_Interval
  <2>4. IsFiniteSet(1 .. n) /\ Cardinality(1 .. n) = n
    BY <2>2, <2>3
  <2> USE DEF n
  <2> HIDE DEF f, C
  <2>5. QED BY <2>1, <2>4, FS_Surjection
<1>3. IsFiniteSet(G) /\ Cardinality(G) <= Cardinality(Hosts)
  <2>1. surrogateOf \in Surjection(Hosts, G)
    BY DEF Surjection, AddressInv
  <2> HIDE DEF G
  <2>2. QED BY <1>1, <2>1, FS_Surjection
<1>4. IsFiniteSet(I) /\ Cardinality(I) = MaxSurrogate - Hash[a] + 1
  <2>1. ~(Hash[a] > MaxSurrogate)
    BY <1>1, FS_CardinalityType
  <2>2. IsFiniteSet(I) /\ Cardinality(I) = IF Hash[a] > MaxSurrogate THEN 0
                                           ELSE MaxSurrogate - Hash[a] + 1
    <3> DEFINE lo == Hash[a]
    <3>1. lo \in Int /\ MaxSurrogate \in Int
      BY <1>1
    <3> HIDE DEF lo
    <3>2. IsFiniteSet(lo .. MaxSurrogate) /\ Cardinality(lo .. MaxSurrogate) =
            IF lo > MaxSurrogate THEN 0 ELSE MaxSurrogate - lo + 1
      BY <3>1, FS_Interval
    <3>3. QED BY <3>2 DEF lo
  <2> HIDE DEF I
  <2>3. QED BY <2>1, <2>2
<1>5. I \subseteq C \cup G
  BY <1>1 DEF AddressInv, SurrogateIps
<1> HIDE DEF C, G, I
<1>6. /\ IsFiniteSet(C \cup G)
      /\ Cardinality(C \cup G) = Cardinality(C) + Cardinality(G) - Cardinality(C \cap G)
      /\ Cardinality(C \cap G) \in Nat
  <2>1. C \cap G \in SUBSET C
    OBVIOUS
  <2>2. IsFiniteSet(C \cap G)
    BY <1>2, <2>1, FS_Subset
  <2>3. QED BY <1>2, <1>3, <2>2, FS_Union, FS_CardinalityType
<1>7. Cardinality(I) <= Cardinality(C \cup G)
  BY <1>5, <1>6, FS_Subset
<1>8. Cardinality(C) \in Nat /\ Cardinality(G) \in Nat /\ Cardinality(Hosts) \in Nat
  BY <1>1, <1>2, <1>3, FS_CardinalityType
<1>9. QED BY <1>1, <1>2, <1>3, <1>4, <1>6, <1>7, <1>8

\* A new surrogate is one that stands for no address yet.
LEMMA NewSurrogate ==
  ASSUME AddressInv, NEW a \in Hosts
  PROVE  /\ makeSurrogate(a) \in SurrogateIps
         /\ surrogateOf[a] # None => makeSurrogate(a) = surrogateOf[a]
         /\ surrogateOf[a] = None => addressOf[makeSurrogate(a)] = None
<1>1. CASE surrogateOf[a] # None
  BY <1>1 DEF AddressInv, makeSurrogate
<1>2. CASE surrogateOf[a] = None
  <2> DEFINE free == {ip \in SurrogateIps : ip >= Hash[a] /\ addressOf[ip] = None}
  <2>1. free # {} /\ free \in SUBSET Nat /\ MaxSurrogate \in Nat /\ Hash[a] \in Nat
    <3>1. MaxSurrogate \in Nat /\ Hash[a] \in Nat
      BY InterposerAssumption
    <3>2. free # {}
      BY FreeSurrogate
    <3>3. QED BY <3>1, <3>2 DEF SurrogateIps
  <2>2. PICK m \in free : \A x \in free : m <= x
    BY <2>1, LeastNat
  <2>3. \A j \in Hash[a] .. m - 1 : addressOf[j] # None
    <3> SUFFICES ASSUME NEW j \in Hash[a] .. m - 1, addressOf[j] = None PROVE FALSE
      OBVIOUS
    <3>1. j \in free
      BY <2>1 DEF SurrogateIps
    <3>2. QED BY <2>1, <2>2, <3>1
  <2>4. \E ip \in SurrogateIps :
           /\ ip >= Hash[a] /\ addressOf[ip] = None
           /\ \A j \in Hash[a] .. (ip - 1) : addressOf[j] # None
    BY <2>3
  <2>5. makeSurrogate(a) = CHOOSE ip \in SurrogateIps :
           /\ ip >= Hash[a] /\ addressOf[ip] = None
           /\ \A j \in Hash[a] .. (ip - 1) : addressOf[j] # None
    BY <1>2 DEF makeSurrogate
  <2> HIDE DEF free
  <2>6. makeSurrogate(a) \in SurrogateIps /\ addressOf[makeSurrogate(a)] = None
    BY <2>4, <2>5
  <2>7. QED BY <1>2, <2>6
<1>3. QED BY <1>1, <1>2

\* An address given to the application resolves, and no other one is changed.
LEMMA GiveStep ==
  ASSUME AddressInv, NEW a \in Hosts, GiveAddress(a)
  PROVE  AddressInv' /\ (ResolveInv => ResolveInv')
<1> DEFINE ip == map_scion_to_ipv6(a)
           new == [ip |-> ip, a |-> a]
<1>0. /\ given' = given \cup {new} /\ new.ip = ip /\ new.a = a
      /\ None \notin Hosts \cup SurrogateIps
  BY InterposerAssumption DEF GiveAddress
<1>1. CASE a \in Mapped
  <2>1. ip = [k |-> "mapped", a |-> a] /\ ip \in In6 /\ ip.k = "mapped" /\ ip.a = a
    BY <1>1 DEF map_scion_to_ipv6, In6
  <2>2. UNCHANGED <<addressOf, surrogateOf>>
    BY <2>1 DEF GiveAddress
  <2>3. new \in [ip : In6, a : Hosts]
    BY <2>1
  <2> HIDE DEF ip, new
  <2>4. AddressInv'
    BY <1>0, <2>2, <2>3 DEF AddressInv
  <2>5. GivenAddressResolves => GivenAddressResolves'
    BY <1>0, <2>1, <2>2 DEF GivenAddressResolves, in6_to_scion, getAddress
  <2>6. QED BY <2>2, <2>4, <2>5 DEF ResolveInv
<1>2. CASE a \notin Mapped
  <2> DEFINE s == makeSurrogate(a)
  <2>1. ip = [k |-> "surrogate", ip |-> s] /\ ip.k = "surrogate" /\ ip.ip = s
    BY <1>2 DEF map_scion_to_ipv6
  <2>2. /\ s \in SurrogateIps
        /\ surrogateOf[a] # None => s = surrogateOf[a]
        /\ surrogateOf[a] = None => addressOf[s] = None
    BY NewSurrogate
  <2>3. ip \in In6
    BY <2>1, <2>2 DEF In6
  <2>4. new \in [ip : In6, a : Hosts]
    BY <2>3
  <2>5. IF surrogateOf[a] = None
          THEN /\ addressOf' = [addressOf EXCEPT ![s] = a]
               /\ surrogateOf' = [surrogateOf EXCEPT ![a] = s]
          ELSE UNCHANGED <<addressOf, surrogateOf>>
    BY <2>1 DEF GiveAddress
  <2> HIDE DEF ip, new, s
  <2>6. CASE surrogateOf[a] # None
    <3>1. UNCHANGED <<addressOf, surrogateOf>>
      BY <2>5, <2>6
    <3>2. AddressInv'
      BY <1>0, <2>4, <3>1 DEF AddressInv
    <3>3. ResolveInv => addressOf[s] = a
      BY <2>2, <2>6 DEF ResolveInv
    <3>4. ResolveInv => GivenAddressResolves'
      BY <1>0, <2>1, <3>1, <3>3 DEF ResolveInv, GivenAddressResolves, in6_to_scion, getAddress
    <3>5. QED BY <3>1, <3>2, <3>4 DEF ResolveInv
  <2>7. CASE surrogateOf[a] = None
    <3>1. /\ addressOf' = [addressOf EXCEPT ![s] = a] /\ surrogateOf' = [surrogateOf EXCEPT ![a] = s]
          /\ addressOf[s] = None
      BY <2>2, <2>5, <2>7
    <3>2. AddressInv'
      BY <1>0, <2>2, <2>4, <2>7, <3>1 DEF AddressInv
    <3>3. addressOf'[s] = a /\ \A x \in SurrogateIps \ {s} : addressOf'[x] = addressOf[x]
      BY <2>2, <3>1 DEF AddressInv
    <3>4. ResolveInv => \A h \in Hosts : surrogateOf'[h] # None => addressOf'[surrogateOf'[h]] = h
      BY <1>0, <2>2, <3>1, <3>3 DEF ResolveInv, AddressInv
    <3>5. ASSUME ResolveInv, NEW g \in given PROVE in6_to_scion(g.ip)' = g.a
      <4>1. g.ip \in In6 /\ g.a \in Hosts /\ in6_to_scion(g.ip) = g.a
        BY <3>5 DEF AddressInv, ResolveInv, GivenAddressResolves
      <4>2. CASE g.ip.k = "surrogate"
        <5>1. g.ip.ip \in SurrogateIps /\ addressOf[g.ip.ip] = g.a
          BY <4>1, <4>2 DEF In6, in6_to_scion, getAddress
        <5>2. g.ip.ip # s
          BY <1>0, <3>1, <4>1, <5>1
        <5>3. QED BY <3>3, <4>2, <5>1, <5>2 DEF in6_to_scion, getAddress
      <4>3. CASE g.ip.k # "surrogate"
        BY <4>1, <4>3 DEF in6_to_scion
      <4>4. QED BY <4>2, <4>3
    <3>6. ResolveInv => GivenAddressResolves'
      BY <1>0, <2>1, <3>3, <3>5 DEF GivenAddressResolves, in6_to_scion, getAddress
    <3>7. QED BY <3>2, <3>4, <3>6 DEF ResolveInv
  <2>8. QED BY <2>6, <2>7
<1>3. QED BY <1>1, <1>2

\* What the constructor of the interposer enters.
LEMMA ConfiguredTypes ==
  /\ \A ip \in SurrogateIps :
       \/ ConfiguredAddress(ip) = None
       \/ \E i \in 1 .. Len(Configured) : Configured[i].ip = ip /\ ConfiguredAddress(ip) = Configured[i].a
  /\ \A i \in 1 .. Len(Configured) : ConfiguredAddress(Configured[i].ip) # None
  /\ \A a \in Hosts :
       \/ ConfiguredSurrogate(a) = None
       \/ \E i \in 1 .. Len(Configured) : Configured[i].a = a /\ ConfiguredSurrogate(a) = Configured[i].ip
  /\ \A i \in 1 .. Len(Configured) : Configured[i].ip \in SurrogateIps /\ Configured[i].a \in Hosts
<1>0. \A i \in 1 .. Len(Configured) :
        Configured[i].ip \in SurrogateIps /\ Configured[i].a \in Hosts /\ Configured[i].a # None
  <2> DEFINE Entries == [ip : SurrogateIps, a : Hosts]
  <2>1. Configured \in Seq(Entries) /\ None \notin Hosts
    BY InterposerAssumption
  <2> HIDE DEF Entries
  <2>2. \A i \in 1 .. Len(Configured) : Configured[i] \in Entries
    BY <2>1
  <2>3. \A e \in Entries : e.ip \in SurrogateIps /\ e.a \in Hosts
    BY DEF Entries
  <2>4. QED BY <2>1, <2>2, <2>3
<1>1. ASSUME NEW S \in SUBSET (1 .. Len(Configured)), S # {}
      PROVE  \E i \in S : addOrReplace(S) = Configured[i]
  <2>1. \E i \in S : \A j \in S : j <= i
    <3>1. Len(Configured) \in Nat
      BY InterposerAssumption
    <3>2. QED BY <1>1, <3>1, LastEntry
  <2>2. QED BY <2>1 DEF addOrReplace
<1>2. ASSUME NEW ip \in SurrogateIps
      PROVE  LET entries == {i \in 1 .. Len(Configured) : Configured[i].ip = ip}
             IN  /\ entries = {} => ConfiguredAddress(ip) = None
                 /\ entries # {} => \E i \in entries : ConfiguredAddress(ip) = Configured[i].a
  BY <1>1 DEF ConfiguredAddress
<1>3. ASSUME NEW a \in Hosts
      PROVE  LET entries == {i \in 1 .. Len(Configured) : Configured[i].a = a}
             IN  /\ entries = {} => ConfiguredSurrogate(a) = None
                 /\ entries # {} => \E i \in entries : ConfiguredSurrogate(a) = Configured[i].ip
  BY <1>1 DEF ConfiguredSurrogate
<1>4. \A i \in 1 .. Len(Configured) : ConfiguredAddress(Configured[i].ip) # None
  BY <1>0, <1>2
<1>5. QED BY <1>0, <1>2, <1>3, <1>4

\* No surrogate is configured for two addresses.
UniqueSurrogates ==
  \A i, j \in 1 .. Len(Configured) :
    Configured[i].ip = Configured[j].ip => Configured[i].a = Configured[j].a

LEMMA AddressInit == Init => AddressInv /\ (UniqueSurrogates => ResolveInv)
<1> SUFFICES ASSUME Init PROVE AddressInv /\ (UniqueSurrogates => ResolveInv)
  OBVIOUS
<1>1. /\ addressOf = [ip \in SurrogateIps |-> ConfiguredAddress(ip)]
      /\ surrogateOf = [a \in Hosts |-> ConfiguredSurrogate(a)]
      /\ given = {}
  BY DEF Init
<1>2. AddressInv
  BY <1>1, ConfiguredTypes DEF AddressInv
<1>3. ASSUME UniqueSurrogates, NEW a \in Hosts, surrogateOf[a] # None
      PROVE  addressOf[surrogateOf[a]] = a
  <2>1. PICK i \in 1 .. Len(Configured) : Configured[i].a = a /\ surrogateOf[a] = Configured[i].ip
    BY <1>1, <1>3, ConfiguredTypes
  <2>2. PICK j \in 1 .. Len(Configured) :
          Configured[j].ip = Configured[i].ip /\ ConfiguredAddress(Configured[i].ip) = Configured[j].a
    BY <2>1, ConfiguredTypes
  <2>3. Configured[j].a = a
    BY <1>3, <2>1, <2>2 DEF UniqueSurrogates
  <2>4. QED BY <1>1, <2>1, <2>2, <2>3, ConfiguredTypes
<1>4. QED BY <1>1, <1>2, <1>3 DEF ResolveInv, GivenAddressResolves

-----------------------------------------------------------------------------
(***************************************************************************)
(* Threads.                                                                *)
(***************************************************************************)
Others(t) == \A u \in Threads \ {t} : th'[u] = th[u]

\* A thread goes on in its handler, with the same or another family and path.
LEMMA ThreadStep ==
  ASSUME ThreadInv, NEW t \in Threads, NEW p \in Pcs, NEW fam \in {"inet", "inet6", None},
         NEW path \in PathObjects \cup {None},
         th' \in [Threads -> Executions], Others(t),
         th'[t].pc = p, th'[t].fd = th[t].fd, th'[t].arg = th[t].arg, th'[t].fam = fam,
         th'[t].path = path,
         p # "libc" /\ p \notin WithHost,
         p \in WithAddr => th[t].pc \in WithAddr,
         p \notin WithoutFd => th[t].pc \notin WithoutFd,
         p \in WithFamily => fam \in {"inet", "inet6"},
         p = "send.pack" => path \in PathObjects
  PROVE  ThreadInv'
<1>1. th[t].fd \in Fds \/ th[t].pc \in WithoutFd
  BY DEF ThreadInv, Executes
<1>2. th[t].pc \in WithAddr => th[t].arg \in SockAddrs
  BY DEF ThreadInv, Executes
<1>3. Executes(th'[t])
  BY <1>1, <1>2 DEF Executes
<1>4. ASSUME NEW u \in Threads \ {t} PROVE Executes(th'[u])
  BY DEF ThreadInv, Others
<1>5. QED BY <1>3, <1>4 DEF ThreadInv, Executes, Others

LEMMA GoStep ==
  ASSUME ThreadInv, NEW t \in Threads, NEW p \in Pcs, Go(t, p),
         p # "libc" /\ p \notin WithHost /\ p \notin WithFamily /\ p # "send.pack",
         p \in WithAddr => th[t].pc \in WithAddr,
         p \notin WithoutFd => th[t].pc \notin WithoutFd
  PROVE  ThreadInv' /\ Others(t) /\ th'[t].pc = p /\ th'[t].fd = th[t].fd
<1>1. th[t] \in Executions /\ th \in [Threads -> Executions]
  BY DEF ThreadInv
<1>2. /\ th' = [th EXCEPT ![t] = [th[t] EXCEPT !.pc = p]]
      /\ [th[t] EXCEPT !.pc = p] \in Executions
  BY <1>1 DEF Go, Executions
<1>3. /\ th' \in [Threads -> Executions] /\ Others(t)
      /\ th'[t] = [th[t] EXCEPT !.pc = p]
  BY <1>1, <1>2 DEF Others
<1>4. /\ th'[t].pc = p /\ th'[t].fd = th[t].fd /\ th'[t].arg = th[t].arg
      /\ th'[t].fam = th[t].fam /\ th'[t].path = th[t].path
      /\ th[t].fam \in {"inet", "inet6", None} /\ th[t].path \in PathObjects \cup {None}
  BY <1>1, <1>3 DEF Executions
<1>5. ThreadInv'
  BY <1>3, <1>4, ThreadStep
<1>6. QED BY <1>3, <1>4, <1>5

LEMMA ReturnStep ==
  ASSUME ThreadInv, NEW t \in Threads, Return(t)
  PROVE  ThreadInv' /\ Others(t) /\ th'[t].pc = "idle"
<1>1. th \in [Threads -> Executions]
  BY DEF ThreadInv
<1>2. Idle \in Executions /\ Executes(Idle) /\ Idle.pc = "idle"
  BY DEF Idle, Executions, Executes, Pcs, Arguments, WithHost, WithAddr, WithoutFd, WithFamily
<1>3. /\ th' \in [Threads -> Executions] /\ Others(t) /\ th'[t] = Idle
  BY <1>1, <1>2 DEF Return, Others
<1>4. QED BY <1>2, <1>3 DEF ThreadInv, Others

\* The family of the native socket has been found out.
LEMMA FamilyStep ==
  ASSUME ThreadInv, NEW t \in Threads, NEW p \in WithFamily, NEW fam \in {"inet", "inet6"},
         th' = [th EXCEPT ![t].pc = p, ![t].fam = fam],
         th[t].pc \in WithAddr
  PROVE  ThreadInv' /\ Others(t) /\ th'[t].pc = p
<1>1. th[t] \in Executions /\ th \in [Threads -> Executions]
  BY DEF ThreadInv
<1> DEFINE q == [th[t] EXCEPT !.pc = p]
           r == [q EXCEPT !.fam = fam]
<1>2. p \in Pcs
  BY DEF WithFamily, Pcs
<1>3. q \in Executions /\ q.pc = p /\ q.fd = th[t].fd /\ q.arg = th[t].arg /\ q.path = th[t].path
  BY <1>1, <1>2 DEF Executions
<1>4. th' = [th EXCEPT ![t] = r]
  BY <1>1
<1> HIDE DEF q
<1>5. /\ r \in Executions /\ r.pc = p /\ r.fd = th[t].fd /\ r.arg = th[t].arg
      /\ r.path = th[t].path /\ r.fam = fam
  BY <1>3 DEF Executions
<1> HIDE DEF r
<1>6. th' \in [Threads -> Executions] /\ Others(t) /\ th'[t] = r
  BY <1>1, <1>4, <1>5 DEF Others
<1>7. th[t].path \in PathObjects \cup {None}
  BY <1>1 DEF Executions
<1>8. p # "libc" /\ p \notin WithHost /\ p # "send.pack" /\ th[t].pc \notin WithoutFd
  BY DEF WithFamily, WithHost, WithAddr, WithoutFd
<1>9. QED BY <1>2, <1>5, <1>6, <1>7, <1>8, ThreadStep

\* A path has been selected.
LEMMA PathStep ==
  ASSUME ThreadInv, NEW t \in Threads, NEW path \in PathObjects,
         th' = [th EXCEPT ![t].pc = "send.pack", ![t].path = path],
         th[t].pc = "send.select"
  PROVE  ThreadInv' /\ Others(t) /\ th'[t].pc = "send.pack" /\ th'[t].fd = th[t].fd
<1>1. th[t] \in Executions /\ th \in [Threads -> Executions]
  BY DEF ThreadInv
<1> DEFINE q == [th[t] EXCEPT !.pc = "send.pack"]
           r == [q EXCEPT !.path = path]
<1>2. "send.pack" \in Pcs
  BY DEF Pcs, Referring
<1>3. q \in Executions /\ q.pc = "send.pack" /\ q.fd = th[t].fd /\ q.arg = th[t].arg /\ q.fam = th[t].fam
  BY <1>1, <1>2 DEF Executions
<1>4. th' = [th EXCEPT ![t] = r]
  BY <1>1
<1> HIDE DEF q
<1>5. /\ r \in Executions /\ r.pc = "send.pack" /\ r.fd = th[t].fd /\ r.arg = th[t].arg
      /\ r.path = path /\ r.fam = th[t].fam
  BY <1>3 DEF Executions
<1> HIDE DEF r
<1>6. th' \in [Threads -> Executions] /\ Others(t) /\ th'[t] = r
  BY <1>1, <1>4, <1>5 DEF Others
<1>7. th[t].fam \in {"inet", "inet6", None}
  BY <1>1 DEF Executions
<1>8. "send.pack" \notin WithHost /\ "send.pack" \notin WithFamily /\ th[t].pc \notin WithoutFd
      /\ th[t].pc \in WithAddr
  BY DEF WithFamily, WithHost, WithAddr, WithoutFd
<1>9. QED BY <1>2, <1>5, <1>6, <1>7, <1>8, ThreadStep

\* The next message of a batch, or none.
LEMMA NextStep ==
  ASSUME ThreadInv, NEW t \in Threads, NEW p \in {"recv.lock", "send.lock"}, NextMessage(t, p),
         p \in WithAddr => th[t].pc \in WithAddr,
         th[t].pc \notin WithoutFd
  PROVE  ThreadInv' /\ Others(t) /\ (th'[t].pc = "idle" \/ (th'[t].pc = p /\ th'[t].fd = th[t].fd))
<1>1. th[t] \in Executions /\ th \in [Threads -> Executions] /\ th[t].n \in Nat
  BY DEF ThreadInv, Executions
<1>2. CASE ~(th[t].n > 1)
  <2>1. Return(t)
    BY <1>1, <1>2 DEF NextMessage, Return
  <2>2. QED BY <2>1, ReturnStep
<1>3. CASE th[t].n > 1
  <2> DEFINE q == [th[t] EXCEPT !.pc = p]
             s == [q EXCEPT !.n = th[t].n - 1]
             r == [s EXCEPT !.path = None]
  <2>1. p \in Pcs /\ th[t].n - 1 \in Nat
    BY <1>1, <1>3 DEF Pcs, Referring
  <2>2. /\ q \in Executions /\ q.pc = p /\ q.fd = th[t].fd /\ q.arg = th[t].arg /\ q.fam = th[t].fam
        /\ q.n = th[t].n
    BY <1>1, <2>1 DEF Executions
  <2>3. [th[t] EXCEPT !.pc = p, !.n = @ - 1, !.path = None] = r
    BY <1>1, <2>2 DEF Executions
  <2>4. th' = [th EXCEPT ![t] = r]
    BY <1>3, <2>3 DEF NextMessage
  <2> HIDE DEF q
  <2>5. s \in Executions /\ s.pc = p /\ s.fd = th[t].fd /\ s.arg = th[t].arg /\ s.fam = th[t].fam
    BY <2>1, <2>2 DEF Executions
  <2> HIDE DEF s
  <2>6. /\ r \in Executions /\ r.pc = p /\ r.fd = th[t].fd /\ r.arg = th[t].arg /\ r.fam = th[t].fam
        /\ r.path = None
    BY <2>5 DEF Executions
  <2> HIDE DEF r
  <2>7. th' \in [Threads -> Executions] /\ Others(t) /\ th'[t] = r
    BY <1>1, <2>4, <2>6 DEF Others
  <2>8. th[t].fam \in {"inet", "inet6", None}
    BY <1>1 DEF Executions
  <2>9. p \notin WithHost /\ p \notin WithFamily /\ p # "send.pack" /\ p # "libc"
    BY DEF WithFamily, WithHost
  <2>10. QED BY <2>1, <2>6, <2>7, <2>8, <2>9, ThreadStep
<1>4. QED BY <1>2, <1>3

\* A wrapper passes a call with its arguments to the handler, or to libc.
LEMMA CallStep ==
  ASSUME ThreadInv, NEW t \in Threads, NEW p \in Calls, NEW fd \in Fds \cup {None},
         NEW arg \in Arguments, NEW n \in Nat, Call(t, p, fd, arg, n),
         p \in WithHost => arg \in Addrs,
         p \in WithAddr => arg \in SockAddrs,
         p \notin WithoutFd => fd \in Fds
  PROVE  ThreadInv' /\ (UNCHANGED th \/ (Others(t) /\ th'[t].pc \in Calls))
<1>1. th[t] \in Executions /\ th \in [Threads -> Executions]
  BY DEF ThreadInv
<1>2. CASE UNCHANGED th
  BY <1>2 DEF ThreadInv
<1>3. CASE th' = [th EXCEPT ![t] = [Idle EXCEPT !.pc = p, !.fd = fd, !.arg = arg, !.n = n]]
  <2> DEFINE r == [pc |-> p, fd |-> fd, arg |-> arg, fam |-> None, n |-> n, path |-> None]
  <2>1. [Idle EXCEPT !.pc = p, !.fd = fd, !.arg = arg, !.n = n] = r
    <3> DEFINE a == [Idle EXCEPT !.pc = p]
               b == [a EXCEPT !.fd = fd]
               c == [b EXCEPT !.arg = arg]
    <3>1. [Idle EXCEPT !.pc = p, !.fd = fd, !.arg = arg, !.n = n] = [c EXCEPT !.n = n]
      OBVIOUS
    <3>2. a = [pc |-> p, fd |-> None, arg |-> None, fam |-> None, n |-> 0, path |-> None]
      BY DEF Idle
    <3> HIDE DEF a
    <3>3. b = [pc |-> p, fd |-> fd, arg |-> None, fam |-> None, n |-> 0, path |-> None]
      BY <3>2
    <3> HIDE DEF b
    <3>4. c = [pc |-> p, fd |-> fd, arg |-> arg, fam |-> None, n |-> 0, path |-> None]
      BY <3>3
    <3> HIDE DEF c
    <3>5. QED BY <3>1, <3>4
  <2>2. r \in Executions /\ r.pc = p /\ r.fd = fd /\ r.arg = arg
    BY DEF Executions, Pcs
  <2>3. p # "libc" /\ p # "send.pack" /\ p \notin WithFamily
    BY DEF Calls, WithFamily
  <2> HIDE DEF r
  <2>4. Executes(r)
    BY <2>2, <2>3 DEF Executes
  <2>5. th' \in [Threads -> Executions] /\ Others(t) /\ th'[t] = r
    BY <1>1, <1>3, <2>1, <2>2 DEF Others
  <2>6. QED BY <2>2, <2>4, <2>5 DEF ThreadInv, Others
<1>4. QED BY <1>2, <1>3 DEF Call

\* The SCION address for a socket address, if there is one.
LEMMA AddressType ==
  ASSUME AddressInv, NEW sa \in SockAddrs
  PROVE  sockaddr_to_scion(sa) \in Hosts \cup {None}
<1>1. CASE sa \in [k : {"scion"}, a : Hosts]
  BY <1>1 DEF sockaddr_to_scion
<1>2. CASE sa \in [k : {"in6"}, ip : In6]
  <2>1. sa.k = "in6" /\ sa.ip \in In6
    BY <1>2
  <2>2. in6_to_scion(sa.ip) \in Hosts \cup {None}
    <3>1. CASE sa.ip \in [k : {"mapped"}, a : Mapped]
      BY <3>1, InterposerAssumption DEF in6_to_scion
    <3>2. CASE sa.ip \in [k : {"surrogate"}, ip : SurrogateIps]
      BY <3>2 DEF in6_to_scion, getAddress, AddressInv
    <3>3. QED BY <2>1, <3>1, <3>2 DEF In6
  <2>3. sockaddr_to_scion(sa) = in6_to_scion(sa.ip)
    BY <2>1 DEF sockaddr_to_scion
  <2>4. QED BY <2>2, <2>3
<1>3. CASE sa \in {[k |-> "ip"], [k |-> "null"]}
  <2>1. sa.k # "scion" /\ sa.k # "in6"
    BY <1>3
  <2>2. sockaddr_to_scion(sa) = None
    BY <2>1 DEF sockaddr_to_scion
  <2>3. QED BY <2>2
<1>4. QED BY <1>1, <1>2, <1>3 DEF SockAddrs

\* What the path selector selects is in the path cache, and the last selection
\* is repeated if possible.
LEMMA SelectedPath ==
  ASSUME EnvInv, NEW s \in Sockets, NEW l \in lookup,
         scion_sel_select(s, l) # None
  PROVE  LET d == scion_sel_select(s, l)
         IN  /\ d \in Digests /\ l.cached \in [Digests -> Gens \cup {None}]
             /\ [dig |-> d, gen |-> l.cached[d]] \in PathObjects
             /\ s.lastSelected # None /\ Usable(l, s.lastSelected) => d = s.lastSelected
<1> DEFINE d == scion_sel_select(s, l)
<1>1. l.cached \in [Digests -> Gens \cup {None}]
  BY DEF lookup, queryPaths, EnvInv
<1>2. CASE s.lastSelected # None /\ Usable(l, s.lastSelected)
  <2>1. d = s.lastSelected
    BY <1>2 DEF scion_sel_select
  <2>2. d \in Digests /\ l.cached[d] \in Gens
    BY <1>1, <1>2, <2>1 DEF Usable, Available, Sockets
  <2>3. QED BY <1>1, <2>1, <2>2 DEF PathObjects
<1>3. CASE ~(s.lastSelected # None /\ Usable(l, s.lastSelected))
  <2>1. d = First(l) /\ Working(l) # {}
    BY <1>3 DEF scion_sel_select
  <2>2. Working(l) \in SUBSET Nat
    BY DEF Working
  <2>3. \E m \in Working(l) : \A x \in Working(l) : m <= x
    BY <2>1, <2>2, LeastNat
  <2>4. PICK i \in Working(l) : d = Order[i]
    BY <2>1, <2>3 DEF First
  <2>5. i \in 1 .. Len(Order) /\ Usable(l, d)
    BY <2>4 DEF Working
  <2>6. d \in Digests
    BY <2>4, <2>5 DEF Digests
  <2>7. l.cached[d] \in Gens
    BY <1>1, <2>5, <2>6 DEF Usable, Available
  <2>8. QED BY <1>1, <1>3, <2>6, <2>7 DEF PathObjects
<1>4. QED BY <1>2, <1>3

-----------------------------------------------------------------------------
(***************************************************************************)
(* Steps of the threads.                                                   *)
(***************************************************************************)
\* How a thread comes to refer to a socket, to hold its mutex, and to release
\* it.
Transition(t) ==
  LET p == th'[t].pc
      fd == th[t].fd IN
  p \in Referring =>
    /\ th'[t].fd = fd
    /\ \/ p \in {"recv.lock", "send.lock"} /\ Promoted(fd) /\ UNCHANGED sockets
       \/ p \in {"recv.lock", "send.lock"} /\ th[t].pc \in Holding
       \/ p \in {"recv.wait", "send.select"} /\ th[t].pc \in Referring /\ MutexFree(fd)
       \/ p = "send.pack" /\ th[t].pc = "send.select"

Move(t) == ThreadInv' /\ (UNCHANGED th \/ (Others(t) /\ Transition(t)))

LEMMA StayMove ==
  ASSUME ThreadInv, NEW t, UNCHANGED th
  PROVE  Move(t)
BY DEF Move, ThreadInv

LEMMA ReturnMove ==
  ASSUME ThreadInv, NEW t \in Threads, Return(t)
  PROVE  Move(t)
<1>1. ThreadInv' /\ Others(t) /\ th'[t].pc = "idle"
  BY ReturnStep
<1>2. "idle" \notin Referring
  BY DEF Referring
<1>3. QED BY <1>1, <1>2 DEF Move, Transition

\* A call is passed to libc.
LEMMA PassOnMove ==
  ASSUME ThreadInv, NEW t \in Threads, NEW op \in PassedOn, PassOn(t, op),
         th[t].pc \notin WithoutFd
  PROVE  Move(t)
<1>1. th[t] \in Executions /\ th \in [Threads -> Executions] /\ th[t].fd \in Fds
  BY DEF ThreadInv, Executes
<1> DEFINE q == [th[t] EXCEPT !.pc = "libc"]
           r == [q EXCEPT !.arg = op]
<1>2. "libc" \in Pcs /\ op \in Arguments
  BY DEF Pcs, Arguments
<1>3. q \in Executions /\ q.pc = "libc" /\ q.fd = th[t].fd
  BY <1>1, <1>2 DEF Executions
<1>4. th' = [th EXCEPT ![t] = r]
  BY <1>1 DEF PassOn
<1> HIDE DEF q
<1>5. r \in Executions /\ r.pc = "libc" /\ r.fd = th[t].fd /\ r.arg = op
  BY <1>2, <1>3 DEF Executions
<1> HIDE DEF r
<1>6. th' \in [Threads -> Executions] /\ Others(t) /\ th'[t] = r
  BY <1>1, <1>4, <1>5 DEF Others
<1>7. "libc" \notin WithHost \cup WithAddr \cup WithFamily \cup Referring
  BY DEF WithHost, WithAddr, WithFamily, Referring
<1>8. Executes(th'[t])
  BY <1>1, <1>5, <1>6, <1>7 DEF Executes
<1>9. ThreadInv'
  BY <1>6, <1>8 DEF ThreadInv, Others
<1>10. QED BY <1>5, <1>6, <1>7, <1>9 DEF Move, Transition

\* What happens to the packets when a thread calls libc.
LEMMA LibcStep ==
  ASSUME EnvInv, NEW op \in Calls, NEW fd, fd \in Fds \/ op # "close", Libc(op, fd)
  PROVE  inbox' \in [Fds -> Packets \cup {None}]
<1>1. CASE UNCHANGED inbox
  BY <1>1 DEF EnvInv
<1>2. CASE inbox' = [inbox EXCEPT ![fd] = None]
  BY <1>2 DEF EnvInv
<1>3. QED BY <1>1, <1>2 DEF Libc, KernelClose

LEMMA KnownTypes ==
  ASSUME AddressInv
  PROVE  /\ KnownSockAddrs \subseteq SockAddrs
         /\ [k |-> "scion", a |-> Own] \in SockAddrs /\ [k |-> "null"] \in SockAddrs
         /\ SockAddrs \subseteq Arguments
<1>1. Addrs \subseteq Hosts /\ Own \in Hosts
  BY DEF Hosts
<1>2. ASSUME NEW g \in given PROVE [k |-> "in6", ip |-> g.ip] \in SockAddrs
  <2>1. g.ip \in In6
    BY DEF AddressInv
  <2>2. QED BY <2>1 DEF SockAddrs
<1>3. [k : {"scion"}, a : Addrs] \subseteq SockAddrs
  BY <1>1 DEF SockAddrs
<1>4. {[k |-> "ip"]} \subseteq SockAddrs /\ [k |-> "null"] \in SockAddrs
  BY DEF SockAddrs
<1>5. [k |-> "scion", a |-> Own] \in SockAddrs
  BY <1>1 DEF SockAddrs
<1>6. QED BY <1>2, <1>3, <1>4, <1>5 DEF KnownSockAddrs, Arguments

\* A call leaves everything but the packets to its handler.
LEMMA WrapperMove ==
  ASSUME ThreadInv, EnvInv, AddressInv, NEW t \in Threads, Wrapper(t)
  PROVE  /\ Move(t) /\ EnvInv'
         /\ UNCHANGED <<sockets, addressOf, surrogateOf, cached, disabled, given, last>>
<1>1. ASSUME NEW p \in Calls, NEW fd \in Fds \cup {None}, NEW arg \in Arguments, NEW n \in Nat,
             Call(t, p, fd, arg, n),
             p \in WithHost => arg \in Addrs,
             p \in WithAddr => arg \in SockAddrs,
             p \notin WithoutFd => fd \in Fds
      PROVE  /\ Move(t) /\ EnvInv'
             /\ UNCHANGED <<sockets, addressOf, surrogateOf, cached, disabled, given, last>>
  <2>1. ThreadInv' /\ (UNCHANGED th \/ (Others(t) /\ th'[t].pc \in Calls))
    BY <1>1, CallStep
  <2>2. \A q \in Calls : q \notin Referring
    BY DEF Calls, Referring
  <2>3. Move(t)
    BY <2>1, <2>2 DEF Move, Transition
  <2>4. UNCHANGED <<sockets, addressOf, surrogateOf, cached, disabled, given, last>>
    BY <1>1 DEF Call
  <2>5. inbox' \in [Fds -> Packets \cup {None}]
    <3>1. fd \in Fds \/ p # "close"
      BY <1>1 DEF WithoutFd
    <3>2. CASE UNCHANGED inbox
      BY <3>2 DEF EnvInv
    <3>3. CASE Libc(p, fd)
      BY <3>1, <3>3, LibcStep
    <3>4. QED BY <1>1, <3>2, <3>3 DEF Call
  <2>6. QED BY <2>3, <2>4, <2>5 DEF EnvInv
<1>2. /\ Addrs \subseteq Arguments /\ NativeTypes \subseteq Arguments
      /\ "addr" \in Arguments /\ "noaddr" \in Arguments /\ None \in Arguments
      /\ SockAddrs \subseteq Arguments /\ KnownSockAddrs \subseteq SockAddrs
      /\ [k |-> "scion", a |-> Own] \in SockAddrs /\ [k |-> "null"] \in SockAddrs
      /\ 1 \in Nat /\ 1 .. MaxBatch \subseteq Nat
  BY KnownTypes, InterposerAssumption DEF Arguments
<1>3. CASE CallResolve(t)
  <2>1. PICK op \in WithHost, a \in Addrs : Call(t, op, None, a, 1)
    BY <1>3 DEF CallResolve, WithHost
  <2>2. op \in Calls /\ op \notin WithAddr /\ op \in WithoutFd
    BY DEF WithHost, WithAddr, WithoutFd, Calls
  <2>3. QED BY <1>1, <1>2, <2>1, <2>2
<1>4. CASE CallSocket(t)
  <2>1. PICK fam \in Families \cup {"scion"}, type \in {"dgram", "stream"} :
          Call(t, "socket", None, [fam |-> fam, type |-> type], 1)
    BY <1>4 DEF CallSocket
  <2>2. "socket" \in Calls /\ "socket" \notin WithHost /\ "socket" \notin WithAddr
        /\ "socket" \in WithoutFd
    BY DEF WithHost, WithAddr, WithoutFd, Calls
  <2>3. [fam |-> fam, type |-> type] \in NativeTypes
    BY DEF NativeTypes
  <2>4. QED BY <1>1, <1>2, <2>1, <2>2, <2>3
<1>5. ASSUME NEW fd \in Fds, NEW op \in Calls \ (WithHost \cup WithAddr),
             NEW arg \in {None, "addr", "noaddr"}, NEW n \in Nat, Call(t, op, fd, arg, n)
      PROVE  /\ Move(t) /\ EnvInv'
             /\ UNCHANGED <<sockets, addressOf, surrogateOf, cached, disabled, given, last>>
  BY <1>1, <1>2, <1>5
<1>6. ASSUME NEW fd \in Fds, NEW op \in {"bind", "connect", "send", "sendmmsg"},
             NEW sa \in SockAddrs, NEW n \in Nat, Call(t, op, fd, sa, n)
      PROVE  /\ Move(t) /\ EnvInv'
             /\ UNCHANGED <<sockets, addressOf, surrogateOf, cached, disabled, given, last>>
  <2>1. op \in Calls /\ op \notin WithHost
    BY DEF Calls, WithHost
  <2>2. QED BY <1>1, <1>2, <1>6, <2>1
<1>7. /\ "sockopt" \in Calls \ (WithHost \cup WithAddr) /\ "recv" \in Calls \ (WithHost \cup WithAddr)
      /\ "getpeername" \in Calls \ (WithHost \cup WithAddr)
      /\ "getsockname" \in Calls \ (WithHost \cup WithAddr)
      /\ "close" \in Calls \ (WithHost \cup WithAddr)
  BY DEF Calls, WithHost, WithAddr
<1>8. CASE CallOption(t)
  BY <1>2, <1>5, <1>7, <1>8 DEF CallOption
<1>9. CASE CallBindConnect(t)
  <2>1. PICK fd \in Fds, sa \in SockAddrs, op \in {"bind", "connect"} : Call(t, op, fd, sa, 1)
    BY <1>2, <1>9 DEF CallBindConnect
  <2>2. QED BY <1>2, <1>6, <2>1
<1>10. CASE CallName(t)
  BY <1>2, <1>5, <1>7, <1>10 DEF CallName
<1>11. CASE CallRecv(t)
  BY <1>2, <1>5, <1>7, <1>11 DEF CallRecv
<1>12. CASE CallSend(t)
  BY <1>2, <1>6, <1>12 DEF CallSend
<1>13. CASE CallReadWrite(t)
  <2>1. PICK fd \in Fds : \/ Call(t, "recv", fd, "noaddr", 1)
                          \/ Call(t, "sendmmsg", fd, [k |-> "null"], 1)
    BY <1>13 DEF CallReadWrite
  <2>2. QED BY <1>2, <1>5, <1>6, <1>7, <2>1
<1>14. CASE CallMany(t)
  <2>1. PICK fd \in Fds, n \in 1 .. MaxBatch :
          \/ Call(t, "recv", fd, "addr", n)
          \/ \E sa \in KnownSockAddrs : Call(t, "sendmmsg", fd, sa, n)
    BY <1>14 DEF CallMany
  <2>2. n \in Nat
    BY <1>2
  <2>3. QED BY <1>2, <1>5, <1>6, <1>7, <2>1, <2>2
<1>15. CASE CallClose(t)
  BY <1>2, <1>5, <1>7, <1>15 DEF CallClose
<1>16. QED
  BY <1>3, <1>4, <1>8, <1>9, <1>10, <1>11, <1>12, <1>13, <1>14, <1>15 DEF Wrapper

\* No step but close() and exit() removes a socket, and close() does so while no
\* handler refers to one.
Kept ==
  \/ \A fd \in Fds : sockets[fd] # None => sockets'[fd] # None
  \/ Sharers = {} /\ Sharers' = {}
  \/ disabled'

Good(t) ==
  /\ Move(t) /\ EnvInv' /\ AddressInv' /\ SocketInv'
  /\ ResolveInv => ResolveInv'
  /\ Kept
  /\ disabled' \in {disabled, TRUE}

LEMMA QuietSockets ==
  ASSUME SocketInv, UNCHANGED <<sockets, last>>
  PROVE  SocketInv' /\ Kept
BY DEF SocketInv, CachedHeaderValid, Kept

LEMMA QuietEnv ==
  ASSUME EnvInv, UNCHANGED <<inbox, cached, disabled>>
  PROVE  EnvInv'
BY DEF EnvInv

LEMMA QuietAddresses ==
  ASSUME AddressInv, KeepAddresses
  PROVE  AddressInv' /\ (ResolveInv => ResolveInv')
BY DEF AddressInv, ResolveInv, KeepAddresses, GivenAddressResolves, in6_to_scion, getAddress

\* The history of the selected paths follows the changes of the paths.
LEMMA StillUsableRecord ==
  ASSUME SocketInv, NEW fd \in Fds, NEW o, NEW c
  PROVE  LET r == StillUsable(o, c)[fd]
             d == last[fd].dig
         IN  r # None => /\ r \in Selections /\ r.dig = d /\ last[fd] # None
                         /\ r.ok => c[d] # None /\ o[[dig |-> d, gen |-> c[d]]] = "good"
<1>1. CASE last[fd] = None
  BY <1>1 DEF StillUsable
<1>2. CASE last[fd] # None
  <2> DEFINE r == last[fd]
             usable == c[r.dig] # None /\ o[[dig |-> r.dig, gen |-> c[r.dig]]] = "good"
             b == r.ok /\ usable
             q == [r EXCEPT !.ok = b]
  <2>1. StillUsable(o, c)[fd] = q
    BY <1>2 DEF StillUsable
  <2>2. r \in Selections
    BY <1>2 DEF SocketInv
  <2>3. b \in BOOLEAN /\ (b => usable)
    OBVIOUS
  <2> HIDE DEF r, b
  <2>4. q \in Selections /\ q.dig = r.dig /\ q.ok = b
    BY <2>2, <2>3, ZenonT(30) DEF Selections
  <2> HIDE DEF q
  <2>5. q.ok => usable
    BY <2>3, <2>4
  <2>6. StillUsable(o, c)[fd] \in Selections /\ StillUsable(o, c)[fd].dig = r.dig
        /\ (StillUsable(o, c)[fd].ok => usable)
    BY <2>1, <2>4, <2>5
  <2>7. QED BY <1>2, <2>6 DEF r
<1>3. QED BY <1>1, <1>2

LEMMA StillUsableType ==
  ASSUME SocketInv, NEW o, NEW c
  PROVE  StillUsable(o, c) \in [Fds -> Selections \cup {None}]
<1>1. StillUsable(o, c) = [fd \in Fds |-> StillUsable(o, c)[fd]]
  BY DEF StillUsable
<1>2. ASSUME NEW fd \in Fds PROVE StillUsable(o, c)[fd] \in Selections \cup {None}
  BY StillUsableRecord
<1>3. QED BY <1>1, <1>2

LEMMA StillStep ==
  ASSUME SocketInv, UNCHANGED sockets, NEW o, NEW c, last' = StillUsable(o, c)
  PROVE  SocketInv' /\ Kept
<1>1. ASSUME NEW fd \in Fds, last'[fd] # None
      PROVE  last[fd] # None /\ last'[fd].dig = last[fd].dig
  BY <1>1, StillUsableRecord
<1>2. last' \in [Fds -> Selections \cup {None}]
  BY StillUsableType
<1>3. CachedHeaderValid' /\ Kept
  BY DEF SocketInv, CachedHeaderValid, Kept
<1>4. QED BY <1>1, <1>2, <1>3 DEF SocketInv

\* Handlers that leave the sockets as they are.
LEMMA ResolveGood ==
  ASSUME ThreadInv, EnvInv, AddressInv, SocketInv, NEW t \in Threads,
         ConnectCp(t) \/ Getaddrinfo(t) \/ InetPton(t) \/ OptionHandler(t)
  PROVE  Good(t)
<1>1. CASE ConnectCp(t)
  <2>1. UNCHANGED <<th, inbox, sockets, addressOf, surrogateOf, cached, disabled, given, last>>
    BY <1>1 DEF ConnectCp
  <2>2. KeepAddresses
    BY <2>1 DEF KeepAddresses
  <2>3. QED BY <2>1, <2>2, StayMove, QuietEnv, QuietSockets, QuietAddresses DEF Good
<1>2. CASE Getaddrinfo(t) \/ InetPton(t)
  <2>1. th[t].arg \in Hosts
    BY <1>2 DEF Getaddrinfo, InetPton, ThreadInv, Executes, WithHost, Hosts
  <2>2. /\ GiveAddress(th[t].arg) \/ KeepAddresses
        /\ Return(t) /\ UNCHANGED <<inbox, sockets, cached, disabled, last>>
    BY <1>2 DEF Getaddrinfo, InetPton
  <2>3. AddressInv' /\ (ResolveInv => ResolveInv')
    BY <2>1, <2>2, GiveStep, QuietAddresses
  <2>4. QED BY <2>2, <2>3, ReturnMove, QuietEnv, QuietSockets DEF Good
<1>3. CASE OptionHandler(t)
  <2>1. /\ Return(t)
        /\ UNCHANGED <<inbox, sockets, addressOf, surrogateOf, cached, disabled, given, last>>
    BY <1>3 DEF OptionHandler
  <2>2. KeepAddresses
    BY <2>1 DEF KeepAddresses
  <2>3. QED BY <2>1, <2>2, ReturnMove, QuietEnv, QuietSockets, QuietAddresses DEF Good
<1>4. QED BY <1>1, <1>2, <1>3

LEMMA NameGood ==
  ASSUME ThreadInv, EnvInv, AddressInv, SocketInv, NEW t \in Threads,
         Getpeername(t) \/ Getsockname(t)
  PROVE  Good(t)
<1>1. PICK op \in {"getpeername", "getsockname"}, ep \in Hosts \cup {None} : NameOf(t, op, ep)
  <2>1. ASSUME NEW fd \in Fds, Promoted(fd)
        PROVE  sockets[fd].remote \in Hosts \cup {None} /\ sockets[fd].local \in Hosts \cup {None}
    <3>1. sockets[fd] \in Sockets
      BY <2>1 DEF Promoted, SocketInv
    <3>2. QED BY <3>1 DEF Sockets
  <2>2. th[t].pc \in {"getpeername", "getsockname"} => th[t].fd \in Fds
    BY DEF ThreadInv, Executes, WithoutFd
  <2>3. CASE Getpeername(t)
    <3>1. th[t].fd \in Fds
      BY <2>2, <2>3 DEF Getpeername, NameOf
    <3>2. QED BY <2>1, <2>3, <3>1 DEF Getpeername
  <2>4. CASE Getsockname(t)
    <3>1. th[t].fd \in Fds
      BY <2>2, <2>4 DEF Getsockname, NameOf
    <3>2. QED BY <2>1, <2>4, <3>1 DEF Getsockname
  <2>5. QED BY <2>3, <2>4
<1>2. /\ (ep # None /\ GiveAddress(ep)) \/ KeepAddresses
      /\ Return(t) /\ UNCHANGED <<inbox, sockets, cached, disabled, last>>
  BY <1>1 DEF NameOf
<1>3. AddressInv' /\ (ResolveInv => ResolveInv')
  BY <1>2, GiveStep, QuietAddresses
<1>4. QED BY <1>2, <1>3, ReturnMove, QuietEnv, QuietSockets DEF Good

\* bind() and connect() look at the native socket, or leave the call to libc.
LEMMA CheckGood ==
  ASSUME ThreadInv, EnvInv, AddressInv, SocketInv, NEW t \in Threads,
         BindCheck(t) \/ ConnectCheck(t)
  PROVE  Good(t)
<1>1. PICK op \in {"bind", "connect"}, next \in {"bind.lock", "connect.lock"} :
        CheckFamily(t, op, next)
  BY DEF BindCheck, ConnectCheck
<1>2. /\ UNCHANGED <<inbox, sockets, addressOf, surrogateOf, cached, disabled, given, last>>
      /\ th[t].pc = op
  BY <1>1 DEF CheckFamily
<1>3. op \in PassedOn /\ op \in WithAddr /\ op \notin WithoutFd /\ next \in WithFamily
      /\ next \notin Referring
  BY DEF PassedOn, WithAddr, WithoutFd, WithFamily, Referring
<1>4. Move(t)
  <2> DEFINE fam == get_socket_family(th[t].fd)
  <2>1. CASE /\ IsDatagram(fam, get_socket_type(th[t].fd))
             /\ th' = [th EXCEPT ![t].pc = next, ![t].fam = fam]
    <3>1. fam \in {"inet", "inet6"}
      BY <2>1, InterposerAssumption DEF IsDatagram
    <3> HIDE DEF fam
    <3>2. ThreadInv' /\ Others(t) /\ th'[t].pc = next
      BY <1>2, <1>3, <2>1, <3>1, FamilyStep
    <3>3. QED BY <1>3, <3>2 DEF Move, Transition
  <2>2. CASE PassOn(t, op)
    BY <1>2, <1>3, <2>2, PassOnMove
  <2>3. QED BY <1>1, <2>1, <2>2 DEF CheckFamily
<1>5. KeepAddresses
  BY <1>2 DEF KeepAddresses
<1>6. QED BY <1>2, <1>4, <1>5, QuietEnv, QuietSockets, QuietAddresses DEF Good

\* A call that was passed to libc.
LEMMA LibcGood ==
  ASSUME ThreadInv, EnvInv, AddressInv, SocketInv, NEW t \in Threads, LibcCall(t)
  PROVE  Good(t)
<1>1. /\ th[t].pc = "libc" /\ Libc(th[t].arg, th[t].fd) /\ Return(t)
      /\ UNCHANGED <<sockets, addressOf, surrogateOf, cached, disabled, given, last>>
  BY DEF LibcCall
<1>2. th[t].arg \in Calls /\ th[t].fd \in Fds
  BY <1>1 DEF ThreadInv, Executes, PassedOn, Calls, WithoutFd
<1>3. EnvInv'
  <2>1. inbox' \in [Fds -> Packets \cup {None}]
    BY <1>1, <1>2, LibcStep
  <2>2. QED BY <1>1, <2>1 DEF EnvInv
<1>4. KeepAddresses
  BY <1>1 DEF KeepAddresses
<1>5. QED BY <1>1, <1>3, <1>4, ReturnMove, QuietSockets, QuietAddresses DEF Good

\* A handler finds a socket in the table, and then takes its mutex.
LEMMA EnterGood ==
  ASSUME ThreadInv, EnvInv, AddressInv, SocketInv, NEW t \in Threads,
         RecvEnter(t) \/ SendEnter(t)
  PROVE  Good(t)
<1>1. UNCHANGED <<inbox, sockets, addressOf, surrogateOf, cached, disabled, given, last>>
  BY DEF RecvEnter, SendEnter
<1>2. Move(t)
  <2>1. CASE Return(t)
    BY <2>1, ReturnMove
  <2>2. CASE \E p \in {"recv.lock", "send.lock"} :
               /\ Promoted(th[t].fd) /\ Go(t, p)
               /\ th[t].pc \in (IF p = "recv.lock" THEN {"recv"} ELSE {"send", "sendmmsg"})
    <3>1. PICK p \in {"recv.lock", "send.lock"} :
            /\ Promoted(th[t].fd) /\ Go(t, p)
            /\ th[t].pc \in (IF p = "recv.lock" THEN {"recv"} ELSE {"send", "sendmmsg"})
      BY <2>2
    <3>2. /\ p \in Pcs /\ p # "libc" /\ p \notin WithHost /\ p \notin WithFamily /\ p # "send.pack"
          /\ p \in WithAddr => th[t].pc \in WithAddr
          /\ th[t].pc \notin WithoutFd
      BY <3>1 DEF Pcs, Referring, WithHost, WithFamily, WithAddr, WithoutFd
    <3>3. ThreadInv' /\ Others(t) /\ th'[t].pc = p /\ th'[t].fd = th[t].fd
      BY <3>1, <3>2, GoStep
    <3>4. QED BY <1>1, <3>1, <3>3 DEF Move, Transition
  <2>3. CASE /\ th[t].pc \in WithAddr
             /\ \E fam \in {"inet", "inet6"} :
                  th' = [th EXCEPT ![t].pc = "promote", ![t].fam = fam]
    <3>1. "promote" \in WithFamily /\ "promote" \notin Referring
      BY DEF WithFamily, Referring
    <3>2. ThreadInv' /\ Others(t) /\ th'[t].pc = "promote"
      BY <2>3, <3>1, FamilyStep
    <3>3. QED BY <3>1, <3>2 DEF Move, Transition
  <2>5. CASE RecvEnter(t)
    <3>1. th[t].pc = "recv" /\ ((Promoted(th[t].fd) /\ Go(t, "recv.lock")) \/ Return(t))
      BY <2>5 DEF RecvEnter
    <3>2. QED BY <2>1, <2>2, <3>1
  <2>4. CASE th[t].pc \in WithAddr /\ Go(t, "crash")
    <3>1. /\ "crash" \in Pcs /\ "crash" # "libc" /\ "crash" # "send.pack" /\ th[t].pc \notin WithoutFd
          /\ "crash" \notin WithHost \cup WithAddr \cup WithFamily \cup Referring
      BY <2>4 DEF Pcs, WithHost, WithAddr, WithFamily, WithoutFd, Referring
    <3>2. ThreadInv' /\ Others(t) /\ th'[t].pc = "crash"
      BY <2>4, <3>1, GoStep
    <3>3. QED BY <3>1, <3>2 DEF Move, Transition
  <2>6. CASE SendEnter(t)
    <3> DEFINE fam == get_socket_family(th[t].fd)
    <3>1. /\ th[t].pc \in {"send", "sendmmsg"}
          /\ \/ Promoted(th[t].fd) /\ Go(t, "send.lock")
             \/ Return(t)
             \/ Go(t, "crash")
             \/ /\ th' = [th EXCEPT ![t].pc = "promote", ![t].fam = fam]
                /\ IsDatagram(fam, get_socket_type(th[t].fd))
      BY <2>6 DEF SendEnter
    <3>2. IsDatagram(fam, get_socket_type(th[t].fd)) => fam \in {"inet", "inet6"}
      BY InterposerAssumption DEF IsDatagram
    <3> HIDE DEF fam
    <3>3. th[t].pc \in WithAddr
      BY <3>1 DEF WithAddr
    <3>4. QED BY <2>1, <2>2, <2>3, <2>4, <3>1, <3>2, <3>3
  <2>7. QED BY <2>5, <2>6
<1>3. KeepAddresses
  BY <1>1 DEF KeepAddresses
<1>4. QED BY <1>1, <1>2, <1>3, QuietEnv, QuietSockets, QuietAddresses DEF Good

LEMMA LockGood ==
  ASSUME ThreadInv, EnvInv, AddressInv, SocketInv, NEW t \in Threads,
         RecvLock(t) \/ SendLock(t)
  PROVE  Good(t)
<1>1. PICK p \in {"recv.wait", "send.select"} :
        /\ th[t].pc = (IF p = "recv.wait" THEN "recv.lock" ELSE "send.lock")
        /\ MutexFree(th[t].fd) /\ Go(t, p)
        /\ UNCHANGED <<inbox, sockets, addressOf, surrogateOf, cached, disabled, given, last>>
  <2>1. CASE RecvLock(t)
    BY <2>1 DEF RecvLock
  <2>2. CASE SendLock(t)
    BY <2>2 DEF SendLock
  <2>3. QED BY <2>1, <2>2
<1>2. /\ p \in Pcs /\ p # "libc" /\ p \notin WithHost /\ p \notin WithFamily /\ p # "send.pack"
      /\ p \in WithAddr => th[t].pc \in WithAddr
      /\ th[t].pc \notin WithoutFd /\ th[t].pc \in Referring
  BY <1>1 DEF Pcs, Referring, WithHost, WithFamily, WithAddr, WithoutFd
<1>3. ThreadInv' /\ Others(t) /\ th'[t].pc = p /\ th'[t].fd = th[t].fd
  BY <1>1, <1>2, GoStep
<1>4. Move(t)
  BY <1>1, <1>2, <1>3 DEF Move, Transition
<1>5. KeepAddresses
  BY <1>1 DEF KeepAddresses
<1>6. QED BY <1>1, <1>4, <1>5, QuietEnv, QuietSockets, QuietAddresses DEF Good

\* The next message of a batch needs the mutex of the socket again.
LEMMA NextMove ==
  ASSUME ThreadInv, NEW t \in Threads,
         \/ th[t].pc = "recv.wait" /\ NextMessage(t, "recv.lock")
         \/ th[t].pc = "send.pack" /\ NextMessage(t, "send.lock")
  PROVE  Move(t)
<1>1. PICK p \in {"recv.lock", "send.lock"} :
        /\ NextMessage(t, p)
        /\ th[t].pc = (IF p = "recv.lock" THEN "recv.wait" ELSE "send.pack")
  OBVIOUS
<1>2. /\ p \in WithAddr => th[t].pc \in WithAddr
      /\ th[t].pc \notin WithoutFd /\ th[t].pc \in Holding
      /\ "idle" \notin Referring
  BY <1>1 DEF WithAddr, WithoutFd, Holding, Referring
<1>3. ThreadInv' /\ Others(t) /\ (th'[t].pc = "idle" \/ (th'[t].pc = p /\ th'[t].fd = th[t].fd))
  BY <1>1, <1>2, NextStep
<1>4. QED BY <1>1, <1>2, <1>3 DEF Move, Transition

LEMMA ReceiveGood ==
  ASSUME ThreadInv, EnvInv, AddressInv, SocketInv, NEW t \in Threads,
         RecvData(t) \/ RecvScmp(t) \/ RecvFails(t)
  PROVE  Good(t)
<1>1. th[t].pc = "recv.wait" /\ th[t].fd \in Fds
  <2>1. th[t].pc = "recv.wait"
    BY DEF RecvData, RecvScmp, RecvFails
  <2>2. QED BY <2>1 DEF ThreadInv, Executes, WithoutFd
<1>2. CASE RecvData(t)
  <2> DEFINE pkt == inbox[th[t].fd]
  <2>1. /\ pkt # None /\ pkt.k = "data"
        /\ inbox' = [inbox EXCEPT ![th[t].fd] = None]
        /\ GiveAddress(pkt.from) \/ KeepAddresses
        /\ NextMessage(t, "recv.lock")
        /\ UNCHANGED <<sockets, cached, disabled, last>>
    BY <1>2 DEF RecvData
  <2>2. pkt \in Packets
    BY <1>1, <2>1 DEF EnvInv
  <2> HIDE DEF pkt
  <2>3. pkt.from \in Hosts
    BY <2>1, <2>2 DEF Packets, Hosts
  <2>4. AddressInv' /\ (ResolveInv => ResolveInv')
    BY <2>1, <2>3, GiveStep, QuietAddresses
  <2>5. EnvInv'
    BY <1>1, <2>1 DEF EnvInv
  <2>6. Move(t)
    BY <1>1, <2>1, NextMove
  <2>7. QED BY <2>1, <2>4, <2>5, <2>6, QuietSockets DEF Good
<1>3. CASE RecvScmp(t)
  <2>1. /\ inbox' = [inbox EXCEPT ![th[t].fd] = None]
        /\ last' = StillUsable(object', cached)
        /\ UNCHANGED <<th, sockets, addressOf, surrogateOf, cached, disabled, given>>
    BY <1>3 DEF RecvScmp
  <2>2. SocketInv' /\ Kept
    BY <2>1, StillStep
  <2>3. EnvInv'
    BY <1>1, <2>1 DEF EnvInv
  <2>4. KeepAddresses
    BY <2>1 DEF KeepAddresses
  <2>5. QED BY <2>1, <2>2, <2>3, <2>4, StayMove, QuietAddresses DEF Good
<1>4. CASE RecvFails(t)
  <2>1. /\ Return(t)
        /\ UNCHANGED <<inbox, sockets, addressOf, surrogateOf, cached, disabled, given, last>>
    BY <1>4 DEF RecvFails
  <2>2. KeepAddresses
    BY <2>1 DEF KeepAddresses
  <2>3. QED BY <2>1, <2>2, ReturnMove, QuietEnv, QuietSockets, QuietAddresses DEF Good
<1>5. QED BY <1>2, <1>3, <1>4

-----------------------------------------------------------------------------
(***************************************************************************)
(* Steps of the sockets.                                                   *)
(***************************************************************************)
\* Another value of one socket.
LEMMA SocketStep ==
  ASSUME SocketInv, NEW fd \in Fds, NEW s \in Sockets,
         sockets' = [sockets EXCEPT ![fd] = s],
         s.lastDest # None => s.headerCache = s.lastDest /\ s.local # None,
         last' \in [Fds -> Selections \cup {None}],
         last'[fd] # None => s.lastSelected = last'[fd].dig,
         \A g \in Fds \ {fd} : last'[g] # None => last[g] # None /\ last'[g].dig = last[g].dig
  PROVE  SocketInv' /\ Kept
<1>1. s # None
  BY InterposerAssumption
<1>2. /\ sockets' \in [Fds -> Sockets \cup {None}] /\ sockets'[fd] = s
      /\ \A g \in Fds \ {fd} : sockets'[g] = sockets[g]
  BY DEF SocketInv
<1>3. CachedHeaderValid'
  BY <1>2 DEF SocketInv, CachedHeaderValid
<1>4. ASSUME NEW g \in Fds, last'[g] # None
      PROVE  sockets'[g] # None /\ sockets'[g].lastSelected = last'[g].dig
  BY <1>1, <1>2, <1>4 DEF SocketInv
<1>5. Kept
  BY <1>1, <1>2 DEF Kept
<1>6. QED BY <1>2, <1>3, <1>4, <1>5 DEF SocketInv

\* The same, if the last selection stays.
LEMMA SocketChange ==
  ASSUME SocketInv, NEW fd \in Fds, NEW s \in Sockets, UNCHANGED last,
         sockets' = [sockets EXCEPT ![fd] = s],
         s.lastDest # None => s.headerCache = s.lastDest /\ s.local # None,
         sockets[fd] # None => s.lastSelected = sockets[fd].lastSelected
  PROVE  SocketInv' /\ Kept
BY SocketStep DEF SocketInv

LEMMA NewSocketType ==
  ASSUME NEW fam \in {"inet", "inet6", "scion"}, NEW b \in BOOLEAN
  PROVE  NewSocket(fam, b) \in Sockets /\ NewSocket(fam, b).lastDest = None
         /\ NewSocket(fam, b).local = None
BY DEF NewSocket, Sockets

LEMMA LocalType ==
  ASSUME NEW s \in Sockets, NEW a \in Hosts \cup {None}
  PROVE  LET r == [s EXCEPT !.local = a]
         IN  /\ r \in Sockets /\ r.local = a /\ r.lastDest = s.lastDest
             /\ r.headerCache = s.headerCache /\ r.lastSelected = s.lastSelected
BY DEF Sockets

LEMMA DestType ==
  ASSUME NEW s \in Sockets, NEW d \in Destinations \cup {None}
  PROVE  LET r == [s EXCEPT !.lastDest = d]
         IN  /\ r \in Sockets /\ r.lastDest = d /\ r.local = s.local
             /\ r.headerCache = s.headerCache /\ r.lastSelected = s.lastSelected
BY DEF Sockets

LEMMA CacheType ==
  ASSUME NEW s \in Sockets, NEW d \in Destinations \cup {None}
  PROVE  LET r == [s EXCEPT !.headerCache = d]
         IN  /\ r \in Sockets /\ r.headerCache = d /\ r.local = s.local
             /\ r.lastDest = s.lastDest /\ r.lastSelected = s.lastSelected
BY DEF Sockets

LEMMA SelectedType ==
  ASSUME NEW s \in Sockets, NEW d \in Digests \cup {None}
  PROVE  LET r == [s EXCEPT !.lastSelected = d]
         IN  /\ r \in Sockets /\ r.lastSelected = d /\ r.local = s.local
             /\ r.lastDest = s.lastDest /\ r.headerCache = s.headerCache
BY DEF Sockets

LEMMA RemoteType ==
  ASSUME NEW s \in Sockets, NEW a \in Hosts \cup {None}
  PROVE  LET r == [s EXCEPT !.remote = a]
         IN  /\ r \in Sockets /\ r.local = s.local /\ r.lastDest = s.lastDest
             /\ r.headerCache = s.headerCache /\ r.lastSelected = s.lastSelected
BY DEF Sockets

\* A socket that is bound by default keeps all but its local address.
LEMMA BindDefault ==
  ASSUME NEW fd \in Fds, NEW s \in Sockets, NEW b \in bind_default_scion(fd, s)
  PROVE  /\ b.s \in Sockets /\ b.s.lastDest = s.lastDest /\ b.s.headerCache = s.headerCache
         /\ b.s.lastSelected = s.lastSelected /\ (s.local # None => b.s.local # None)
<1>1. Own \in Hosts /\ Own # None /\ s.local \in Hosts \cup {None}
  BY InterposerAssumption DEF Hosts, Sockets
<1>2. PICK a \in Hosts \cup {None} :
        (b.s = [s EXCEPT !.local = a] \/ (b.s = s /\ a = s.local)) /\ (s.local # None => a # None)
  BY <1>1 DEF bind_default_scion
<1>3. CASE b.s = [s EXCEPT !.local = a]
  <2> DEFINE r == [s EXCEPT !.local = a]
  <2>1. /\ r \in Sockets /\ r.local = a /\ r.lastDest = s.lastDest
        /\ r.headerCache = s.headerCache /\ r.lastSelected = s.lastSelected
    BY LocalType
  <2>2. b.s = r
    BY <1>3
  <2> HIDE DEF r
  <2>3. QED BY <1>2, <2>1, <2>2
<1>4. CASE b.s = s /\ a = s.local
  BY <1>4
<1>5. QED BY <1>2, <1>3, <1>4

LEMMA SocketGood ==
  ASSUME ThreadInv, EnvInv, AddressInv, SocketInv, NEW t \in Threads, SocketHandler(t)
  PROVE  Good(t)
<1>1. th[t].pc = "socket"
  BY DEF SocketHandler
<1>2. /\ Return(t)
      /\ UNCHANGED <<inbox, addressOf, surrogateOf, cached, disabled, given, last>>
      /\ \/ UNCHANGED sockets
         \/ \E fd \in Fds : /\ sockets[fd] = None
                            /\ sockets' = [sockets EXCEPT ![fd] = NewSocket("scion", TRUE)]
  <2>1. CASE th[t].arg.fam = "scion"
    BY <1>1, <2>1 DEF SocketHandler, make_scion_socket
  <2>2. CASE th[t].arg.fam # "scion"
    BY <2>2 DEF SocketHandler
  <2>3. QED BY <2>1, <2>2
<1>3. SocketInv' /\ Kept
  <2>1. CASE UNCHANGED sockets
    BY <1>2, <2>1, QuietSockets
  <2>2. ASSUME NEW fd \in Fds, sockets[fd] = None,
               sockets' = [sockets EXCEPT ![fd] = NewSocket("scion", TRUE)]
        PROVE  SocketInv' /\ Kept
    <3> DEFINE s == NewSocket("scion", TRUE)
    <3>1. s \in Sockets /\ s.lastDest = None
      BY NewSocketType
    <3>2. sockets' = [sockets EXCEPT ![fd] = s]
      BY <2>2
    <3> HIDE DEF s
    <3>3. QED BY <1>2, <2>2, <3>1, <3>2, SocketChange
  <2>3. QED BY <1>2, <2>1, <2>2
<1>4. KeepAddresses
  BY <1>2 DEF KeepAddresses
<1>5. QED BY <1>2, <1>3, <1>4, ReturnMove, QuietEnv, QuietAddresses DEF Good

\* The socket that bind() and connect() work on, promoted if need be.
LEMMA PromotedSocket ==
  ASSUME ThreadInv, SocketInv, NEW t \in Threads, th[t].pc \in WithFamily
  PROVE  LET fd == th[t].fd
             s == IF Promoted(fd) THEN sockets[fd] ELSE promote_to_scion(fd, th[t].fam)
         IN  /\ fd \in Fds /\ s \in Sockets
             /\ s.lastDest # None => s.headerCache = s.lastDest /\ s.local # None
             /\ sockets[fd] # None => s.lastSelected = sockets[fd].lastSelected
<1> DEFINE fd == th[t].fd
<1>1. fd \in Fds /\ th[t].fam \in {"inet", "inet6"}
  BY DEF ThreadInv, Executes, WithoutFd, WithFamily
<1>2. CASE Promoted(fd)
  BY <1>1, <1>2 DEF Promoted, SocketInv, CachedHeaderValid
<1>3. CASE ~Promoted(fd)
  <2> DEFINE s == promote_to_scion(fd, th[t].fam)
  <2>1. s \in Sockets /\ s.lastDest = None
    BY <1>1, NewSocketType DEF promote_to_scion
  <2> HIDE DEF s
  <2>2. sockets[fd] = None
    BY <1>3 DEF Promoted
  <2>3. s \in Sockets /\ s.lastDest = None /\ sockets[fd] = None /\ ~Promoted(fd)
    BY <2>1, <2>2, <1>3
  <2>4. QED BY <1>1, <2>3 DEF s
<1>4. QED BY <1>2, <1>3

LEMMA BindGood ==
  ASSUME ThreadInv, EnvInv, AddressInv, SocketInv, NEW t \in Threads, BindLocked(t)
  PROVE  Good(t)
<1> DEFINE fd == th[t].fd
           s  == IF Promoted(fd) THEN sockets[fd] ELSE promote_to_scion(fd, th[t].fam)
<1>1. th[t].pc = "bind.lock"
  BY DEF BindLocked
<1>2. /\ fd \in Fds /\ s \in Sockets
      /\ s.lastDest # None => s.headerCache = s.lastDest /\ s.local # None
      /\ sockets[fd] # None => s.lastSelected = sockets[fd].lastSelected
  <2>1. th[t].pc \in WithFamily
    BY <1>1 DEF WithFamily
  <2>2. QED BY <2>1, PromotedSocket
<1>3. /\ Return(t) \/ PassOn(t, "bind")
      /\ UNCHANGED <<inbox, addressOf, surrogateOf, cached, disabled, given, last>>
      /\ \/ UNCHANGED sockets
         \/ sockets' = [sockets EXCEPT ![fd] = s]
         \/ sockets' = [sockets EXCEPT ![fd] = [s EXCEPT !.local = Own, !.lastDest = None]]
  BY <1>1 DEF BindLocked
<1> HIDE DEF s
<1>4. SocketInv' /\ Kept
  <2>1. CASE UNCHANGED sockets
    BY <1>3, <2>1, QuietSockets
  <2>2. CASE sockets' = [sockets EXCEPT ![fd] = s]
    BY <1>2, <1>3, <2>2, SocketChange
  <2>3. CASE sockets' = [sockets EXCEPT ![fd] = [s EXCEPT !.local = Own, !.lastDest = None]]
    <3> DEFINE q == [s EXCEPT !.local = Own]
               r == [q EXCEPT !.lastDest = None]
    <3>1. q \in Sockets /\ q.lastSelected = s.lastSelected
      BY <1>2, LocalType DEF Hosts
    <3>2. sockets' = [sockets EXCEPT ![fd] = r]
      BY <2>3
    <3> HIDE DEF q
    <3>3. r \in Sockets /\ r.lastDest = None /\ r.lastSelected = q.lastSelected
      BY <3>1, DestType
    <3> HIDE DEF r
    <3>4. QED BY <1>2, <1>3, <3>1, <3>2, <3>3, SocketChange
  <2>4. QED BY <1>3, <2>1, <2>2, <2>3
<1>5. Move(t)
  BY <1>1, <1>3, ReturnMove, PassOnMove DEF PassedOn, WithoutFd
<1>6. KeepAddresses
  BY <1>3 DEF KeepAddresses
<1>7. QED BY <1>3, <1>4, <1>5, <1>6, QuietEnv, QuietAddresses DEF Good

LEMMA ConnectGood ==
  ASSUME ThreadInv, EnvInv, AddressInv, SocketInv, NEW t \in Threads, ConnectLocked(t)
  PROVE  Good(t)
<1> DEFINE fd == th[t].fd
           to == sockaddr_to_scion(th[t].arg)
           s  == IF Promoted(fd) THEN sockets[fd] ELSE promote_to_scion(fd, th[t].fam)
           Bound == IF s.local # None THEN {[s |-> s, bound |-> kernel[fd].bound]}
                                      ELSE bind_default_scion(fd, s)
           Connected(x) == scion_sel_notify_connect([x EXCEPT !.remote = to, !.lastDest = None])
<1>1. th[t].pc = "connect.lock"
  BY DEF ConnectLocked
<1>2. /\ fd \in Fds /\ s \in Sockets
      /\ s.lastDest # None => s.headerCache = s.lastDest /\ s.local # None
      /\ sockets[fd] # None => s.lastSelected = sockets[fd].lastSelected
  <2>1. th[t].pc \in WithFamily
    BY <1>1 DEF WithFamily
  <2>2. QED BY <2>1, PromotedSocket
<1>3. to \in Hosts \cup {None}
  <2>1. th[t].arg \in SockAddrs
    BY <1>1 DEF ThreadInv, Executes, WithAddr
  <2>2. QED BY <2>1, AddressType
<1>4. /\ Return(t) \/ PassOn(t, "connect")
      /\ UNCHANGED <<inbox, addressOf, surrogateOf, cached, disabled, given>>
      /\ \/ UNCHANGED <<sockets, last>>
         \/ \E b \in Bound :
              IF b.s.local = None
                THEN sockets' = [sockets EXCEPT ![fd] = b.s] /\ UNCHANGED last
                ELSE /\ sockets' = [sockets EXCEPT ![fd] = Connected(b.s)]
                     /\ last' = [last EXCEPT ![fd] = None]
  BY <1>1 DEF ConnectLocked
<1>5. ASSUME NEW b \in Bound
      PROVE  /\ b.s \in Sockets /\ b.s.lastDest = s.lastDest /\ b.s.headerCache = s.headerCache
             /\ b.s.lastSelected = s.lastSelected /\ (s.local # None => b.s.local # None)
  <2> HIDE DEF s
  <2>1. CASE s.local # None
    BY <1>2, <2>1
  <2>2. CASE s.local = None
    BY <1>2, <2>2, BindDefault
  <2>3. QED BY <2>1, <2>2
<1> HIDE DEF s, Bound, to
<1>6. SocketInv' /\ Kept
  <2>1. CASE UNCHANGED <<sockets, last>>
    BY <2>1, QuietSockets
  <2>2. ASSUME NEW b \in Bound, UNCHANGED last, sockets' = [sockets EXCEPT ![fd] = b.s]
        PROVE  SocketInv' /\ Kept
    <3> DEFINE r == b.s
    <3>1. /\ r \in Sockets /\ r.lastDest = s.lastDest /\ r.headerCache = s.headerCache
          /\ r.lastSelected = s.lastSelected /\ (s.local # None => r.local # None)
          /\ sockets' = [sockets EXCEPT ![fd] = r]
      BY <1>5, <2>2
    <3> HIDE DEF r
    <3>2. /\ fd \in Fds
          /\ r.lastDest # None => r.headerCache = r.lastDest /\ r.local # None
          /\ sockets[fd] # None => r.lastSelected = sockets[fd].lastSelected
      BY <1>2, <3>1
    <3>3. PICK f \in Fds, x \in Sockets : f = fd /\ x = r
      BY <3>1, <3>2
    <3>4. /\ sockets' = [sockets EXCEPT ![f] = x] /\ UNCHANGED last
          /\ x.lastDest # None => x.headerCache = x.lastDest /\ x.local # None
          /\ sockets[f] # None => x.lastSelected = sockets[f].lastSelected
      BY <2>2, <3>1, <3>2, <3>3
    <3>5. QED BY <3>4, SocketChange, ZenonT(40)
  <2>3. ASSUME NEW b \in Bound, sockets' = [sockets EXCEPT ![fd] = Connected(b.s)],
               last' = [last EXCEPT ![fd] = None]
        PROVE  SocketInv' /\ Kept
    <3> DEFINE x == b.s
               p == [x EXCEPT !.remote = to]
               q == [p EXCEPT !.lastDest = None]
               r == [q EXCEPT !.lastSelected = None]
    <3>1. x \in Sockets /\ Connected(b.s) = r
      BY <1>5 DEF scion_sel_notify_connect
    <3> HIDE DEF x
    <3>2. p \in Sockets
      BY <1>3, <3>1, RemoteType
    <3>3. sockets' = [sockets EXCEPT ![fd] = r]
      BY <2>3, <3>1
    <3> HIDE DEF p
    <3>4. q \in Sockets /\ q.lastDest = None
      BY <3>2, DestType
    <3> HIDE DEF q
    <3>5. r \in Sockets /\ r.lastDest = None
      BY <3>4, SelectedType
    <3> HIDE DEF r
    <3>6. last' \in [Fds -> Selections \cup {None}] /\ last'[fd] = None
          /\ \A g \in Fds \ {fd} : last'[g] = last[g]
      BY <1>2, <2>3 DEF SocketInv
    <3>7. QED BY <1>2, <3>3, <3>5, <3>6, SocketStep
  <2>4. QED BY <1>4, <2>1, <2>2, <2>3
<1>7. Move(t)
  BY <1>1, <1>4, ReturnMove, PassOnMove DEF PassedOn, WithoutFd
<1>8. KeepAddresses
  BY <1>4 DEF KeepAddresses
<1>9. QED BY <1>4, <1>6, <1>7, <1>8, QuietEnv, QuietAddresses DEF Good

LEMMA PromoteGood ==
  ASSUME ThreadInv, EnvInv, AddressInv, SocketInv, NEW t \in Threads, PromoteOnSendto(t)
  PROVE  Good(t)
<1> DEFINE fd == th[t].fd
           s  == promote_to_scion(fd, th[t].fam)
<1>1. th[t].pc = "promote" /\ fd \in Fds /\ s \in Sockets /\ s.lastDest = None
  <2>1. th[t].pc = "promote"
    BY DEF PromoteOnSendto
  <2>2. fd \in Fds /\ th[t].fam \in {"inet", "inet6"}
    BY <2>1 DEF ThreadInv, Executes, WithoutFd, WithFamily
  <2>3. QED BY <2>1, <2>2, NewSocketType DEF promote_to_scion
<1>2. /\ Return(t) \/ Go(t, "send")
      /\ UNCHANGED <<inbox, addressOf, surrogateOf, cached, disabled, given, last>>
      /\ \/ UNCHANGED sockets
         \/ /\ sockets[fd] = None
            /\ \E b \in bind_default_scion(fd, s) : sockets' = [sockets EXCEPT ![fd] = b.s]
  BY <1>1 DEF PromoteOnSendto, Promoted
<1> HIDE DEF s
<1>3. SocketInv' /\ Kept
  <2>1. CASE UNCHANGED sockets
    BY <1>2, <2>1, QuietSockets
  <2>2. ASSUME NEW b \in bind_default_scion(fd, s), sockets[fd] = None,
               sockets' = [sockets EXCEPT ![fd] = b.s]
        PROVE  SocketInv' /\ Kept
    <3> DEFINE r == b.s
    <3>1. r \in Sockets /\ r.lastDest = None /\ sockets' = [sockets EXCEPT ![fd] = r]
      BY <1>1, <2>2, BindDefault
    <3> HIDE DEF r
    <3>2. QED BY <1>1, <1>2, <2>2, <3>1, SocketChange
  <2>3. QED BY <1>2, <2>1, <2>2
<1>4. Move(t)
  <2>1. CASE Return(t)
    BY <2>1, ReturnMove
  <2>2. CASE Go(t, "send")
    <3>1. /\ "send" \in Pcs /\ "send" \notin WithHost /\ "send" \notin WithFamily
          /\ "send" \notin Referring /\ th[t].pc \in WithAddr /\ th[t].pc \notin WithoutFd
      BY <1>1 DEF Pcs, Calls, WithHost, WithFamily, WithAddr, WithoutFd, Referring
    <3>2. ThreadInv' /\ Others(t) /\ th'[t].pc = "send"
      BY <2>2, <3>1, GoStep
    <3>3. QED BY <3>1, <3>2 DEF Move, Transition
  <2>3. QED BY <1>2, <2>1, <2>2
<1>5. KeepAddresses
  BY <1>2 DEF KeepAddresses
<1>6. QED BY <1>2, <1>3, <1>4, <1>5, QuietEnv, QuietAddresses DEF Good

\* Sockets are removed by close() and exit() only.
LEMMA CloseGood ==
  ASSUME ThreadInv, EnvInv, AddressInv, SocketInv, NEW t \in Threads,
         CloseHandler(t) \/ Exit(t)
  PROVE  Good(t)
<1>1. CASE CloseHandler(t) /\ Promoted(th[t].fd)
  <2> DEFINE fd == th[t].fd
  <2>1. th[t].pc = "close" /\ fd \in Fds
    <3>1. th[t].pc = "close"
      BY <1>1 DEF CloseHandler
    <3>2. QED BY <3>1 DEF ThreadInv, Executes, WithoutFd
  <2>2. /\ Sharers = {} /\ Return(t) /\ inbox' = [inbox EXCEPT ![fd] = None]
        /\ sockets' = [sockets EXCEPT ![fd] = None] /\ last' = [last EXCEPT ![fd] = None]
        /\ UNCHANGED <<addressOf, surrogateOf, cached, disabled, given>>
    BY <1>1, <2>1 DEF CloseHandler, Exclusive, KernelClose
  <2>3. Move(t) /\ ThreadInv' /\ Others(t) /\ th'[t].pc = "idle"
    BY <2>2, ReturnMove, ReturnStep
  <2>4. SocketInv'
    <3>1. /\ sockets' \in [Fds -> Sockets \cup {None}] /\ last' \in [Fds -> Selections \cup {None}]
          /\ sockets'[fd] = None /\ last'[fd] = None
          /\ \A g \in Fds \ {fd} : sockets'[g] = sockets[g] /\ last'[g] = last[g]
      BY <2>1, <2>2 DEF SocketInv
    <3>2. QED BY <3>1 DEF SocketInv, CachedHeaderValid
  <2>5. Kept
    BY <2>2, <2>3 DEF Kept, Sharers, Others, Referring
  <2>6. EnvInv' /\ KeepAddresses
    BY <2>1, <2>2 DEF EnvInv, KeepAddresses
  <2>7. QED BY <2>2, <2>3, <2>4, <2>5, <2>6, QuietAddresses DEF Good
<1>2. CASE CloseHandler(t) /\ ~Promoted(th[t].fd)
  <2>1. /\ th[t].pc = "close" /\ PassOn(t, "close")
        /\ UNCHANGED <<inbox, sockets, addressOf, surrogateOf, cached, disabled, given, last>>
    BY <1>2 DEF CloseHandler
  <2>2. Move(t)
    BY <2>1, PassOnMove DEF PassedOn, WithoutFd
  <2>3. KeepAddresses
    BY <2>1 DEF KeepAddresses
  <2>4. QED BY <2>1, <2>2, <2>3, QuietEnv, QuietSockets, QuietAddresses DEF Good
<1>3. CASE Exit(t)
  <2>1. /\ disabled' = TRUE /\ UNCHANGED th
        /\ UNCHANGED <<addressOf, surrogateOf, cached, given>>
        /\ sockets' = [fd \in Fds |-> None] /\ last' = [fd \in Fds |-> None]
        /\ inbox' = [fd \in Fds |-> IF fd \in {x \in Fds : Promoted(x)} THEN None ELSE inbox[fd]]
    BY <1>3 DEF Exit, stop_interposer
  <2>2. SocketInv' /\ Kept
    BY <2>1 DEF SocketInv, CachedHeaderValid, Kept
  <2>3. inbox' \in [Fds -> Packets \cup {None}]
    BY <2>1 DEF EnvInv
  <2>4. EnvInv'
    BY <2>1, <2>3 DEF EnvInv
  <2>5. KeepAddresses
    BY <2>1 DEF KeepAddresses
  <2>6. QED BY <2>1, <2>2, <2>4, <2>5, StayMove, QuietAddresses DEF Good
<1>4. QED BY <1>1, <1>2, <1>3

\* The destination of a packet.
LEMMA SendDest ==
  ASSUME ThreadInv, AddressInv, SocketInv, NEW t \in Threads,
         th[t].pc \in {"send.select", "send.pack"}, sockets[th[t].fd] # None
  PROVE  /\ th[t].fd \in Fds /\ sockets[th[t].fd] \in Sockets
         /\ send_dgram_get_dest(sockets[th[t].fd], th[t].arg) \in Hosts \cup {None}
<1>1. th[t].fd \in Fds /\ th[t].arg \in SockAddrs
  BY DEF ThreadInv, Executes, WithoutFd, WithAddr
<1>2. sockets[th[t].fd] \in Sockets
  BY <1>1 DEF SocketInv
<1>3. sockets[th[t].fd].remote \in Hosts \cup {None}
  BY <1>2 DEF Sockets
<1>4. sockaddr_to_scion(th[t].arg) \in Hosts \cup {None}
  BY <1>1, AddressType
<1>5. QED BY <1>1, <1>2, <1>3, <1>4 DEF send_dgram_get_dest

LEMMA PackGood ==
  ASSUME ThreadInv, EnvInv, AddressInv, SocketInv, NEW t \in Threads, SendPack(t)
  PROVE  Good(t)
<1> DEFINE fd == th[t].fd
           s == sockets[fd]
           ep == send_dgram_get_dest(s, th[t].arg)
           path == th[t].path
           new == [dst |-> ep, path |-> path]
<1>1. th[t].pc = "send.pack" /\ s # None
  BY DEF SendPack
<1>2. fd \in Fds /\ s \in Sockets /\ ep \in Hosts \cup {None} /\ path \in PathObjects
  <2>1. path \in PathObjects
    BY <1>1 DEF ThreadInv, Executes
  <2>2. QED BY <1>1, <2>1, SendDest
<1>3. new \in Destinations /\ None \notin Destinations
  BY <1>2, InterposerAssumption DEF Destinations
<1>4. UNCHANGED <<inbox, addressOf, surrogateOf, cached, disabled, given, last>>
  BY DEF SendPack
<1>5. /\ Return(t) \/ NextMessage(t, "send.lock")
      /\ \/ UNCHANGED sockets
         \/ \E sent \in BOOLEAN :
              /\ sent => s.local # None
              /\ sockets' = [sockets EXCEPT ![fd] = AfterSendTo(s, ep, path, sent)]
  BY DEF SendPack
<1> HIDE DEF s, ep, path
<1>6. ASSUME NEW sent \in BOOLEAN, sent => s.local # None
      PROVE  LET r == AfterSendTo(s, ep, path, sent)
             IN  /\ r \in Sockets /\ r.lastSelected = s.lastSelected
                 /\ r.lastDest # None => r.headerCache = r.lastDest /\ r.local # None
  <2> DEFINE c == IF s.local = None THEN s.headerCache ELSE new
             d == IF sent THEN new ELSE None
             q == [s EXCEPT !.headerCache = c]
             r == [q EXCEPT !.lastDest = d]
  <2>1. s.headerCache \in Destinations \cup {None}
    BY <1>2 DEF Sockets
  <2>2. c \in Destinations \cup {None} /\ d \in Destinations \cup {None}
        /\ (d # None => c = d /\ s.local # None)
    BY <1>3, <1>6, <2>1
  <2>3. AfterSendTo(s, ep, path, sent) = r
    BY DEF AfterSendTo
  <2> HIDE DEF c, d, new
  <2>4. q \in Sockets /\ q.headerCache = c /\ q.local = s.local /\ q.lastSelected = s.lastSelected
    BY <1>2, <2>2, CacheType
  <2> HIDE DEF q
  <2>5. /\ r \in Sockets /\ r.lastDest = d /\ r.headerCache = q.headerCache /\ r.local = q.local
        /\ r.lastSelected = q.lastSelected
    BY <2>2, <2>4, DestType
  <2> HIDE DEF r
  <2>6. QED BY <2>2, <2>3, <2>4, <2>5
<1>7. SocketInv' /\ Kept
  <2>1. CASE UNCHANGED sockets
    BY <1>4, <2>1, QuietSockets
  <2>2. ASSUME NEW sent \in BOOLEAN, sent => s.local # None,
               sockets' = [sockets EXCEPT ![fd] = AfterSendTo(s, ep, path, sent)]
        PROVE  SocketInv' /\ Kept
    <3> DEFINE r == AfterSendTo(s, ep, path, sent)
    <3>1. /\ r \in Sockets /\ r.lastSelected = s.lastSelected
          /\ r.lastDest # None => r.headerCache = r.lastDest /\ r.local # None
          /\ sockets' = [sockets EXCEPT ![fd] = r]
      BY <1>6, <2>2
    <3> HIDE DEF r
    <3>2. s = sockets[fd]
      BY DEF s
    <3>3. QED BY <1>2, <1>4, <3>1, <3>2, SocketChange
  <2>3. QED BY <1>5, <2>1, <2>2
<1>8. Move(t)
  BY <1>1, <1>5, ReturnMove, NextMove
<1>9. KeepAddresses
  BY <1>4 DEF KeepAddresses
<1>10. QED BY <1>4, <1>7, <1>8, <1>9, QuietEnv, QuietAddresses DEF Good

\* A selection: what becomes of the thread, the socket and the path cache.
Selects(t) ==
  LET fd == th[t].fd
      s  == sockets[fd] IN
  \E l \in lookup :
    LET d == scion_sel_select(s, l) IN
    /\ cached' = l.cached /\ object' = l.object
    /\ IF d = None THEN Return(t) /\ UNCHANGED sockets /\ last' = StillUsable(object', cached')
       ELSE /\ last' = [StillUsable(object', cached') EXCEPT ![fd] = [dig |-> d, ok |-> TRUE]]
            /\ th' = [th EXCEPT ![t].pc = "send.pack", ![t].path = [dig |-> d, gen |-> l.cached[d]]]
            /\ sockets' = [sockets EXCEPT ![fd].lastSelected = d]

LEMMA SelectStep ==
  ASSUME ThreadInv, EnvInv, AddressInv, SocketInv, NEW t \in Threads,
         th[t].pc = "send.select", sockets[th[t].fd] # None, Selects(t)
  PROVE  /\ Move(t) /\ SocketInv' /\ Kept /\ cached' \in [Digests -> Gens \cup {None}]
         /\ th'[t].pc = "send.pack" =>
              LET r == StillUsable(object', cached')[th[t].fd]
              IN  r # None /\ r.ok => last'[th[t].fd].dig = r.dig
<1> DEFINE fd == th[t].fd
           s  == sockets[fd]
<1>1. fd \in Fds /\ s \in Sockets
  BY SendDest
<1>2. PICK l \in lookup :
        LET d == scion_sel_select(s, l) IN
        /\ cached' = l.cached /\ object' = l.object
        /\ IF d = None THEN Return(t) /\ UNCHANGED sockets /\ last' = StillUsable(object', cached')
           ELSE /\ last' = [StillUsable(object', cached') EXCEPT ![fd] = [dig |-> d, ok |-> TRUE]]
                /\ th' = [th EXCEPT ![t].pc = "send.pack", ![t].path = [dig |-> d, gen |-> l.cached[d]]]
                /\ sockets' = [sockets EXCEPT ![fd].lastSelected = d]
  BY DEF Selects
<1> DEFINE d == scion_sel_select(s, l)
<1>3. cached' \in [Digests -> Gens \cup {None}]
  BY <1>2 DEF lookup, queryPaths, EnvInv
<1>4. CASE d = None
  <2>1. Return(t) /\ UNCHANGED sockets /\ last' = StillUsable(object', cached')
    BY <1>2, <1>4
  <2>2. th'[t].pc = "idle"
    BY <2>1, ReturnStep
  <2>3. QED BY <1>3, <2>1, <2>2, ReturnMove, StillStep
<1>5. CASE d # None
  <2> DEFINE path == [dig |-> d, gen |-> l.cached[d]]
             new == [dig |-> d, ok |-> TRUE]
             h == StillUsable(object', cached')
             r == [s EXCEPT !.lastSelected = d]
  <2>1. /\ last' = [h EXCEPT ![fd] = new]
        /\ th' = [th EXCEPT ![t].pc = "send.pack", ![t].path = path]
        /\ sockets' = [sockets EXCEPT ![fd] = r]
    BY <1>2, <1>5
  <2>2. /\ d \in Digests /\ path \in PathObjects
        /\ s.lastSelected # None /\ Usable(l, s.lastSelected) => d = s.lastSelected
    BY <1>1, <1>5, SelectedPath
  <2> HIDE DEF path
  <2>3. ThreadInv' /\ Others(t) /\ th'[t].pc = "send.pack" /\ th'[t].fd = fd
    BY <2>1, <2>2, PathStep
  <2>4. Move(t)
    BY <2>3 DEF Move, Transition
  <2>5. h \in [Fds -> Selections \cup {None}]
    BY StillUsableType
  <2>6. ASSUME NEW g \in Fds, h[g] # None PROVE last[g] # None /\ h[g].dig = last[g].dig
    BY <2>6, StillUsableRecord
  <2>7. new \in Selections /\ new.dig = d
    BY <2>2 DEF Selections
  <2>8. h[fd] # None /\ h[fd].ok => d = h[fd].dig
    <3>1. SUFFICES ASSUME h[fd] # None, h[fd].ok PROVE d = h[fd].dig
      OBVIOUS
    <3> DEFINE e == last[fd].dig
    <3>2. /\ last[fd] # None /\ h[fd].dig = e
          /\ cached'[e] # None /\ object'[[dig |-> e, gen |-> cached'[e]]] = "good"
      <4>1. PICK f, o, c : f = fd /\ o = object' /\ c = cached' /\ h = StillUsable(o, c)
        OBVIOUS
      <4> HIDE DEF h, fd
      <4>2. f \in Fds /\ StillUsable(o, c)[f] # None
        BY <1>1, <3>1, <4>1
      <4>3. last[f] # None /\ StillUsable(o, c)[f].dig = last[f].dig
        BY <4>2, StillUsableRecord
      <4>4. StillUsable(o, c)[f].ok
        BY <3>1, <4>1
      <4>5. c[last[f].dig] # None /\ o[[dig |-> last[f].dig, gen |-> c[last[f].dig]]] = "good"
        BY <4>2, <4>4, StillUsableRecord, ZenonT(30)
      <4>6. QED BY <4>1, <4>3, <4>5
    <3>3. s.lastSelected = e /\ e # None
      <4>1. last[fd] \in Selections /\ s.lastSelected = e
        BY <1>1, <3>2 DEF SocketInv
      <4>2. e \in Digests
        BY <4>1 DEF Selections
      <4>3. QED BY <4>1, <4>2, InterposerAssumption
    <3> HIDE DEF e
    <3>4. Usable(l, e)
      BY <1>2, <3>2 DEF Usable, Available, Broken
    <3>5. QED BY <2>2, <3>2, <3>3, <3>4
  <2> HIDE DEF h, new
  <2>9. last' \in [Fds -> Selections \cup {None}] /\ last'[fd] = new
        /\ \A g \in Fds \ {fd} : last'[g] = h[g]
    BY <1>1, <2>1, <2>5, <2>7
  <2>10. s.lastDest # None => s.headerCache = s.lastDest /\ s.local # None
    BY <1>1 DEF SocketInv, CachedHeaderValid
  <2> HIDE DEF d, s
  <2>11. /\ r \in Sockets /\ r.lastSelected = d /\ r.local = s.local
         /\ r.lastDest = s.lastDest /\ r.headerCache = s.headerCache
    BY <1>1, <2>2, SelectedType
  <2> HIDE DEF r
  <2>12. SocketInv' /\ Kept
    BY <1>1, <2>1, <2>6, <2>7, <2>9, <2>10, <2>11, SocketStep
  <2>13. QED BY <1>3, <2>4, <2>7, <2>8, <2>9, <2>12 DEF h
<1>6. QED BY <1>4, <1>5

LEMMA SelectGood ==
  ASSUME ThreadInv, EnvInv, AddressInv, SocketInv, NEW t \in Threads, SendSelect(t)
  PROVE  /\ Good(t)
         /\ th'[t].pc = "send.pack" =>
              LET r == StillUsable(object', cached')[th[t].fd]
              IN  r # None /\ r.ok => last'[th[t].fd].dig = r.dig
<1> DEFINE fd == th[t].fd
           s  == sockets[fd]
           ep == send_dgram_get_dest(s, th[t].arg)
<1>1. /\ th[t].pc = "send.select" /\ s # None
      /\ UNCHANGED <<inbox, addressOf, surrogateOf, disabled, given>>
  BY DEF SendSelect
<1>2. fd \in Fds /\ s \in Sockets
  BY <1>1, SendDest
<1>3. KeepAddresses
  BY <1>1 DEF KeepAddresses
<1>4. CASE Return(t) /\ UNCHANGED <<sockets, cached, object, last>>
  <2>1. th'[t].pc = "idle"
    BY <1>4, ReturnStep
  <2>2. QED BY <1>1, <1>3, <1>4, <2>1, ReturnMove, QuietEnv, QuietSockets, QuietAddresses DEF Good
<1>5. CASE /\ UsesCache(s, ep) /\ UNCHANGED <<sockets, cached, object, last>>
           /\ th' = [th EXCEPT ![t].pc = "send.pack", ![t].path = s.lastDest.path]
  <2> DEFINE path == s.lastDest.path
  <2>1. path \in PathObjects
    <3>1. s.lastDest \in Destinations
      BY <1>2, <1>5 DEF UsesCache, Sockets
    <3>2. QED BY <3>1 DEF Destinations
  <2>2. th' = [th EXCEPT ![t].pc = "send.pack", ![t].path = path]
    BY <1>5
  <2> HIDE DEF path
  <2>3. ThreadInv' /\ Others(t) /\ th'[t].pc = "send.pack" /\ th'[t].fd = fd
    BY <1>1, <2>1, <2>2, PathStep
  <2>4. Move(t)
    BY <1>1, <2>3 DEF Move, Transition
  <2>5. LET r == StillUsable(object', cached')[fd]
        IN  r # None /\ r.ok => last'[fd].dig = r.dig
    <3>1. PICK f, o, c, r : f = fd /\ o = object' /\ c = cached' /\ r = StillUsable(o, c)[f]
      OBVIOUS
    <3> HIDE DEF fd
    <3>2. f \in Fds
      BY <1>2, <3>1
    <3>3. StillUsable(o, c)[f] # None => StillUsable(o, c)[f].dig = last[f].dig
      BY <3>2, StillUsableRecord
    <3>4. QED BY <1>5, <3>1, <3>3
  <2>6. QED BY <1>1, <1>3, <1>5, <2>4, <2>5, QuietEnv, QuietSockets, QuietAddresses DEF Good
<1>6. CASE Selects(t)
  <2>1. /\ Move(t) /\ SocketInv' /\ Kept /\ cached' \in [Digests -> Gens \cup {None}]
        /\ th'[t].pc = "send.pack" =>
              LET r == StillUsable(object', cached')[th[t].fd]
              IN  r # None /\ r.ok => last'[th[t].fd].dig = r.dig
    BY <1>1, <1>6, SelectStep
  <2>2. EnvInv'
    BY <1>1, <2>1 DEF EnvInv
  <2>3. QED BY <1>1, <1>3, <2>1, <2>2, QuietAddresses DEF Good
<1>7. QED BY <1>4, <1>5, <1>6 DEF SendSelect, Selects

\* A packet arrives, or a path becomes stale.
LEMMA EnvironmentGood ==
  ASSUME ThreadInv, EnvInv, AddressInv, SocketInv, NEW t, Environment
  PROVE  Good(t)
<1>1. UNCHANGED <<th, sockets, addressOf, surrogateOf, cached, disabled, given>>
  BY DEF Environment, Arrive, ExpirePath
<1>2. KeepAddresses
  BY <1>1 DEF KeepAddresses
<1>3. CASE \E fd \in Fds : Arrive(fd)
  <2>1. PICK fd \in Fds, p \in Packets : inbox' = [inbox EXCEPT ![fd] = p] /\ UNCHANGED last
    BY <1>3 DEF Arrive, Packets
  <2>2. EnvInv'
    BY <1>1, <2>1 DEF EnvInv
  <2>3. QED BY <1>1, <1>2, <2>1, <2>2, StayMove, QuietSockets, QuietAddresses DEF Good
<1>4. CASE \E p \in PathObjects : ExpirePath(p)
  <2>1. last' = StillUsable(object', cached) /\ UNCHANGED inbox
    BY <1>4 DEF ExpirePath
  <2>2. SocketInv' /\ Kept
    BY <1>1, <2>1, StillStep
  <2>3. QED BY <1>1, <1>2, <2>1, <2>2, StayMove, QuietEnv, QuietAddresses DEF Good
<1>5. QED BY <1>3, <1>4 DEF Environment

LEMMA WrapperGood ==
  ASSUME ThreadInv, EnvInv, AddressInv, SocketInv, NEW t \in Threads, Wrapper(t)
  PROVE  Good(t)
<1>1. /\ Move(t) /\ EnvInv'
      /\ UNCHANGED <<sockets, addressOf, surrogateOf, cached, disabled, given, last>>
  BY WrapperMove
<1>2. KeepAddresses
  BY <1>1 DEF KeepAddresses
<1>3. QED BY <1>1, <1>2, QuietSockets, QuietAddresses DEF Good

LEMMA HandlerGood ==
  ASSUME ThreadInv, EnvInv, AddressInv, SocketInv, NEW t \in Threads, Handler(t)
  PROVE  Good(t)
BY ResolveGood, NameGood, CheckGood, EnterGood, LockGood, ReceiveGood, SocketGood,
   BindGood, ConnectGood, PromoteGood, CloseGood, LibcGood, SelectGood, PackGood DEF Handler

\* Every step, of a thread or of the environment.
LEMMA NextGood ==
  ASSUME ThreadInv, EnvInv, AddressInv, SocketInv, Next
  PROVE  \E t : Good(t) /\ (t \in Threads \/ UNCHANGED th)
<1>1. CASE Environment
  <2>1. UNCHANGED th
    BY <1>1 DEF Environment, Arrive, ExpirePath
  <2>2. QED BY <1>1, <2>1, EnvironmentGood
<1>2. QED BY <1>1, WrapperGood, HandlerGood DEF Next

\* Only the first half of send_dgram_impl() goes on with a selected path.
LEMMA OnlySelect ==
  ASSUME ThreadInv, EnvInv, AddressInv, SocketInv, Next, NEW t \in Threads,
         th[t].pc = "send.select", th'[t].pc # th[t].pc
  PROVE  SendSelect(t)
<1>1. ~Environment
  <2>1. Environment => UNCHANGED th
    BY DEF Environment, Arrive, ExpirePath
  <2>2. QED BY <2>1
<1>2. PICK u \in Threads : Wrapper(u) \/ Handler(u)
  BY <1>1 DEF Next
<1>3. u = t
  <2>1. Good(u)
    BY <1>2, WrapperGood, HandlerGood
  <2>2. QED BY <2>1 DEF Good, Move, Others
<1>4. ~Wrapper(t)
  <2>1. Wrapper(t) => th[t].pc = "idle"
    BY DEF Wrapper, CallResolve, CallSocket, CallOption, CallBindConnect, CallName, CallRecv,
           CallSend, CallReadWrite, CallMany, CallClose, Call
  <2>2. QED BY <2>1
<1>5. ~(ConnectCp(t) \/ Getaddrinfo(t) \/ InetPton(t) \/ SocketHandler(t) \/ BindCheck(t)
        \/ ConnectCheck(t) \/ BindLocked(t) \/ ConnectLocked(t))
  BY DEF ConnectCp, Getaddrinfo, InetPton, SocketHandler, BindCheck, ConnectCheck, CheckFamily,
         BindLocked, ConnectLocked
<1>6. ~(CloseHandler(t) \/ LibcCall(t) \/ Exit(t) \/ OptionHandler(t) \/ Getpeername(t) \/ Getsockname(t)
        \/ RecvEnter(t) \/ RecvLock(t) \/ RecvData(t) \/ RecvScmp(t) \/ RecvFails(t))
  BY DEF CloseHandler, LibcCall, Exit, OptionHandler, Getpeername, Getsockname, NameOf, RecvEnter, RecvLock,
         RecvData, RecvScmp, RecvFails
<1>7. ~(SendEnter(t) \/ PromoteOnSendto(t) \/ SendLock(t) \/ SendPack(t))
  BY DEF SendEnter, PromoteOnSendto, SendLock, SendPack
<1>8. QED BY <1>2, <1>3, <1>4, <1>5, <1>6, <1>7 DEF Handler

\* A handler that refers to a socket keeps it in the table.
LEMMA OutlivesStep ==
  ASSUME ThreadInv, SocketOutlivesCall, NEW t, Good(t), t \in Threads \/ UNCHANGED th
  PROVE  SocketOutlivesCall'
<1> SUFFICES ASSUME ~disabled' PROVE
      \A u \in Threads :
        /\ th'[u].pc \in Referring => sockets'[th'[u].fd] # None
        /\ th'[u].pc \in Holding =>
             \A v \in Threads \ {u} : ~(th'[v].pc \in Holding /\ th'[v].fd = th'[u].fd)
  BY DEF SocketOutlivesCall
<1>1. ~disabled
  BY DEF Good
<1>2. /\ \A u \in Threads : th[u].pc \in Referring => sockets[th[u].fd] # None
      /\ \A u, v \in Threads : u # v => ~(/\ th[u].pc \in Holding /\ th[v].pc \in Holding
                                          /\ th[v].fd = th[u].fd)
  BY <1>1 DEF SocketOutlivesCall
<1>3. /\ ThreadInv'
      /\ UNCHANGED th \/ (t \in Threads /\ Others(t) /\ Transition(t))
      /\ \/ \A fd \in Fds : sockets[fd] # None => sockets'[fd] # None
         \/ Sharers' = {}
  BY DEF Good, Move, Kept
<1>4. Holding \subseteq Referring /\ "recv.lock" \notin Holding /\ "send.lock" \notin Holding
      /\ \A p \in Referring : p \notin WithoutFd
  BY DEF Holding, Referring, WithoutFd
<1>5. \A u \in Threads : th'[u].pc \in Referring => th'[u].fd \in Fds
  BY <1>3, <1>4 DEF ThreadInv, Executes
<1>6. ASSUME NEW u \in Threads, th'[u].pc \in Referring PROVE sockets'[th'[u].fd] # None
  <2>1. \A fd \in Fds : sockets[fd] # None => sockets'[fd] # None
    BY <1>3, <1>6 DEF Sharers
  <2>2. th'[u].fd \in Fds
    BY <1>5, <1>6
  <2>3. sockets[th'[u].fd] # None
    <3>1. CASE th'[u] = th[u]
      BY <1>2, <1>6, <3>1
    <3>2. CASE t = u /\ Transition(t)
      <4>1. th'[u].fd = th[u].fd /\ (Promoted(th[u].fd) \/ th[u].pc \in Referring)
        BY <1>4, <1>6, <3>2 DEF Transition, Referring
      <4>2. QED BY <1>2, <4>1 DEF Promoted
    <3>3. QED BY <1>3, <3>1, <3>2 DEF Others
  <2>4. QED BY <2>1, <2>2, <2>3
<1>7. ASSUME NEW u \in Threads, NEW v \in Threads, u # v,
             th'[u].pc \in Holding, th'[v].pc \in Holding, th'[v].fd = th'[u].fd
      PROVE  FALSE
  <2>1. ASSUME NEW w \in Threads, th'[w].pc \in Holding, Transition(w)
        PROVE  /\ th'[w].fd = th[w].fd
               /\ th[w].pc \in Holding \/ MutexFree(th[w].fd)
    BY <1>4, <2>1 DEF Transition, Holding
  <2>2. CASE th'[u] = th[u] /\ th'[v] = th[v]
    BY <1>2, <1>7, <2>2
  <2>3. CASE t = u /\ Transition(t) /\ th'[v] = th[v]
    <3>1. th'[u].fd = th[u].fd /\ (th[u].pc \in Holding \/ MutexFree(th[u].fd))
      BY <1>7, <2>1, <2>3
    <3>2. QED BY <1>2, <1>7, <2>3, <3>1 DEF MutexFree
  <2>4. CASE t = v /\ Transition(t) /\ th'[u] = th[u]
    <3>1. th'[v].fd = th[v].fd /\ (th[v].pc \in Holding \/ MutexFree(th[v].fd))
      BY <1>7, <2>1, <2>4
    <3>2. QED BY <1>2, <1>7, <2>4, <3>1 DEF MutexFree
  <2>5. QED BY <1>3, <1>7, <2>2, <2>3, <2>4 DEF Others
<1>8. QED BY <1>6, <1>7

-----------------------------------------------------------------------------
(***************************************************************************)
(* Results.                                                                *)
(***************************************************************************)
LEMMA StutterStep ==
  ASSUME IInv, UNCHANGED vars
  PROVE  IInv' /\ (ResolveInv => ResolveInv')
<1>1. UNCHANGED <<th, sockets, inbox, cached, disabled, addressOf, surrogateOf, given, last>>
  BY DEF vars
<1>2. KeepAddresses /\ ThreadInv'
  BY <1>1 DEF KeepAddresses, ThreadInv, IInv
<1>3. SocketOutlivesCall'
  BY <1>1 DEF IInv, SocketOutlivesCall
<1>4. QED BY <1>1, <1>2, <1>3, QuietSockets, QuietEnv, QuietAddresses DEF IInv

LEMMA InitInv == Init => IInv
<1> SUFFICES ASSUME Init PROVE IInv
  OBVIOUS
<1>1. ThreadInv
  <2>1. Idle \in Executions /\ Executes(Idle)
    BY DEF Idle, Executions, Executes, Pcs, Arguments, WithHost, WithAddr, WithoutFd, WithFamily
  <2>2. QED BY <2>1 DEF Init, ThreadInv
<1>2. EnvInv
  BY DEF Init, EnvInv
<1>3. AddressInv
  BY AddressInit
<1>4. SocketInv
  BY DEF Init, SocketInv, CachedHeaderValid
<1>5. SocketOutlivesCall
  BY DEF Init, SocketOutlivesCall, Idle, Referring, Holding
<1>6. QED BY <1>1, <1>2, <1>3, <1>4, <1>5 DEF IInv

LEMMA NextInv ==
  ASSUME IInv, [Next]_vars
  PROVE  IInv' /\ (ResolveInv => ResolveInv')
<1>1. CASE Next
  <2>1. PICK t : Good(t) /\ (t \in Threads \/ UNCHANGED th)
    BY <1>1, NextGood DEF IInv
  <2>2. SocketOutlivesCall'
    BY <2>1, OutlivesStep DEF IInv
  <2>3. QED BY <2>1, <2>2 DEF IInv, Good, Move
<1>2. CASE UNCHANGED vars
  BY <1>2, StutterStep
<1>3. QED BY <1>1, <1>2

\* The inductive invariant of the interposer: what each thread executes has the
\* arguments it needs, the tables of surrogates agree, and every remembered
\* destination and selection belongs to a socket that exists.
THEOREM Invariance == Spec => []IInv
<1>1. QED BY InitInv, NextInv, PTL DEF Spec

\* recv() and send() work on a socket that no other thread removes or uses
\* meanwhile: close() looks it up and removes it with the mutex of the interposer
\* held exclusively.  It releases that mutex before it passes the call for any
\* other socket to libc, which is a step of its own here.
THEOREM SocketsOutliveCalls == Spec => []SocketOutlivesCall
<1>1. IInv => SocketOutlivesCall
  BY DEF IInv
<1>2. QED BY <1>1, Invariance, PTL

\* headerCache holds the headers for lastDest in every state, whatever bind(),
\* connect() and failing sends did between two packets.
THEOREM CachedHeadersValid == Spec => []CachedHeaderValid
<1>1. IInv => CachedHeaderValid
  BY DEF IInv, SocketInv
<1>2. QED BY <1>1, Invariance, PTL

\* An IPv6 address from getaddrinfo(), inet_pton(), recvfrom(), getpeername() or
\* getsockname() keeps its SCION address, if no surrogate is configured for two
\* addresses: makeSurrogate() finds a free surrogate whatever the hashes are.
THEOREM GivenAddressesResolve == UniqueSurrogates /\ Spec => []GivenAddressResolves
<1>1. UniqueSurrogates /\ Init => ResolveInv
  BY AddressInit
<1>2. IInv /\ ResolveInv /\ [Next]_vars => ResolveInv'
  BY NextInv
<1>3. ResolveInv => GivenAddressResolves
  BY DEF ResolveInv
<1>4. QED BY <1>1, <1>2, <1>3, Invariance, PTL DEF Spec

\* scion_sel_select() repeats its last selection for a socket as long as that
\* path works.
THEOREM StickyPaths == Spec => StickyPath
<1> DEFINE Sticky ==
      \A t \in Threads :
        th[t].pc = "send.select" /\ th'[t].pc = "send.pack" =>
          LET l == StillUsable(object', cached')[th[t].fd]
          IN l # None /\ l.ok => last'[th[t].fd].dig = l.dig
<1>1. IInv /\ [Next]_vars => [Sticky]_vars
  <2> SUFFICES ASSUME IInv, Next, NEW t \in Threads,
                      th[t].pc = "send.select", th'[t].pc = "send.pack"
               PROVE  LET l == StillUsable(object', cached')[th[t].fd]
                      IN l # None /\ l.ok => last'[th[t].fd].dig = l.dig
    OBVIOUS
  <2>1. SendSelect(t)
    BY OnlySelect DEF IInv
  <2>2. QED BY <2>1, SelectGood DEF IInv
<1>2. QED BY <1>1, Invariance, PTL DEF Spec, StickyPath
=============================================================================
