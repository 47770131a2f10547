# TLA+ models of scion-cpp

scion-cpp is a C++ implementation of SCION hosts: a library of addresses, headers, paths
and sockets (`include/scion`, `src`), the SCION/IP translator **Scitra-TUN** (`scitra`), and
an interposer that lends SCION sockets to unmodified programs (`interposer`). This directory
models the parts that keep state and are shared between threads, timers and the network as state
machines, and the parts that compute without state (headers, addresses, translation of packets,
paths, policies) as operators. TLC checks both on small instances; TLAPS proves the central facts
about the state machines. Every definition is translated from the code; `PROJECT.json`
("map") names the lines.

## Inventory

| Part | State | Operations | Hard about it |
|---|---|---|---|
| Path MTU discovery (`scmp/path_mtu.hpp`) | LRU list of records, index of iterators, capacity | `getMtu`, `updateMtu`, SCMP handler, `forgetMtu`, `clear`, `setCapacity` | list and index must agree; SCMP errors are late and repeated; expiry relies on sortedness |
| Path cache (`path/cache.hpp`, `path/shared_cache.hpp`) | map from routes to paths, next refresh, pending flag | `lookup`, `prefetch`, `store`, `clear` | one lookup is several critical sections; queries are asynchronous, fail and overlap |
| Flow state (`scitra-tun/flow.hpp`) | state guessed for a TCP or MPTCP connection, path, subflows | `updateStateEgress/Ingress`, `tick`, `getSubflowBy...` | the translator sees neither loss nor reordering beyond itself |
| Flow table (`scitra-tun/scitra_tun.cpp`) | flows by local and remote endpoint, MPTCP tokens, remapped ports | egress, ingress, maintenance, user interface | four kinds of threads, a critical section per lookup, pointers kept between them |
| Locks (`scitra_tun.cpp`) | `socketMutex`, `flowMutex`, one mutex per flow, that of the path cache | every entry point | lock order, upgrade of a shared lock, starvation |
| Underlay socket (`scitra-tun/socket.cpp`) | external address, time of last use, STUN state, held packet | `sendPacket`, `recvPacket` | answers are lost, late or repeated; the NAT forgets; sends fail |
| Translator (`scitra/translator.hpp`, `packet.hpp`, `src/translator.cpp`, `packet.cpp`) | the packet buffer, rewritten in place | `parsePacket`, `translateEgress`, `translateIngress`, `emitPacket`, ICMP replies | header sizes, MTU arithmetic, checksums updated from differences |
| Library sockets (`socket`, `posix`, `asio`) | bound and mapped endpoint, STUN transaction, header templates, SCMP handlers | bind, connect, send, receive, request STUN mapping | order of calls, unexpected STUN responses, filtering of received packets, templates adapted to the next payload |
| C interface (`src/scion_c/scion.cpp`, `scion.h`) | context with event loop, sockets, header caches, path handles, timers | one function per call of `scion.h`, completion handlers | handlers against `cancel`, `close` and restarts of the loop; ownership of paths |
| Interposer (`interposer/src`) | table of sockets, surrogate addresses, control plane, path selection | the socket calls of libc | sockets change between IP and SCION while other threads use them, and while calls for them are on their way to libc |
| Headers (`hdr`, `bit_stream.hpp`, `extensions`) | none | parse, emit, size, checksum | bit offsets, padding, lengths that are announced and written |
| Addresses (`addr`) | none | text conversion, mapping into IPv6 | boundaries |
| Paths, policies (`path`) | none | decode, reverse, digest, hops, expiry; parse policy, select and sort paths | peering, segment changes, references between policies |
| Daemon client, resolver, TUI, netlink, TUN, systemd, command line | connections, handles | I/O | wrappers of external services |

Interactions. An egress thread of Scitra-TUN looks a flow up, asks the path cache for a path
(which may start a query to the daemon, answered later by a gRPC thread), and hands the packet
to an underlay socket (which may hold it until a STUN answer arrives). A worker thread runs the
ingress coroutines, which find the flow by port and path, and SCMP errors go to the path MTU
cache and the path cache. A timer advances and removes flows and prefetches paths. The user
interface reads and changes flows. All share the flow table under `flowMutex`. An application
of the library owns its sockets; a POSIX or Asio socket wraps the packager, which checks every
received packet, calls the SCMP handler and learns the socket's external address from STUN
packets that share the port with data. The C interface owns an Asio event loop and hands out paths
of the cache as counted pointers. The interposer keeps a POSIX socket for every descriptor it has
turned into a SCION socket, and translates addresses on the way in and out.

What makes each part correct is stated by the properties below; the list of hazards in
`PROJECT.json` names the line where each one bites.

## Modules

| Module | Models |
|---|---|
| `PmtuAbs` | what a path MTU cache promises: a partial map whose entries only fall or vanish |
| `PathMtu`, `PathMtu_proofs` | `PathMtuDiscoverer`, which implements `PmtuAbs`; its proofs |
| `PathCache`, `PathCache_proofs` | `SharedPathCache`, `PathCache` and `ScitraTun::beginPathQuery`; its proofs |
| `Flow` | the flow's state machine as operators, shared by the next two |
| `FlowTcp` | `Flow` composed with two TCP hosts (external) and a lossy network; proved about in `ScitraFlows_proofs` |
| `ScitraFlows`, `ScitraFlows_proofs` | the flow table and its threads; its proofs and those of `FlowTcp` |
| `ScitraLocks`, `ScitraLocks_proofs` | the lock and unlock steps of every thread; its proofs |
| `StunSocket`, `StunSocket_proofs` | the underlay socket composed with a STUN server and a NAT (external); its proofs |
| `ScionSocket`, `ScionSocket_proofs` | the library's SCMP and UDP sockets (POSIX and Asio) on top of `ScionPackager`: addressing, STUN, receiving; its proofs |
| `HeaderCache` | building headers, and adapting them to the next payload (`HeaderCache`, `ScionPackager`), as operators |
| `CInterface`, `CInterface_proofs` | the C interface and the Asio sockets below it, on top of `HeaderCache`; its proofs |
| `Interposer`, `Interposer_proofs` | `libc_interposer.c`, `interposer.cpp`, the surrogate addresses and the built-in path selector; its proofs |
| `BitStream`, `Checksum` | `ReadStream` and `WriteStream`; the Internet checksum in 32 bits |
| `ScionHeaders`, `ScmpHeader`, `IpHeaders`, `TcpHeader` | the headers, each one operator for reading and writing as in the code |
| `Codec` | the headers under one name, samples, and what is right about them |
| `Mapping`, `AddressText` | SCION-mapped IPv6 addresses; parsing and formatting of addresses and end points |
| `Packet`, `Translator` | `PacketBuffer`; `translateEgress`, `translateIngress`, NAT rewriting, ICMP replies, the RST of a rejected subflow |
| `Translation` | packets on their way from host to host, and what should become of them |
| `Paths` | `DecodedScionPath`, `RawPath` and the range of hops |
| `Policy`, `PolicyCases` | policy files and selection of paths; files, flows and paths with the manual page's rules |
| `Algorithms` | one behaviour per sample of the operators above |
| `MC...` | small instances |

An operator marked *Fault* is the code with a plausible error. No specification uses it; a
property is worth its run if it is violated once the fault replaces the definition below it
(`PROJECT.json`, "mutants").

### How state and actions correspond to the code

* **PathMtu.** Every method runs under `m_mutex` and is one action. List nodes have an identity,
  so that an iterator in `index` can dangle. `now` is the clock from which callers take
  timestamps; `accessed` is a history field (the true time of the access), `lastAccess` the
  timestamp in the code. A timestamp is any earlier time (`Stamps`): the egress threads take it when a
  packet is received (`scitra_tun.cpp:738`) and pass it on after several locks (813, 816), and
  `exportFlows()` passes none (394, 404).
* **PathCache.** `lookup()` is four steps: enter `update()` with the mutex, decide, call the
  provider, search the map *without* the mutex, copy under a shared lock. A path is its expiry.
  The provider's query is answered by any set of paths or, on errors, by none, within `MaxDelay`.
  `tick()` prefetches, once per tick, the routes that flows of type
  Active have at its beginning (`active`, `due`); flows come and go between.
* **Flow / FlowTcp.** `updateStateEgress()` and `updateStateIngress()` are one operator with the
  roles swapped. The flow sees a local segment before and a remote segment after the network.
  Either thread may lose a segment itself: egress before it updates the flow, ingress after it
  (`missed`).
* **ScitraFlows.** One action per critical section; a thread's record holds the local variables
  that survive it (flow, lead flow, path). `Flow` objects are numbered and reused when no
  `shared_ptr` refers to them. Maintenance and the user interface hold `flowMutex` over several
  actions while flows are locked one by one. Which path is available is a free choice.
* **ScitraLocks.** A task is the sequence of lock and unlock steps of a function, with the calls
  it makes; `std::scoped_lock` takes all its mutexes or none.
* **StunSocket.** `sendPacket()` is split where other threads can interfere: test of the time,
  `requestStunMapping()` (under the STUN mutex), `egressNat()`, sending. `nat` is the truth about
  the external address. An answer of the STUN server may lack the address (`ep = Unmapped`).
* **ScionSocket.** One thread owns a socket. A synchronous call occupies it (`call`) until it
  returns, one action per packet received; an asynchronous one interleaves with other calls, as
  its completion handlers do. `rxq` is the receive queue of the operating system, where packets
  stay when they are only peeked at. An endpoint (address and port) is one value. `result`
  holds what the call that has just ended returned; `answers`, `learned`, `accepted`, `handled`
  and `peeked` are history variables. What makes a packet acceptable (checksum, underlay source)
  is its field `valid`, and `big` says that it exceeds the buffer of 128 bytes for STUN.
* **HeaderCache / CInterface.** An address, a path and a payload are the numbers that enter lengths
  and checksums; one's complement sums are numbers modulo 65535. Every function of `scion.h` that
  changes state is an action. An asynchronous operation is tried at once, waits in `recvq` or is
  `ready` in the queue of the event loop until `Dispatch` calls its handler, which may arm it
  again. `wire` is the packet the step has sent. Undefined behaviour (a null callback, a
  packager that has been freed) sets `dead`, after which nothing is claimed.
* **Interposer.** The wrappers of `libc_interposer.c` are the actions `Call...`. A handler that holds
  the interposer's mutex exclusively is one action; one that shares it is split at the socket's
  mutex, at blocking receives and where it gives the mutex up to promote a socket. `bind()`, `connect()` and
  `close()` of a socket that is not one of SCION release the mutex before they call libc: `PassOn`, and
  `LibcCall` as an action of its own. `kernel` is what
  the operating system knows of a descriptor. A path is a digest and a generation: a refresh replaces
  the object, and `broken` marks stay with the old one. `given` and `last` are history variables.
  `StickyPath` is about the path *selected* last. The path *sent on* last may differ: a packet too
  large for a newly selected path is given up, the headers cached for the old path are used again once
  that path works, and the selector still repeats its own choice when it is asked the next time.
* **Headers.** A buffer is a sequence of bits, a stream has a position in bits, and the header is
  read or written by the same list of items, as `serialize()` of the code is one template for both.
  Values of more than 24 bits stay sequences of bits.
* **Packet / Translator.** A packet is the record of the members of `PacketBuffer`, raw bytes included.
  `Translation` sends it through the translator of the sender, optionally a NAT rewrite at both
  sockets, and the translator of the receiver.
* **AddressText.** A text is a sequence of separators, names and numerals, a numeral being its digits, so
  that the base is the parser's choice. Case of letters is left out.
* **Paths.** Decoded and raw form; the raw form is reversed on its bits as `reverseInPlace()` does.
* **Policy.** A file is its parsed JSON: policies in document order, matchers. Loading, inheritance,
  failover, access lists, hop sequences, requirements and orderings are operators.

## Runs

| Run | Shows | Instance |
|---|---|---|
| `path_mtu` | list and index agree, capacity respected, sorted by access, `clear(cutoff)` leaves no old record, refinement of `PmtuAbs` (an MTU never rises) | 4 destinations, at most 3 places, 3 ticks |
| `path_cache` | a pending flag always has a query behind it; with an answering daemon a route that active flows use never runs dry; errors are retried within the refresh interval; every refresh ends | a local and a remote route, active flows on the latter, maintenance and one more thread, 2 overlapping queries, 4 ticks |
| `flow_tcp` | a connection opened locally is ESTABLISHED whenever both hosts say so, other flows are forgotten | all losses, copies, reorderings and drops, queue of 2 |
| `flows` | subflows of a connection never share a local endpoint; the path of a multipath flow, once decided, stays | 2 egress threads, ingress, maintenance, user interface, 3 packets, 3 flow objects, 2 paths |
| `flows_drain` | the table drains after the last packet | an egress thread, ingress, maintenance, user interface, 3 packets, 3 flow objects |
| `stun_socket` | packets carry the current external address; at most three packets in a row are held back without an answer in between; none is sent twice; the time of last use is not ahead | 2 threads, 2 external addresses, 5 packets, 5 ticks, lossy network, answers without an address, failing sends |
| `locks` | no circular wait; packets are processed | one thread of every kind |
| `scion_socket` | the mapping is the one reported for the latest request and is learned once; a packet is handled once and, shown by peeking at a POSIX socket, is returned next, and never blocks the queue; `getStunMapping()` ends | both backends, 7 kinds of packets and STUN answers, 5 sets of flags, 2 arrivals, queue of 2, 2 requests |
| `c_interface` | packets on the wire are valid, however their headers came about; references to paths are counted right; a handler is called once; data behind other packets is delivered | 2 asynchronous operations, 6 calls, 2 arriving packets, a path and a raw path, payloads that wrap the checksum |
| `interposer` | cached headers are those of the remembered destination; a socket outlives the handlers that use it; an address given to the application leads back; the path selected for a socket is selected again while it is usable | 2 threads, one descriptor, 2 remote hosts with equal hash, 2 paths of 2 generations, 4 calls, 1 event |
| `algorithms` | headers and address texts are read back; packets survive both translations; paths are reversed alike in both forms; policies mean what the manual says, but for named differences | 20,950 samples, see below |

`locks_reject` is expected to find a violation (`PROJECT.json`, "findings"): `scitra/docs/scion-mptcp.md` says that a
surplus subflow is answered by a RST; `rejectMptcpSubflow()` takes `socketMutex` with a flow locked,
maintenance takes them in the other order, and both wait.

### The cases of `algorithms`

A behaviour chooses an algorithm and a group, then a case; the properties compare the result of that step with a
reference. They are stated on:

* *Headers:* every header and option with all-zero, all-one and mixed fields, TCP with the options of SYN
  and of ACK segments (`SynOpts`, `AckOpts`); written, read back, cut short.
* *Texts:* IPv6 addresses with all 256 patterns of zero fields, IPv4 alone, in IPv6 and in SCION-mapped
  addresses, zones; ASNs at the limits of both notations; ports 0, 1 and 65535.
* *Packets:* UDP, TCP with options, ICMPv6 of types 1, 2, 3, 128, 129 and 133, over paths and
  inside an AS, with and without NAT, odd payload lengths, MTUs one byte below the packet's
  size, at it and above, and around the size of the SCION headers, packets without path or SCION
  address, buffers that still have the SCMP checksum of an earlier packet.
* *Paths:* one to three segments in each direction, peering, the longest path of 64 hop fields.
* *Policies:* a policy with each combination of attributes, every form of hop predicate in an ACL and in a
  sequence, two and three policies in every order that extend and fail over to one another in valid and
  invalid ways, and odd matchers.

Where the code deviates, the property leaves out exactly the inputs concerned, and says for which:
`PaddingShort` (`measureOpts()` and `emitOpts()` disagree for MPTCP options whose length is 2
modulo 4, though the comment at `hdr/tcp.hpp:1495` says the size includes the padding), `IaOverflow`
(`IsdAsn::checksum()` adds in 32 bits and may lose a carry), `UpdateInexact` (a checksum update folds once
and may lose a carry), and `EndsInZeros` (the parser refuses `2001:db8::`, which the library itself
formats and RFC 4291 allows, because `generic_ip.cpp:199-206` allows a final `::` after one field only).
`Translated` also leaves out the checksum of SCMP messages rewritten for a NAT (`socket.cpp:302-310`) or put
together in a buffer that held one before (`translator.hpp:249`), and whether a packet is answered, and with which
MTU, if the path MTU is more than 40 bytes smaller than the SCION headers (`MtuUnderflow`).

The reference for `PolicyHonoured` is the manual page, `scitra-policy.json.5.md`. Where it is silent, the reference says
so: the order of failovers is the comment at `policy.cpp:523-526`, paths without metadata and the empty path are those of
`test_policy.cpp`, a hop that no line of an ACL mentions is denied (`policy.cpp:391`), and paths of unknown latency or
bandwidth are sorted as the worst. Where the code contradicts the page (`Differences`), the property
leaves the file out, and a statement below, which TLC refutes, is about exactly that difference.

### Bounds

Counters are bounded in guards by the constants named `Max...`. Three places in the MTU cache let
a record be evicted, moved and expired while another stays. In the path cache, lifetimes of one
and four ticks with an interval of one and a delay of one let a refresh be triggered by age and by
expiry, let answers be too short-lived and let two queries be answered out of order. In the flow table three
objects are a lead flow and two subflows, or two lead flows, and two paths can be exhausted.
For the socket five ticks cover two NAT timeouts. For the library socket two packets and two requests
let an answer be late, repeated and overtaken, and let a packet wait behind one that is not data;
one retry of `getStunMapping()` is a round with and one without a retry left. For the C interface six
calls are a context, a socket, binding, a header cache, an operation, and one that interferes; two operations can
wait for the same packet. For the interposer four calls are opening, promoting and sending while another
thread closes or reconnects, and one event breaks, expires or refreshes a path. Deadlock checking is
off where the bounds on packets, calls or time let a behaviour end.

### Fairness

* `PathCache`: a call goes on and the gRPC thread stores what arrived. Both wait for a mutex that
  other threads take again and again; standard mutexes are not starved forever by threads that
  leave their critical sections, which is strong fairness.
* `FlowTcp`: the maintenance timer fires again and again (weak fairness of `Maintain`). Nothing is
  assumed about hosts or network.
* `ScitraFlows`: threads at work go on and the timer fires; time passes (`GrowOld`, strong because
  it is not enabled during maintenance).
* `ScitraLocks`: strong fairness of a step, as for `PathCache`. Maintenance, which needs two
  mutexes at once, is not claimed to be free from starvation.
* `CInterface`: the application runs the event loop and restarts it when it has run out of work (weak
  fairness of `scion_restart`), as `scion.h` asks; the loop polls the socket and calls the handler of
  every operation that is ready (strong fairness, since a stop of the loop disables both). Nothing is
  assumed about the network or about other calls.
* `Interposer`, `StunSocket`, `PathMtu`, `Algorithms`: safety only, no fairness.
* `ScionSocket`: a receive call in progress goes on (weak fairness of `Recv`): the thread runs, a
  socket timeout expires. Applications, peers and servers owe nothing. Since every packet restarts
  the timeout of `getStunMapping()`, its end depends on the bound on arrivals.

## Proofs

Each module `X_proofs` proves its results for every value of the constants that `XAssumption` allows.
`IInv` is the inductive invariant: `InitInv` and `NextInv`, or `Invariance` itself, combine one lemma
per operation. TLC has checked every `IInv` on the instance of the run first, but that of `ScitraLocks`,
which quantifies over relations. "If" below names a
hypothesis of the theorem.

**`PathMtu_proofs`**: the cache is type-correct (`TypeCorrect`), list and index agree (`IndexCorrect`),
its capacity is respected (`CapacityRespected`), and it implements `PmtuAbs` step by step
(`CacheImplementsMap`). None of the first three is inductive alone: eviction removes the head of the list
from the index, which is right only if the head's record names its own destination and occurs once;
appending a node keeps the list free of repetitions only if the allocated node is not in it; a list
node's record is well typed only while it is linked. Four lemmas about lists without repetitions
(erase, append, suffix) carry the proof. The list is sorted by the time of access (`ListSorted`) and
`clear(cutoff)` leaves no old record and loses none with a timestamp since `cutoff` (`ClearComplete`),
whatever timestamps callers pass; `OrderInv` adds to `IInv` that no timestamp is later than the access
it came with, which is all that is needed.

**`ScionSocket_proofs`**: a mapping learned by STUN was reported by a server for the latest request
(`MappingIsGenuine`) and no request has two accepted answers (`MappingIsLearnedOnce`). Neither is
inductive: a forged packet in the queue, or an accepted answer to a request still open, would break
them in one step. `IInv` adds that every STUN answer in the queue was given by a server (`QueueGiven`)
and that no answer has been accepted for the open request or one to come (`OpenUnanswered`). All
receive methods change this state through `Unpack`, so one lemma (`UnpackStep`) covers them. The SCMP
handler is called once per packet (`PacketsHandledOnce`) because between its call and the discarding of the
packet a synchronous call is in progress (`HandledInv`), so that nothing else is received; and the packet shown
with `SMSG_PEEK` is returned next (`PeekShowsNext`) because it stays at the head of the queue (`PeekInv`),
until the socket or its addresses change. This is about the POSIX socket: Asio sockets do not peek at data.

**`StunSocket_proofs`**: no packet is sent twice (`PacketsSentOnce`), at most three packets in a row are held
back without an answer in between (`NeverBlocked`), the time of last use does not run ahead of the NAT's (`IdleTimeCorrect`) and packets
leave with the current address (`SourceIsCurrent`). `PacketInv` says where each packet is; `WaitInv`
relates the packets held back to `expectStunResponse` and to the threads about to raise it, because the
packet is held before the counter is raised; `ClockInv` needs `NetInv`, that whatever is in flight has
kept the NAT's mapping alive. `StaleInv` says that a mapping the NAT has forgotten is used only after a
held packet was lost. A socket opened within `NAT_TIMEOUT` of the steady clock's epoch, where `m_lastUsed`
starts, takes its unmapped address for a recent one: `MappingCurrent` allows it that address, and no other.

**`PathCache_proofs`**: a pending mark has a query behind it (`PendingIsQueried`), an error is retried in
time (`RetryInTime`), and a route that active flows use never runs out of valid paths (`PathsNeverRunDry`) if the daemon serves
it, and if refreshes come earlier before the expiry, and accepted paths live longer, than the daemon may
take (`RefreshAt > MaxDelay + 1`, `MinAccepted > MaxDelay`; 10 and 5 minutes in `scitra_tun.cpp:54-56`). No
bound on time is involved. `CoverInv` is the heart of it: for every element of the map, either its
paths last until the next maintenance and the answer after that, or a query in flight, of known
age, or a thread about to make one takes care of it. `RefreshInv` relates `nextRefresh` to every path
of the set, and `LockInv` says that nothing changes between the decision of `update()` and its effect.

**`CInterface_proofs`**: every packet sent is valid (`PacketsValid`), reference counts are right
(`PathsCounted`), and the handlers of all operations but STUN requests are called once (`HandlersCalledOnce`; the
handler of a STUN request is called again after an error), for any ports, addresses, payloads
and number of operations. Headers are adapted from those of the packet before; so the invariant says of the
cached headers that their sum is that of their pseudo header (`EnvInv`), and of every waiting send that the
cached headers suit its payload (`SendInv`). `QueueInv` and `GoneInv` say which operations the event loop
may still touch once their socket is closed.

**`Interposer_proofs`**: a socket outlives the handlers that use it (`SocketsOutliveCalls`), cached headers
are valid (`CachedHeadersValid`), an address given to the application keeps its meaning
(`GivenAddressesResolve`) and the selector repeats itself (`StickyPaths`), for any number of threads, descriptors, addresses and paths.
`Transition` lists the ways in which a thread comes to refer to a socket, and `Kept` says who removes
one; `SocketsOutliveCalls` follows from the two. For addresses `AddressInv` says that every surrogate in use
belongs to an address or to the configuration, so that by counting there is always a free one:
interface IDs have 64 bits, which `InterposerAssumption` states as `Hash[h] + Len(Configured) +
Cardinality(Hosts) <= MaxSurrogate` for a finite number of hosts. `GivenAddressesResolve` holds if no surrogate is
configured for two addresses (`UniqueSurrogates`); otherwise `addOrReplace()` leaves the first address with a
surrogate that stands for the second.

**`ScitraLocks_proofs`**: if no subflow is rejected (`Rejects = FALSE`), no circle of threads wait for each
other (`NoCircularWait`), for any number of egress threads and workers: every function locks
`socketMutex` or `flowMutex` before a lead flow, and that before a subflow or the path cache (`Rank`). So of
any set of threads, one that holds a lock of the highest rank waits for none of the others. `Ordered` says
that what is left of a task keeps to this order and releases everything (`LocksReleased`, with rejected
subflows too). The tasks are concatenations; `Leads(h, f, k)` says that fragment `f` leads from locks `h`
held to `k` held, and is composed along them (`Sequel`). Where the order fails, `rejectMptcpSubflow()`
asks for `socketMutex` with a flow locked; run `locks_reject` shows what comes of it.

**`ScitraFlows_proofs`**: the flow table and the threads lead to `Flow` objects only (`FlowsTyped`), and the
subflows of a lead flow have different local endpoints (`EndpointsDiffer`), with the critical sections of all
threads interleaved in any way and for any number of threads, addresses, ports, objects and packets. The
state is a heap, so `IInv` is about its shape: every object that is referred to has a level (`Roles`, `Heap`).
Lead flows are at level 0 and their subflows at level 1; the flow a token leads to may be a subflow itself,
which then gets subflows of its own at level 2, but these never get any, since they are never in the table
and never learn a token. So `Referenced`, which follows the lists twice, leaves nothing out (`Narrow`), and a
new object is in no list. Without this, an object could be reused while it is listed, and its endpoint would
change there. `WithoutPicks` shows that removing closed subflows keeps the others, each once. The constants
`None`, `Ui` and `Maint` must differ from each other and from the names of threads and ports.

Once the path of a multipath flow is decided, it stays (`PathsStable`), with the same interleavings and for the
same parameters. Decided (`Settled`) means that no egress thread still carries another path it selected before, and
that the user is not about to change the flow; that this remains so is part of the property. Every step
changes an object in one of three ways: its path and type remain (`Twin`), it gets a subflow without a path
(`NewIn`), or it gets a path (`GetsPath`); lemmas named `...Kin` and `...Gets` assign each action to one of them.
The only fact needed beyond `IInv` is that a thread that looks for the path of a new subflow carries none
(`SeeksPath`). Without `Settled` the property does not hold: a thread that found the flow not to be multipath is
overtaken by another one.

The module ends with the proof about `FlowTcp`, which needs the lemmas about `Flow`: a connection that the
local host has opened is ESTABLISHED in the flow table while both hosts regard it as open (`OpenKept`), for any
length of the TUN device's queue, any timeout, and any number of segments lost, repeated and delayed. If the
translator loses a segment itself, this is suspended until it passes on the next one of the local host. The
invariant (`TcpInv`) need not know the history of the segments. A repeated SYN ACK puts the flow back into
SYN_RCVD, but then the local host has an acknowledgement in the queue that the flow has not yet seen, and it
is the last one (`AckIsLast`): whenever the queue is empty and nothing
was dropped since, the flow is ESTABLISHED. `NoEarlyFin` says that the
flow has not seen a FIN before a host sends one; an acknowledgement would not lead out of that state. TLC has
checked the property with queues of up to 4 segments (53,998 states). The hypothesis is that the remote
host does not open the connection (`Openers \subseteq {"local"}`), without which the property fails.

Only model-checked: what needs fairness (`RefreshEnds`, `UnusedFlowForgotten`, `TableDrains`,
`PacketsProcessed`, `QueueDrained`, `GetStunMappingEnds`, `DataDelivered`), `ENABLED`
or induction over data, which are out of the prover's reach. The header modules, `Paths` and `Policy` use
`RECURSIVE` operators for loops over bytes and names, so nothing is proved about `Algorithms` and the modules
below it.

## Statements the code does not keep

Defined at the end of the modules, without a run of their own:

* `PathCache`: `OneQueryPerRoute` (the pending flag should prevent multiple queries; a lookup during a
  query clears it), `PendingReported` (a lookup during another thread's query returns an empty
  success), `RaceFree` (the map is searched without the mutex).
* `PathMtu`: `NeverAboveFirstHop` (path metadata may exceed the first hop's MTU); `SortedByStamp`
  (the timestamps of `getMtu()` are said to be monotonic) and `ClearRemovesOnlyOld` (a record is lost that
  was accessed after `cutoff` with an older timestamp or none).
* `ScitraFlows`: `LeadHasPath` (a flow may become multipath before it has a path, which
  `findSubflowByPath()` dereferences), `FamilyDistinct` (a passive subflow may get the lead flow's
  address), `LeadOutlivesSubflows` (a subflow may be added to a flow being removed),
  `OverrideSparesMultipath` (the test for multipath is outside the flow's lock), `TokenLeadsToFlow`
  (`removeFlow()` leaves the token behind). `SubflowPathsUnique` (subflows should have unique
  paths: two egress threads select the same one, because it is stored only after the lead flow has been
  unlocked), `MultipathPathNeverChanges` (a path selected or chosen by the user arrives after the flow has
  become multipath). `LeadKeepsPort` (a lead flow should stand in the table under its own local port) fails with
  two local ports: a subflow of the connection with port 1 is opened from port 2 of an extra address, which is
  remapped to port 1; the user removes the flow, but `removeFlow()` leaves the entry in `mpPortRemap`; the next
  packet from that address creates a flow with local port 2 under port 1, which gets the token. Now a
  subflow SYN finds this flow by the token and takes the source port from it: port 2, where `findFlow()` finds
  another flow if there is one. So `selectPathMulti()` compares with the paths of the wrong flow.
* `StunSocket`: `LastUsedIsSent` (the time is stored even if the held packet could not be sent),
  `HeldPacketSent` (a second packet during the discovery replaces the held one), `SomePacketSent` (a response
  without an address resets `expectStunResponse` but leaves the packet held: a server that tells no address
  blocks the socket; violated with one thread and `Broken = FALSE`), `NeverUnmapped` (violated with
  `Start = 1`).
* `Interposer`: `PromotedIsOpen` (`close()` of a socket that is not one of SCION calls libc without a lock; if
  another thread promotes the socket in between, its entry outlives the descriptor), `NoNullPointerRead`
  (`sendto()` and `sendmsg()` without an address crash if promotion is allowed).
* `ScionSocket`: `StunMeansLearned` (any STUN packet of the server ends `recvStunResponse()`, and
  `getStunMapping()` reports success without a mapping).
* `Algorithms`: `TooLongAnsweredRight` (a path MTU more than 40 bytes smaller than the headers is reported as 65535,
  because `ipMtu` is unsigned), `ScmpRightBehindNat`, `ScmpRightInReusedBuffer` and `UpdatesRight` (checksums: the
  rewriting for a NAT leaves that of SCMP alone, its field is not cleared before it is computed, and
  an update folds once). The manual page against the code: `MatcherNeedsPolicy` (`:30`, `:34`; the code skips a
  matcher without a policy), `MatcherMayNameDefault` (the code refuses it), `TrafficClassZeroMatches` (the code takes zero
  for no class, as `policy.hpp:37` says), `ExtendedPrecedes` (`:76-84`; the code extends `default` before its definition
  as if it were empty), `InterfaceMayBeZero` (`:95`; `#0,E` ignores the egress interface, and `#I,0` is taken for
  `#I`), `SequencePredicatesMatch` (in a sequence, what follows an ISD of zero and the interfaces after an ASN of zero
  are ignored).
* `FlowTcp`: `OpenConnectionKept` fails with `Openers = {"remote"}`: a SYN ACK that the local host
  retransmits puts an established flow back into SYN_SENT. `OpenConnectionAlwaysKept`: a repeated SYN ACK
  takes the flow to SYN_RCVD, where it stays if that segment or the answer to it is lost in the translator.

Met while modelling, without a statement of their own:

* *Sockets.* `recvScmpImpl()` with `SMSG_PEEK` never discards STUN or rejected packets; Asio's
  `recvImpl()` ignores `SMSG_PEEK` and discards the next packet unexamined; the asynchronous receive
  methods test twice for SCMP and never return for STUN; the POSIX `recvStunResponse()` fails if a
  packet of more than 128 bytes arrives; a failed `bind()` leaves the POSIX socket open; `mappedEp()`
  returns the local endpoint; the handler of an asynchronous STUN request is called twice after an error.
* *Header templates.* `build()` with hop-by-hop and end-to-end options announces the latter first; the
  checksum update of a template assumes that the transport header follows at once, so templates with
  extensions get a wrong one; `unpack()` parses end-to-end options from the hop-by-hop bytes;
  `sendCached()` takes the ports of the socket, not of the template.
* *C interface.* `scion_cancel()` does not reach a receive that is already queued; a null SCMP callback is
  called although `scion.h:436` allows it; closing a socket with a queued completion uses a freed
  packager; `scion_query_paths()` without a daemon and `scion_recv()` without a path dereference null.
* *Interposer.* A failed bind or promotion leaves the socket promoted; promoted sockets have no SCMP
  handlers; calls under way at exit run on destroyed sockets; the flag against calls that come back
  (`tl_recursive`) is one per thread, so that a thread of the RPC library that connects while `cp()` holds
  `cpMutex` would wait for it; a blocking receive holds the shared
  lock, so that a thread that opens a socket waits for it.
* *Headers.* STUN attributes are not padded; unaligned 16 and 32 bit fields are byte-swapped;
  an unaligned `advanceBytes()` advances twice; `parseExtensions()` ignores a failed option.
* *Address texts.* Besides `EndsInZeros`, the IPv6 parser accepts `:1` and refuses `::2:3:4:5:6:7:8`;
  an embedded IPv4 address in the eighth group is stored behind the array. `Asn::Parse()` accepts two
  groups and decimal values above `MAX_BGP_VALUE`, unlike `isd_asn.hpp:100-104`.
* *Translator.* `translateIngress()` reads the next header of the SCION header even if extensions follow; `resetMptcpSubflow()` is unused.
* *Paths.* The digest of a decoded path differs from that of the raw path; the expiry wraps in 32 bits.
* *Policies.* A failed load leaves a `PolicySet` half filled (Scitra-TUN discards
  it); a negative `min_mtu` becomes 65535, and so does one above that; traffic classes
  of more than six bits are accepted.
* *Flows.* ESTABLISHED flows never time out; `exportFlows()` never resets the multipath flag; SCMP errors
  with MTU 0 are accepted.

## Not modelled

* The text user interface, `main()`, option parsing, netlink, the TUN device, systemd: I/O whose effects
  on the flow table are actions of `ScitraFlows` where they exist.
* The resolver and the rest of the daemon client: calls of c-ares and gRPC. Their callers see an
  environment that answers or fails at any time.
* Protocol buffers and path metadata: generated code and copies of fields.
* Parsing of JSON and TOML files, error messages, printing, hashing and random numbers, operators of
  comparison, the registry of IPv6 zones. Hash collisions matter for the interposer's surrogates, where
  the hash is a constant.
* `errno`, flags and buffer sizes of the interposer's calls, custom path selectors, and the calls that the
  interposer makes itself.
* Conversion of addresses and error codes in the C interface, and of `sockaddr` structures.

## Plan

1. *(done)* `PathMtu` with abstract specification and proofs; `PathCache`; `Flow`, `FlowTcp`,
   `ScitraFlows`, `ScitraLocks`, `StunSocket`; `ScionSocket` (receiving) with proofs.
2. *(done)* Sending and the C interface (`HeaderCache`, `CInterface`); `Interposer`; the algorithms.
3. *(done)* Proofs about `PathMtu` (with its refinement), `ScionSocket` (mappings), `StunSocket`, `PathCache`,
   `CInterface`, `Interposer`, `ScitraLocks` and `ScitraFlows` (endpoints).
4. *(done)* Proofs of `MultipathPathStable` of `ScitraFlows` and `OpenConnectionKept` of `FlowTcp`.
