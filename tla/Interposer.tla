----------------------------- MODULE Interposer -----------------------------
(***************************************************************************)
(* The interposer: a preloaded library that replaces the socket functions  *)
(* of libc and turns datagram sockets of an unmodified, possibly           *)
(* multithreaded application into SCION sockets.                           *)
(*                                                                         *)
(* libc_interposer.c is the layer of wrappers (the actions Call...): after *)
(* the interposer has been stopped, a call goes on to libc; before, it     *)
(* runs a handler of interposer.cpp.  A handler either holds the           *)
(* interposer's mutex exclusively, from its first to its last access of    *)
(* the socket table (one action), or shares it with other handlers and     *)
(* takes the mutex of the socket on top (an action for each part between   *)
(* two blocking points).  A call for a socket that is not one of SCION is  *)
(* passed to libc after the mutex has been released.                       *)
(* builtin_selector.cpp picks the paths.                                   *)
(*                                                                         *)
(* Left out: errno, buffer sizes and flags (a failed call returns and      *)
(* leaves the state as described here), sockets of other than the Internet *)
(* address families, custom path selectors, and the calls the interposer   *)
(* makes itself, which go to libc (tl_recursive).                          *)
(***************************************************************************)
EXTENDS Naturals, Sequences, FiniteSets

CONSTANTS
  Threads,        \* threads of the application
  Fds,            \* file descriptors
  Addrs,          \* SCION host addresses in remote ASes
  Own,            \* SCION address of this host
  Mapped,         \* addresses that mapToIPv6() can represent as an IPv6 address
  Hash,           \* std::hash<ScIPAddress>: address -> interface ID
  Configured,     \* sequence of [ip, a]: surrogates from the configuration
  MaxSurrogate,   \* bound of the surrogates' interface IDs
  Order,          \* digests of the paths to the remote AS, best path first
  Gens,           \* path objects that exist per digest at a time
  Families,       \* address families of native sockets, from inet and inet6
  MaxBatch,       \* messages of one recvmmsg() or sendmmsg()
  AllowPromote,   \* option allow-promote-on-sendto
  MaxCalls,       \* bound: calls of the application
  MaxEvents,      \* bound: packets that arrive and changes of the paths
  None

Hosts == Addrs \cup {Own}
SurrogateIps == 0 .. MaxSurrogate
Digests == {Order[i] : i \in 1 .. Len(Order)}
PathObjects == [dig : Digests, gen : Gens]

\* IPv6 addresses that stand for a SCION address, and all socket addresses the
\* application can pass to the interposer: AF_SCION, such an IPv6 address,
\* another IP address, or none.
In6 == [k : {"mapped"}, a : Mapped] \cup [k : {"surrogate"}, ip : SurrogateIps]
SockAddrs == [k : {"scion"}, a : Hosts] \cup [k : {"in6"}, ip : In6]
             \cup {[k |-> "ip"], [k |-> "null"]}

\* Entries of the socket table, and paths that have been selected.
Destinations == [dst : Hosts \cup {None}, path : PathObjects]
Sockets == [family : {"inet", "inet6", "scion"}, local : Hosts \cup {None},
            remote : Hosts \cup {None}, lastDest : Destinations \cup {None},
            headerCache : Destinations \cup {None}, lastSelected : Digests \cup {None},
            handlers : BOOLEAN]
Selections == [dig : Digests, ok : BOOLEAN]

ASSUME InterposerAssumption ==
  /\ IsFiniteSet(Hosts)
  /\ Mapped \subseteq Hosts /\ Families \subseteq {"inet", "inet6"}
  /\ Hash \in [Hosts -> Nat]
  /\ MaxSurrogate \in Nat /\ MaxBatch \in Nat \ {0}
  /\ Configured \in Seq([ip : SurrogateIps, a : Hosts])
  /\ Order \in Seq(Digests)
  /\ None \notin Fds \cup Hosts \cup SurrogateIps \cup Digests \cup Gens \cup Sockets
                 \cup Destinations \cup Selections
  /\ \A h \in Hosts : Hash[h] + Len(Configured) + Cardinality(Hosts) <= MaxSurrogate
  /\ AllowPromote \in BOOLEAN
  /\ MaxCalls \in Nat /\ MaxEvents \in Nat

VARIABLES
  th,          \* thread -> the interposed call it executes
  kernel,      \* descriptor -> native socket: address family, type and bound address
  inbox,       \* descriptor -> packet in the receive buffer of the native socket
  sockets,     \* Interposer::sockets
  addressOf,   \* AddressSurrogates::m_surrogates
  surrogateOf, \* AddressSurrogates::m_addresses
  cp,          \* Interposer::controlPlane: not initialised, connected or not
  cached,      \* digest -> generation of the path object in the path cache
  object,      \* path object -> its state
  disabled,    \* g_disable
  given,       \* history: IPv6 addresses given to the application, and for what
  last,        \* history: descriptor -> path selected last, and whether that path
               \* has been usable ever since
  calls,       \* calls that the application has made
  events       \* packets and changes of the paths so far
vars == <<th, kernel, inbox, sockets, addressOf, surrogateOf, cp, cached, object,
          disabled, given, last, calls, events>>

-----------------------------------------------------------------------------
(* Calls and locks.                                                        *)

Idle == [pc |-> "idle", fd |-> None, arg |-> None, fam |-> None, n |-> 0, path |-> None]

\* Handlers that share the interposer's mutex and refer to a socket; those of
\* them that hold the mutex of that socket.
Referring == {"recv.lock", "recv.wait", "send.lock", "send.select", "send.pack"}
Holding   == {"recv.wait", "send.select", "send.pack"}

Go(t, pc)  == th' = [th EXCEPT ![t].pc = pc]
Return(t)  == th' = [th EXCEPT ![t] = Idle]

\* A wrapper calls the interposer unless the interposer has been stopped.
Intercepted == ~disabled

Sharers == {t \in Threads : th[t].pc \in Referring}
Exclusive == Sharers = {}
MutexFree(fd) == \A u \in Threads : ~(th[u].pc \in Holding /\ th[u].fd = fd)

-----------------------------------------------------------------------------
(* Addresses.                                                              *)

\* Fault: collisions of the hash are not resolved.
makeSurrogate_Collides(a) == IF surrogateOf[a] # None THEN surrogateOf[a] ELSE Hash[a]

\* AddressSurrogates::makeSurrogate(): the first free interface ID from the
\* hash on.
makeSurrogate(a) ==
  IF surrogateOf[a] # None THEN surrogateOf[a]
  ELSE CHOOSE ip \in SurrogateIps :
         /\ ip >= Hash[a] /\ addressOf[ip] = None
         /\ \A j \in Hash[a] .. (ip - 1) : addressOf[j] # None

getAddress(ip) == addressOf[ip]

\* The constructor enters the configured surrogates one after the other with
\* addOrReplace(): the last entry for a surrogate, or an address, remains.
addOrReplace(entries) == Configured[CHOOSE i \in entries : \A j \in entries : j <= i]

ConfiguredAddress(ip) ==
  LET entries == {i \in 1 .. Len(Configured) : Configured[i].ip = ip}
  IN IF entries = {} THEN None ELSE addOrReplace(entries).a

ConfiguredSurrogate(a) ==
  LET entries == {i \in 1 .. Len(Configured) : Configured[i].a = a}
  IN IF entries = {} THEN None ELSE addOrReplace(entries).ip

\* The SCION address that an IPv6 address stands for, or None.
in6_to_scion(ip) == IF ip.k = "surrogate" THEN getAddress(ip.ip) ELSE ip.a

sockaddr_to_scion(sa) ==
  CASE sa.k = "scion" -> sa.a
    [] sa.k = "in6"   -> in6_to_scion(sa.ip)
    [] OTHER          -> None

map_scion_to_ipv6(a) ==
  IF a \in Mapped THEN [k |-> "mapped", a |-> a]
                  ELSE [k |-> "surrogate", ip |-> makeSurrogate(a)]

\* map_scion_to_sockaddr_in6() for an address that is returned to the
\* application; the table of surrogates keeps a new surrogate.
GiveAddress(a) ==
  LET ip == map_scion_to_ipv6(a) IN
  /\ given' = given \cup {[ip |-> ip, a |-> a]}
  /\ IF ip.k = "surrogate" /\ surrogateOf[a] = None
       THEN /\ addressOf' = [addressOf EXCEPT ![ip.ip] = a]
            /\ surrogateOf' = [surrogateOf EXCEPT ![a] = ip.ip]
       ELSE UNCHANGED <<addressOf, surrogateOf>>

KeepAddresses == UNCHANGED <<addressOf, surrogateOf, given>>

-----------------------------------------------------------------------------
(* Native sockets.                                                         *)

Closed == [fam |-> None, type |-> None, bound |-> None]
get_socket_family(fd) == kernel[fd].fam
get_socket_type(fd) == kernel[fd].type
get_bound_addr(fd) == kernel[fd].bound
IsDatagram(fam, type) == fam \in Families /\ type = "dgram"

\* What the functions of libc do to the native socket (external).
KernelOpen(fd, fam, type) ==
  /\ kernel[fd] = Closed
  /\ kernel' = [kernel EXCEPT ![fd] = [fam |-> fam, type |-> type, bound |-> "none"]]
KernelClose(fd) ==
  /\ kernel' = [kernel EXCEPT ![fd] = Closed]
  /\ inbox' = [inbox EXCEPT ![fd] = None]
Libc(op, fd) ==
  \/ /\ op = "close" /\ KernelClose(fd)
  \/ /\ op \in {"bind", "connect"} /\ kernel[fd] # Closed
     /\ \E b \in {"any", "host"} :
          kernel' = [kernel EXCEPT ![fd].bound = IF @ = "none" THEN b ELSE @]
     /\ UNCHANGED inbox
  \/ /\ op \in {"bind", "connect"} => kernel[fd] = Closed
     /\ op # "close"
     /\ UNCHANGED <<kernel, inbox>>

NewSocket(fam, handlers) ==
  [family |-> fam, local |-> None, remote |-> None, lastDest |-> None,
   headerCache |-> None, lastSelected |-> None, handlers |-> handlers]

Promoted(fd) == sockets[fd] # None

-----------------------------------------------------------------------------
(* The path cache and the built-in path selector.                          *)

\* Path objects referred to outside of the cache.
Referenced ==
  {p \in PathObjects :
     \/ \E fd \in Fds : sockets[fd] # None /\ sockets[fd].lastDest # None
                        /\ sockets[fd].lastDest.path = p
     \/ \E t \in Threads : th[t].path = p}

\* SharedPathCache::lookup() may query the daemon first, which replaces the
\* path objects in the cache: each path comes back as a new object, or not at
\* all, unless the query fails.
Unreferenced(d) == {g \in Gens : g # cached[d] /\ [dig |-> d, gen |-> g] \notin Referenced}
queryPaths ==
  {c \in [Digests -> Gens \cup {None}] : \A d \in Digests : c[d] \in Unreferenced(d) \cup {None}}

AfterQuery(c) ==
  [p \in PathObjects |-> IF c[p.dig] = p.gen THEN "good" ELSE object[p]]

\* What lookup() leaves in the cache: [cached, object].
lookup ==
  {[cached |-> cached, object |-> object]}
  \cup {[cached |-> c, object |-> AfterQuery(c)] : c \in queryPaths}

Available(l, d) == l.cached[d] # None /\ l.object[[dig |-> d, gen |-> l.cached[d]]] # "expired"
Broken(l, d) == l.object[[dig |-> d, gen |-> l.cached[d]]] = "broken"
Usable(l, d) == Available(l, d) /\ ~Broken(l, d)

scion_sel_select_cached(p) == object[p] = "good"

\* The best path that works.
Working(l) == {i \in 1 .. Len(Order) : Usable(l, Order[i])}
First(l) == Order[CHOOSE i \in Working(l) : \A j \in Working(l) : i <= j]

\* Fault: the selector always takes the first path that works.
scion_sel_select_First(s, l) == IF Working(l) = {} THEN None ELSE First(l)

\* scion_sel_select(): the path selected last if it is available and working,
\* else the first that works.  The state for passive sockets is never used:
\* nothing sets isPassive.
scion_sel_select(s, l) ==
  IF s.lastSelected # None /\ Usable(l, s.lastSelected) THEN s.lastSelected
  ELSE IF Working(l) = {} THEN None ELSE First(l)

scion_sel_notify_connect(s) == [s EXCEPT !.lastSelected = None]

-----------------------------------------------------------------------------
(* The wrappers of libc_interposer.c.                                      *)

Call(t, op, fd, arg, n) ==
  /\ th[t].pc = "idle" /\ calls < MaxCalls
  /\ calls' = calls + 1
  /\ IF Intercepted
       THEN /\ th' = [th EXCEPT ![t] = [Idle EXCEPT !.pc = op, !.fd = fd, !.arg = arg, !.n = n]]
            /\ UNCHANGED <<kernel, inbox>>
       ELSE Libc(op, fd) /\ UNCHANGED th
  /\ UNCHANGED <<sockets, addressOf, surrogateOf, cp, cached, object, disabled, given, last,
                 events>>

\* Socket addresses an application has: those it was given, SCION addresses it
\* knows, and IP addresses.
KnownSockAddrs ==
  [k : {"scion"}, a : Addrs] \cup {[k |-> "in6", ip |-> g.ip] : g \in given} \cup {[k |-> "ip"]}

CallResolve(t) ==
  \E op \in {"getaddrinfo", "inet_pton"}, a \in Addrs : Call(t, op, None, a, 1)

CallSocket(t) ==
  \E fam \in Families \cup {"scion"}, type \in {"dgram", "stream"} :
    Call(t, "socket", None, [fam |-> fam, type |-> type], 1)

CallOption(t) == \E fd \in Fds : Call(t, "sockopt", fd, None, 1)

CallBindConnect(t) ==
  \E fd \in Fds :
    \/ \E sa \in KnownSockAddrs \cup {[k |-> "scion", a |-> Own]} : Call(t, "bind", fd, sa, 1)
    \/ \E sa \in KnownSockAddrs : Call(t, "connect", fd, sa, 1)

CallName(t) ==
  \E fd \in Fds, op \in {"getpeername", "getsockname"} : Call(t, op, fd, None, 1)

CallRecv(t) ==
  \E fd \in Fds, name \in {"addr", "noaddr"} : Call(t, "recv", fd, name, 1)

CallSend(t) ==
  \E fd \in Fds, sa \in KnownSockAddrs \cup {[k |-> "null"]} : Call(t, "send", fd, sa, 1)

\* read(), write() and send() have no address; like sendmmsg(), the last two
\* do not promote the socket.
CallReadWrite(t) ==
  \E fd \in Fds : \/ Call(t, "recv", fd, "noaddr", 1)
                  \/ Call(t, "sendmmsg", fd, [k |-> "null"], 1)

CallMany(t) ==
  \E fd \in Fds, n \in 1 .. MaxBatch :
    \/ Call(t, "recv", fd, "addr", n)
    \/ \E sa \in KnownSockAddrs : Call(t, "sendmmsg", fd, sa, n)

CallClose(t) == \E fd \in Fds : Call(t, "close", fd, None, 1)

-----------------------------------------------------------------------------
(* Handlers: initialisation and address resolution.                        *)

\* Interposer::cp() connects to the SCION daemon, under a mutex of its own, the
\* first time a handler needs it; it does not try again.
NeedsCp == {"getaddrinfo", "bind", "connect", "send", "recv.wait", "send.select"}
ConnectCp(t) ==
  /\ cp = "none" /\ th[t].pc \in NeedsCp
  /\ cp' \in {"up", "down"}
  /\ UNCHANGED <<th, kernel, inbox, sockets, addressOf, surrogateOf, cached, object,
                 disabled, given, last>>

\* getaddrinfo() returns the addresses of the name: those of SCION first, as
\* AF_SCION or IPv6 addresses, if the control plane is connected.
Getaddrinfo(t) ==
  /\ th[t].pc = "getaddrinfo" /\ cp # "none"
  /\ \/ cp = "up" /\ GiveAddress(th[t].arg)
     \/ KeepAddresses
  /\ Return(t)
  /\ UNCHANGED <<kernel, inbox, sockets, cp, cached, object, disabled, last>>

\* inet_pton(AF_INET6) of a SCION address.
InetPton(t) ==
  /\ th[t].pc = "inet_pton"
  /\ GiveAddress(th[t].arg) /\ Return(t)
  /\ UNCHANGED <<kernel, inbox, sockets, cp, cached, object, disabled, last>>

-----------------------------------------------------------------------------
(* Handlers: lifecycle of sockets.                                         *)

\* make_scion_socket(): only datagram sockets; the new native socket is closed
\* again if it cannot be used with IPv4, or if the table still has a socket
\* with this descriptor.
make_scion_socket(t, type) ==
  IF type # "dgram" THEN UNCHANGED <<kernel, sockets>>
  ELSE \E fd \in Fds :
         /\ sockets[fd] = None
         /\ \/ /\ KernelOpen(fd, "inet6", "dgram")
               /\ sockets' = [sockets EXCEPT ![fd] = NewSocket("scion", TRUE)]
            \/ UNCHANGED <<kernel, sockets>>

SocketHandler(t) ==
  LET arg == th[t].arg IN
  /\ th[t].pc = "socket"
  /\ IF arg.fam = "scion"
       THEN Exclusive /\ make_scion_socket(t, arg.type)
       ELSE /\ \/ \E fd \in Fds : KernelOpen(fd, arg.fam, arg.type)
               \/ UNCHANGED kernel
            /\ UNCHANGED sockets
  /\ Return(t)
  /\ UNCHANGED <<inbox, addressOf, surrogateOf, cp, cached, object, disabled, given, last>>

\* promote_to_scion(): the socket must be a datagram socket, and an unbound
\* IPv6 socket must accept IPv4.  The SCMP handlers are set on the object that
\* has been moved from: a promoted socket has none.
CanPromote(fd) == IsDatagram(get_socket_family(fd), get_socket_type(fd))
promote_to_scion(fd, fam) == NewSocket(fam, FALSE)

\* bind_default_scion(): results in the socket with its local address, which
\* is None if that fails.  A native socket that is bound already keeps its
\* address, unless it is bound to all addresses.
bind_default_scion(fd, s) ==
  LET bound == get_bound_addr(fd) IN
  IF bound # "none"
    THEN {[s |-> [s EXCEPT !.local = IF bound = "host" THEN Own ELSE @], bound |-> bound]}
    ELSE {[s |-> [s EXCEPT !.local = Own], bound |-> "host"], [s |-> s, bound |-> "none"]}

\* The call is passed to libc without any lock.
PassOn(t, op) == th' = [th EXCEPT ![t].pc = "libc", ![t].arg = op]

LibcCall(t) ==
  /\ th[t].pc = "libc"
  /\ Libc(th[t].arg, th[t].fd)
  /\ Return(t)
  /\ UNCHANGED <<sockets, addressOf, surrogateOf, cp, cached, object, disabled, given, last>>

\* bind() and connect() look at the family of the socket before they take the
\* lock.
CheckFamily(t, op, next) ==
  LET fd == th[t].fd IN
  /\ th[t].pc = op /\ cp # "none"
  /\ IF cp = "up" /\ IsDatagram(get_socket_family(fd), get_socket_type(fd))
       THEN th' = [th EXCEPT ![t].pc = next, ![t].fam = get_socket_family(fd)]
       ELSE PassOn(t, op)
  /\ UNCHANGED <<kernel, inbox, sockets, addressOf, surrogateOf, cp, cached, object, disabled, given, last>>

BindCheck(t) == CheckFamily(t, "bind", "bind.lock")
ConnectCheck(t) == CheckFamily(t, "connect", "connect.lock")

\* interposer_bind() with the lock: a SCION socket is bound to a SCION address
\* only; another socket is promoted if the address is one of SCION, and stays
\* promoted if it cannot be bound.
BindLocked(t) ==
  LET fd == th[t].fd
      sa == th[t].arg
      to == sockaddr_to_scion(sa)
      s  == IF Promoted(fd) THEN sockets[fd] ELSE promote_to_scion(fd, th[t].fam) IN
  /\ th[t].pc = "bind.lock" /\ Exclusive
  /\ \/ /\ ~Promoted(fd) /\ to = None
        /\ PassOn(t, "bind") /\ UNCHANGED <<sockets, kernel>>
     \/ /\ \/ Promoted(fd) /\ sa.k # "scion"
           \/ ~Promoted(fd) /\ to # None /\ ~CanPromote(fd)
        /\ Return(t) /\ UNCHANGED <<sockets, kernel>>
     \/ /\ IF Promoted(fd) THEN sa.k = "scion" ELSE to # None /\ CanPromote(fd)
        /\ \/ /\ to = Own /\ kernel[fd].bound = "none"
              /\ sockets' = [sockets EXCEPT ![fd] = [s EXCEPT !.local = Own, !.lastDest = None]]
              /\ kernel' = [kernel EXCEPT ![fd].bound = "host"]
           \/ sockets' = [sockets EXCEPT ![fd] = s] /\ UNCHANGED kernel
        /\ Return(t)
  /\ UNCHANGED <<inbox, addressOf, surrogateOf, cp, cached, object, disabled, given, last>>

\* interposer_connect() with the lock.  A socket without a local address gets
\* one; if that fails, the socket stays promoted and unconnected.
ConnectLocked(t) ==
  LET fd == th[t].fd
      to == sockaddr_to_scion(th[t].arg)
      s  == IF Promoted(fd) THEN sockets[fd] ELSE promote_to_scion(fd, th[t].fam)
      Connected(x) == scion_sel_notify_connect([x EXCEPT !.remote = to, !.lastDest = None]) IN
  /\ th[t].pc = "connect.lock" /\ Exclusive
  /\ \/ /\ ~Promoted(fd) /\ to = None
        /\ PassOn(t, "connect") /\ UNCHANGED <<sockets, kernel, last>>
     \/ /\ \/ Promoted(fd) /\ to = None
           \/ ~Promoted(fd) /\ to # None /\ ~CanPromote(fd)
        /\ Return(t) /\ UNCHANGED <<sockets, kernel, last>>
     \/ /\ to # None /\ (Promoted(fd) \/ CanPromote(fd))
        /\ \E b \in IF s.local # None THEN {[s |-> s, bound |-> kernel[fd].bound]}
                                      ELSE bind_default_scion(fd, s) :
             /\ kernel' = [kernel EXCEPT ![fd].bound = b.bound]
             /\ IF b.s.local = None
                  THEN sockets' = [sockets EXCEPT ![fd] = b.s] /\ UNCHANGED last
                  ELSE /\ sockets' = [sockets EXCEPT ![fd] = Connected(b.s)]
                       /\ last' = [last EXCEPT ![fd] = None]
        /\ Return(t)
  /\ UNCHANGED <<inbox, addressOf, surrogateOf, cp, cached, object, disabled, given>>

\* Fault: close() shares the lock.
CloseHandler_Shared(t) ==
  LET fd == th[t].fd IN
  /\ th[t].pc = "close"
  /\ sockets' = [sockets EXCEPT ![fd] = None]
  /\ last' = [last EXCEPT ![fd] = None]
  /\ KernelClose(fd) /\ Return(t)
  /\ UNCHANGED <<addressOf, surrogateOf, cp, cached, object, disabled, given>>

\* The destructor of a SCION socket closes the native socket, with the lock.
CloseHandler(t) ==
  LET fd == th[t].fd IN
  /\ th[t].pc = "close" /\ Exclusive
  /\ \/ /\ Promoted(fd)
        /\ sockets' = [sockets EXCEPT ![fd] = None]
        /\ last' = [last EXCEPT ![fd] = None]
        /\ KernelClose(fd) /\ Return(t)
     \/ /\ ~Promoted(fd)
        /\ PassOn(t, "close") /\ UNCHANGED <<sockets, kernel, inbox, last>>
  /\ UNCHANGED <<addressOf, surrogateOf, cp, cached, object, disabled, given>>

stop_interposer == disabled' = TRUE

\* The static Interposer object is destroyed when a thread calls exit(), no
\* matter what other threads do; its sockets are closed.
Exit(t) ==
  LET open == {fd \in Fds : Promoted(fd)} IN
  /\ th[t].pc = "idle" /\ ~disabled
  /\ stop_interposer
  /\ sockets' = [fd \in Fds |-> None]
  /\ kernel' = [fd \in Fds |-> IF fd \in open THEN Closed ELSE kernel[fd]]
  /\ inbox' = [fd \in Fds |-> IF fd \in open THEN None ELSE inbox[fd]]
  /\ last' = [fd \in Fds |-> None]
  /\ UNCHANGED <<th, addressOf, surrogateOf, cp, cached, object, given>>

-----------------------------------------------------------------------------
(* Handlers: options and names.                                            *)

\* getsockopt() and setsockopt() wait for the mutex of the socket and change
\* nothing here: the MTU comes from the path MTU discovery.
OptionHandler(t) ==
  /\ th[t].pc = "sockopt"
  /\ Promoted(th[t].fd) => MutexFree(th[t].fd)
  /\ Return(t)
  /\ UNCHANGED <<kernel, inbox, sockets, addressOf, surrogateOf, cp, cached, object,
                 disabled, given, last>>

\* AF_SCION sockets return SCION addresses, promoted sockets IPv6 addresses.
NameOf(t, op, ep) ==
  LET fd == th[t].fd IN
  /\ th[t].pc = op
  /\ Promoted(fd) => MutexFree(fd)
  /\ IF Promoted(fd) /\ ep # None /\ sockets[fd].family # "scion"
       THEN GiveAddress(ep) ELSE KeepAddresses
  /\ Return(t)
  /\ UNCHANGED <<kernel, inbox, sockets, cp, cached, object, disabled, last>>

Getpeername(t) ==
  NameOf(t, "getpeername", IF Promoted(th[t].fd) THEN sockets[th[t].fd].remote ELSE None)
Getsockname(t) ==
  NameOf(t, "getsockname", IF Promoted(th[t].fd) THEN sockets[th[t].fd].local ELSE None)

-----------------------------------------------------------------------------
(* Handlers: receiving.                                                    *)

\* interposer_recv(), recvfrom(), recvmsg(), recvmmsg() and read(): look up the
\* socket with the shared lock; flags that are not supported end the call.
RecvEnter(t) ==
  /\ th[t].pc = "recv"
  /\ \/ Promoted(th[t].fd) /\ Go(t, "recv.lock")
     \/ Return(t)
  /\ UNCHANGED <<kernel, inbox, sockets, addressOf, surrogateOf, cp, cached, object,
                 disabled, given, last>>

RecvLock(t) ==
  /\ th[t].pc = "recv.lock" /\ MutexFree(th[t].fd)
  /\ Go(t, "recv.wait")
  /\ UNCHANGED <<kernel, inbox, sockets, addressOf, surrogateOf, cp, cached, object,
                 disabled, given, last>>

\* The next message of recvmmsg(), or the end of the call.
NextMessage(t, again) ==
  th' = [th EXCEPT ![t] = IF th[t].n > 1
                            THEN [th[t] EXCEPT !.pc = again, !.n = @ - 1, !.path = None]
                            ELSE Idle]

\* PathCache::handleScmpCallback() marks the path objects in the cache.
ScmpBreaks(d) ==
  IF cached[d] # None
    THEN object' = [object EXCEPT ![[dig |-> d, gen |-> cached[d]]] =
                      IF @ = "good" THEN "broken" ELSE @]
    ELSE UNCHANGED object

\* The history of the path that was selected last for a socket.
StillUsable(newObject, newCached) ==
  [fd \in Fds |->
     IF last[fd] = None THEN None
     ELSE [last[fd] EXCEPT !.ok =
             @ /\ newCached[last[fd].dig] # None
               /\ newObject[[dig |-> last[fd].dig, gen |-> newCached[last[fd].dig]]] = "good"]]

\* recv_dgram_impl(): blocks in the native socket with all locks held.  A
\* packet with data ends the call and its source address is returned; an SCMP
\* error is passed to the handlers of the socket and the call goes on.
RecvData(t) ==
  LET fd == th[t].fd
      pkt == inbox[fd] IN
  /\ th[t].pc = "recv.wait" /\ pkt # None /\ pkt.k = "data"
  /\ sockets[fd] # None
  /\ inbox' = [inbox EXCEPT ![fd] = None]
  /\ IF th[t].arg = "addr" /\ sockets[fd].family # "scion"
       THEN GiveAddress(pkt.from) ELSE KeepAddresses
  /\ NextMessage(t, "recv.lock")
  /\ UNCHANGED <<kernel, sockets, cp, cached, object, disabled, last>>

RecvScmp(t) ==
  LET fd == th[t].fd
      pkt == inbox[fd] IN
  /\ th[t].pc = "recv.wait" /\ pkt # None /\ pkt.k = "scmp"
  /\ sockets[fd] # None
  /\ inbox' = [inbox EXCEPT ![fd] = None]
  /\ IF sockets[fd].handlers THEN ScmpBreaks(pkt.dig) ELSE UNCHANGED object
  /\ last' = StillUsable(object', cached)
  /\ UNCHANGED <<th, kernel, sockets, addressOf, surrogateOf, cp, cached, disabled, given>>

\* The native socket returns an error: nothing to receive without blocking, or
\* the socket is closed.
RecvFails(t) ==
  /\ th[t].pc = "recv.wait" /\ inbox[th[t].fd] = None
  /\ Return(t)
  /\ UNCHANGED <<kernel, inbox, sockets, addressOf, surrogateOf, cp, cached, object,
                 disabled, given, last, calls, events>>

-----------------------------------------------------------------------------
(* Handlers: sending.                                                      *)

\* interposer_sendto() and sendmsg() release the shared lock to promote the
\* socket; send(), write() and sendmmsg() do not promote.  The address is read
\* to find out whether it is one of SCION, also if it is a null pointer: the
\* process crashes, though others of its threads may come some steps further.
SendEnter(t) ==
  LET fd == th[t].fd
      sa == th[t].arg
      datagram == IsDatagram(get_socket_family(fd), get_socket_type(fd))
      mayPromote == AllowPromote /\ th[t].pc = "send" IN
  /\ th[t].pc \in {"send", "sendmmsg"}
  /\ \/ Promoted(fd) /\ Go(t, "send.lock")
     \/ Promoted(fd) /\ Return(t)
     \/ /\ ~Promoted(fd) /\ mayPromote /\ cp = "up" /\ datagram
        /\ \/ sa.k = "null" /\ Go(t, "crash")
           \/ /\ sa.k # "null" /\ sockaddr_to_scion(sa) # None
              /\ th' = [th EXCEPT ![t].pc = "promote", ![t].fam = get_socket_family(fd)]
     \/ /\ ~Promoted(fd)
        /\ mayPromote => \/ cp = "down"
                         \/ cp = "up" /\ ~datagram
                         \/ cp = "up" /\ sa.k # "null" /\ sockaddr_to_scion(sa) = None
        /\ Return(t)
  /\ UNCHANGED <<kernel, inbox, sockets, addressOf, surrogateOf, cp, cached, object,
                 disabled, given, last>>

\* promote_on_sendto(), followed by the call itself once more.
PromoteOnSendto(t) ==
  LET fd == th[t].fd IN
  /\ th[t].pc = "promote" /\ Exclusive
  /\ \/ Promoted(fd) /\ Go(t, "send") /\ UNCHANGED <<sockets, kernel>>
     \/ ~Promoted(fd) /\ ~CanPromote(fd) /\ Return(t) /\ UNCHANGED <<sockets, kernel>>
     \/ /\ ~Promoted(fd) /\ CanPromote(fd)
        /\ \E b \in bind_default_scion(fd, promote_to_scion(fd, th[t].fam)) :
             /\ sockets' = [sockets EXCEPT ![fd] = b.s]
             /\ kernel' = [kernel EXCEPT ![fd].bound = b.bound]
             /\ IF b.s.local = None THEN Return(t) ELSE Go(t, "send")
  /\ UNCHANGED <<inbox, addressOf, surrogateOf, cp, cached, object, disabled, given, last>>

SendLock(t) ==
  /\ th[t].pc = "send.lock" /\ MutexFree(th[t].fd)
  /\ Go(t, "send.select")
  /\ UNCHANGED <<kernel, inbox, sockets, addressOf, surrogateOf, cp, cached, object,
                 disabled, given, last>>

\* send_dgram_get_dest(): None if there is no destination.
send_dgram_get_dest(s, sa) == IF sa.k = "null" THEN s.remote ELSE sockaddr_to_scion(sa)

UsesCache(s, ep) ==
  /\ s.lastDest # None /\ s.lastDest.dst = ep
  /\ scion_sel_select_cached(s.lastDest.path)

\* First half of send_dgram_impl(): the cached path, or one that the selector
\* picks from the path cache (which may query the daemon meanwhile).
SendSelect(t) ==
  LET fd == th[t].fd
      s  == sockets[fd]
      ep == send_dgram_get_dest(s, th[t].arg) IN
  /\ th[t].pc = "send.select" /\ s # None
  /\ \/ ep = None /\ Return(t) /\ UNCHANGED <<sockets, cached, object, last>>
     \/ /\ ep # None /\ UsesCache(s, ep)
        /\ th' = [th EXCEPT ![t].pc = "send.pack", ![t].path = s.lastDest.path]
        /\ UNCHANGED <<sockets, cached, object, last>>
     \/ /\ ep # None /\ ~UsesCache(s, ep) /\ cp # "none"
        /\ \E l \in lookup :
             LET d == scion_sel_select(s, l) IN
             /\ cached' = l.cached /\ object' = l.object
             /\ IF d = None THEN Return(t) /\ UNCHANGED sockets
                                 /\ last' = StillUsable(object', cached')
                ELSE /\ last' = [StillUsable(object', cached') EXCEPT
                                   ![fd] = [dig |-> d, ok |-> TRUE]]
                     /\ th' = [th EXCEPT ![t].pc = "send.pack",
                                         ![t].path = [dig |-> d, gen |-> l.cached[d]]]
                     /\ sockets' = [sockets EXCEPT ![fd].lastSelected = d]
  /\ UNCHANGED <<kernel, inbox, addressOf, surrogateOf, cp, disabled, given>>

\* Whether the headers in the cache are used again, or built from scratch: as
\* decided in the first half, which is the only one to read lastDest.
Reuses(t) ==
  LET s == sockets[th[t].fd] IN
  /\ s.lastDest # None /\ s.lastDest.path = th[t].path
  /\ s.lastDest.dst = send_dgram_get_dest(s, th[t].arg)

\* Fault: a failure to send leaves the old destination in place.
AfterSendTo_KeepsDest(s, ep, path, sent) ==
  [s EXCEPT !.headerCache = IF s.local = None THEN @ ELSE [dst |-> ep, path |-> path],
            !.lastDest = IF sent THEN [dst |-> ep, path |-> path] ELSE @]

\* The socket after sendTo(): the headers are built unless the local address is
\* missing, and the destination is remembered if the packet was sent.
AfterSendTo(s, ep, path, sent) ==
  [s EXCEPT !.headerCache = IF s.local = None THEN @ ELSE [dst |-> ep, path |-> path],
            !.lastDest = IF sent THEN [dst |-> ep, path |-> path] ELSE None]

\* Second half of send_dgram_impl(): gives up if the packet is larger than the
\* path MTU, sends it otherwise.
SendPack(t) ==
  LET fd == th[t].fd
      s  == sockets[fd]
      ep == send_dgram_get_dest(s, th[t].arg)
      path == th[t].path IN
  /\ th[t].pc = "send.pack" /\ s # None
  /\ \/ Return(t) /\ UNCHANGED sockets
     \/ \E sent \in BOOLEAN :
          /\ sent => s.local # None /\ kernel[fd] # Closed
          /\ sockets' = IF Reuses(t) THEN sockets
                        ELSE [sockets EXCEPT ![fd] = AfterSendTo(s, ep, path, sent)]
          /\ IF sent THEN NextMessage(t, "send.lock") ELSE Return(t)
  /\ UNCHANGED <<kernel, inbox, addressOf, surrogateOf, cp, cached, object, disabled, given,
                 last>>

-----------------------------------------------------------------------------
(* The environment.                                                        *)

\* A packet arrives at a native socket, from any SCION host or from a router.
Arrive(fd) ==
  /\ kernel[fd].bound \notin {None, "none"} /\ inbox[fd] = None
  /\ \/ \E a \in Addrs : inbox' = [inbox EXCEPT ![fd] = [k |-> "data", from |-> a]]
     \/ \E d \in Digests : inbox' = [inbox EXCEPT ![fd] = [k |-> "scmp", dig |-> d]]
  /\ UNCHANGED <<th, kernel, sockets, addressOf, surrogateOf, cp, cached, object, disabled,
                 given, last>>

ExpirePath(p) ==
  /\ object[p] # "expired" /\ (p \in Referenced \/ cached[p.dig] = p.gen)
  /\ object' = [object EXCEPT ![p] = "expired"]
  /\ last' = StillUsable(object', cached)
  /\ UNCHANGED <<th, kernel, inbox, sockets, addressOf, surrogateOf, cp, cached, disabled, given>>

Init ==
  /\ th = [t \in Threads |-> Idle]
  /\ kernel = [fd \in Fds |-> Closed] /\ inbox = [fd \in Fds |-> None]
  /\ sockets = [fd \in Fds |-> None]
  /\ addressOf = [ip \in SurrogateIps |-> ConfiguredAddress(ip)]
  /\ surrogateOf = [a \in Hosts |-> ConfiguredSurrogate(a)]
  /\ cp = "none"
  /\ cached = [d \in Digests |-> None]
  /\ object = [p \in PathObjects |-> "expired"]
  /\ disabled = FALSE /\ given = {} /\ last = [fd \in Fds |-> None]
  /\ calls = 0 /\ events = 0

Wrapper(t) ==
  \/ CallResolve(t) \/ CallSocket(t) \/ CallOption(t) \/ CallBindConnect(t) \/ CallName(t)
  \/ CallRecv(t) \/ CallSend(t) \/ CallReadWrite(t) \/ CallMany(t) \/ CallClose(t)

Handler(t) ==
  /\ \/ ConnectCp(t) \/ Getaddrinfo(t) \/ InetPton(t) \/ SocketHandler(t)
     \/ BindCheck(t) \/ ConnectCheck(t) \/ BindLocked(t) \/ ConnectLocked(t)
     \/ CloseHandler(t) \/ LibcCall(t) \/ Exit(t) \/ OptionHandler(t) \/ Getpeername(t) \/ Getsockname(t)
     \/ RecvEnter(t) \/ RecvLock(t) \/ RecvData(t) \/ RecvScmp(t) \/ RecvFails(t)
     \/ SendEnter(t) \/ PromoteOnSendto(t) \/ SendLock(t) \/ SendSelect(t) \/ SendPack(t)
  /\ UNCHANGED <<calls, events>>

Environment ==
  /\ events < MaxEvents /\ events' = events + 1
  /\ \/ \E fd \in Fds : Arrive(fd)
     \/ \E p \in PathObjects : ExpirePath(p)
  /\ UNCHANGED calls

Next == (\E t \in Threads : Wrapper(t) \/ Handler(t)) \/ Environment

Spec == Init /\ [][Next]_vars
-----------------------------------------------------------------------------
(* Properties.                                                             *)

(***************************************************************************)
(* lastDest is the "Destination for which headerCache still holds a valid  *)
(* header": whatever the threads that share a socket do, and whichever of  *)
(* their sends fail, the headers in the cache are those for the remembered *)
(* destination and path, and are used for no other.                        *)
(***************************************************************************)
CachedHeaderValid ==
  \A fd \in Fds :
    sockets[fd] # None /\ sockets[fd].lastDest # None =>
      /\ sockets[fd].headerCache = sockets[fd].lastDest
      /\ sockets[fd].local # None

(***************************************************************************)
(* A handler that has found a socket in the table works on an object that  *)
(* stays there until the handler is done with it, and no two of them use   *)
(* it at the same time, even though other threads close, promote and open  *)
(* sockets with the same descriptor, also while a call for it is on its    *)
(* way to libc.  (Unless the process exits.)                               *)
(***************************************************************************)
SocketOutlivesCall ==
  ~disabled =>
    \A t \in Threads :
      /\ th[t].pc \in Referring => sockets[th[t].fd] # None
      /\ th[t].pc \in Holding =>
           \A u \in Threads \ {t} : ~(th[u].pc \in Holding /\ th[u].fd = th[t].fd)

(***************************************************************************)
(* An IPv6 address that the interposer has given to the application in the *)
(* place of a SCION address stands for that address from then on: sending  *)
(* to the source of a packet answers the host that sent it, also if the    *)
(* hashes of two addresses collide.                                        *)
(***************************************************************************)
GivenAddressResolves == \A g \in given : in6_to_scion(g.ip) = g.a

(***************************************************************************)
(* "Repeat the last selection if the path is still available": if the path *)
(* selected last for a socket has been available and working ever since,   *)
(* and connect() was not called, the next selection takes it too, whatever *)
(* better paths have come back and whichever headers were used again.      *)
(***************************************************************************)
StickyPath ==
  [][\A t \in Threads :
       th[t].pc = "send.select" /\ th'[t].pc = "send.pack" =>
         LET l == StillUsable(object', cached')[th[t].fd]
         IN l # None /\ l.ok => last'[th[t].fd].dig = l.dig]_vars

-----------------------------------------------------------------------------
(* Statements that the code does not keep.                                 *)

(***************************************************************************)
(* The native socket of a SCION socket is open.  close() of a socket that  *)
(* is not one of SCION releases the lock before it calls libc: if another  *)
(* thread promotes the socket in between, its entry in the table survives. *)
(***************************************************************************)
PromotedIsOpen == \A fd \in Fds : sockets[fd] # None => kernel[fd] # Closed

(***************************************************************************)
(* sendto() and sendmsg() without an address, as of a connected socket, do *)
(* not crash: see SendEnter.                                               *)
(***************************************************************************)
NoNullPointerRead == \A t \in Threads : th[t].pc # "crash"
=============================================================================
