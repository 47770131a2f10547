----------------------------- MODULE CInterface -----------------------------
(***************************************************************************)
(* The C interface (src/scion_c/scion.cpp) and the Asio sockets below it   *)
(* (include/scion/asio): a host context with its event loop, a socket, a   *)
(* header cache, paths with reference counts, and asynchronous operations  *)
(* whose handlers the event loop calls.                                    *)
(*                                                                         *)
(* The application keeps the rules of include/scion/scion.h: it leaves a   *)
(* header cache alone until the handler of a send is called, closes its    *)
(* sockets before it deletes the context and releases a path only once.    *)
(* It may close a socket while operations are under way.                   *)
(*                                                                         *)
(* Asio (external) tries an operation at once and, if it would block, lets *)
(* the event loop repeat it when the socket is ready.  A finished operation*)
(* waits in the queue of the event loop until its handler is called;       *)
(* cancelling no longer affects it then.                                   *)
(***************************************************************************)
EXTENDS HeaderCache, FiniteSets, FiniteSetsExt

CONSTANTS
  Ops,          \* asynchronous operations, each used once
  Paths,        \* path objects, each allocated once
  Dests,        \* destination endpoints
  BindAS,       \* ISD-ASNs to bind to, 0 if unspecified
  Ports,        \* ports to bind to
  External,     \* the endpoint STUN responses report
  RawPaths,     \* raw paths [firstAS, size, isEmpty]
  PathData,     \* the same of the paths the daemon returns
  Payloads,     \* payloads [size, sum]
  MaxInbox,     \* bound on the queue of the underlay socket
  MaxPackets,   \* bound on the packets received in a behaviour
  MaxCalls,     \* bound on the calls of the application, restarts of the loop excepted
  MaxHeld,      \* bound on the references the application holds to a path
  None          \* no context, no socket, no header cache, no packet

Endpoint == [as : Nat, host : Nat, port : Nat]
RawPath == [firstAS : Nat, size : Nat, isEmpty : BOOLEAN]
Socket == [open : BOOLEAN, local : Endpoint, mapped : Endpoint, remote : Endpoint,
           expects : BOOLEAN]

\* Headers of UDP packets without extensions, as the header cache keeps them.
UdpHeader == [proto : {UDP}, sport : Nat, dport : Nat]
FlowLabel == Nat \X Nat \X Nat \X Nat \X (Nat \X Nat \X Nat)
UdpCache == [empty : {FALSE}, to : Endpoint, from : Endpoint, path : RawPath, nh : {UDP},
             plen : Nat, fl : FlowLabel, options : {<< >>}, l4 : UdpHeader, length : Nat,
             chksum : Nat, scionHdrChksum : Nat, payloadSize : Nat]

ASSUME CInterfaceAssumption ==
  /\ Dests \subseteq Endpoint /\ External \in Endpoint
  /\ BindAS \subseteq Nat /\ Ports \subseteq Nat
  /\ RawPaths \subseteq RawPath /\ PathData \in RawPath
  /\ Payloads \subseteq [size : Nat, sum : Nat]
  /\ None \notin Socket \cup {EmptyCache} \cup UdpCache

VARIABLES
  ctx,          \* scion_context: [daemon, callback, stopped]
  sock,         \* scion_socket: [open, local, mapped, remote, expects]
  hdr,          \* scion_hdr_cache
  op,           \* operations: [kind, st, result, gone, payload]
  calls,        \* how often the handler of an operation has been called
  recvq,        \* receive operations the event loop has to repeat, in order
  inbox,        \* packets in the receive queue of the underlay socket
  arrived,      \* packets received so far
  wire,         \* the packet the latest step has sent, or None
  mem,          \* path objects: [refs, held, cached]
  left,         \* calls the application may still make
  dead          \* undefined behaviour: null pointer or freed memory used

vars == <<ctx, sock, hdr, op, calls, recvq, inbox, arrived, wire, mem, left, dead>>

Kinds == {"send", "stun", "recv", "recv_stun", "resolve", "wait"}
SocketKinds == {"send", "stun", "recv", "recv_stun"}
States == {"unused", "pending", "ready", "done", "dropped"}
Inputs == {"data", "scmp", "stun", "bad"}
Results == Inputs \cup {"ok", "error", "none"}

Unused == [kind |-> "none", st |-> "unused", result |-> "none", gone |-> FALSE, payload |-> None]

NewSocket == [open |-> FALSE, local |-> Unspecified, mapped |-> Unspecified,
              remote |-> Unspecified, expects |-> FALSE]

Init ==
  /\ ctx = None /\ sock = None /\ hdr = None
  /\ op = [o \in Ops |-> Unused] /\ calls = [o \in Ops |-> 0]
  /\ recvq = << >> /\ inbox = << >> /\ arrived = 0 /\ wire = None
  /\ mem = [refs |-> [p \in Paths |-> 0], held |-> [p \in Paths |-> 0], cached |-> {}]
  /\ left = MaxCalls /\ dead = FALSE

InFlight(o) == op[o].st \in {"pending", "ready"}

Running == ctx # None /\ ~dead
HasSocket == Running /\ sock # None

\* The header cache may not be touched while a send refers to it.
HdrIdle == \A o \in Ops : InFlight(o) => op[o].kind # "send"

-----------------------------------------------------------------------------
(***************************************************************************)
(* Host context.                                                           *)
(***************************************************************************)
\* Every step that may fail leaves no context: the RPCs to the daemon, if an
\* address is given, and the initialization of the resolver.
scion_create_host_context ==
  /\ ctx = None /\ ~dead
  /\ \E daemon \in BOOLEAN :
       ctx' = [daemon |-> daemon, callback |-> FALSE, stopped |-> FALSE]
  /\ wire' = None /\ UNCHANGED <<sock, hdr, op, calls, recvq, inbox, arrived, mem, dead>>

Release(refs, set) == [p \in Paths |-> IF p \in set THEN refs[p] - 1 ELSE refs[p]]
Acquire(refs, set) == [p \in Paths |-> IF p \in set THEN refs[p] + 1 ELSE refs[p]]

\* The io_context destroys handlers without calling them, the path cache
\* releases its paths.
scion_delete_host_context ==
  /\ Running /\ sock = None
  /\ ctx' = None
  /\ op' = [o \in Ops |-> IF InFlight(o) THEN [op[o] EXCEPT !.st = "dropped"] ELSE op[o]]
  /\ mem' = [mem EXCEPT !.refs = Release(@, mem.cached), !.cached = {}]
  /\ wire' = None /\ UNCHANGED <<sock, hdr, calls, recvq, inbox, arrived, dead>>

scion_set_scmp_handler ==
  /\ Running
  /\ ctx' = [ctx EXCEPT !.callback = ~@]
  /\ wire' = None /\ UNCHANGED <<sock, hdr, op, calls, recvq, inbox, arrived, mem, dead>>

scion_stop ==
  /\ Running /\ ~ctx.stopped
  /\ ctx' = [ctx EXCEPT !.stopped = TRUE]
  /\ wire' = None /\ UNCHANGED <<sock, hdr, op, calls, recvq, inbox, arrived, mem, dead>>

scion_restart ==
  /\ Running /\ ctx.stopped
  /\ ctx' = [ctx EXCEPT !.stopped = FALSE]
  /\ wire' = None /\ UNCHANGED <<sock, hdr, op, calls, recvq, inbox, arrived, mem, dead>>

-----------------------------------------------------------------------------
(***************************************************************************)
(* Paths.  The cache holds one reference to each of its paths; detach()    *)
(* passes the reference of the result's copy to the application.           *)
(***************************************************************************)
\* Fault: get() instead of detach(), the result's copy releases its reference.
Detach_Get(m, set) == [m EXCEPT !.held = Acquire(@, set)]

Detach(m, set) == [m EXCEPT !.refs = Acquire(@, set), !.held = Acquire(@, set)]

\* The cache replaces its paths.  The error of rpcPaths() is ignored: the
\* cache then stores no paths.
Store(m, new) ==
  [m EXCEPT !.refs = Acquire(Release(@, m.cached), new), !.cached = new]

\* refresh is the decision of the path cache (PathCache.tla).  Without a
\* daemon, the query dereferences a null pointer.
scion_query_paths ==
  /\ Running
  /\ \E refresh \in BOOLEAN, n \in 0 .. Cardinality(Paths) :
       IF refresh /\ ~ctx.daemon
       THEN dead' = TRUE /\ UNCHANGED mem
       ELSE \E new \in SUBSET {p \in Paths : mem.refs[p] = 0} :
              LET m == IF refresh THEN Store(mem, new) ELSE mem IN
              \E given \in SUBSET m.cached :
                /\ refresh \/ new = {}
                /\ Cardinality(given) = Min({n, Cardinality(m.cached)})
                /\ \A p \in given : m.held[p] < MaxHeld
                /\ mem' = Detach(m, given)
                /\ UNCHANGED dead
  /\ wire' = None /\ UNCHANGED <<ctx, sock, hdr, op, calls, recvq, inbox, arrived>>

\* Also after the context has been deleted.
scion_release_paths ==
  /\ ~dead
  /\ \E set \in (SUBSET Paths) \ {{}} :
       /\ \A p \in set : mem.held[p] > 0
       /\ mem' = [mem EXCEPT !.refs = Release(@, set), !.held = Release(@, set)]
  /\ wire' = None /\ UNCHANGED <<ctx, sock, hdr, op, calls, recvq, inbox, arrived, dead>>

-----------------------------------------------------------------------------
(***************************************************************************)
(* Header cache and socket.                                                *)
(***************************************************************************)
scion_hdr_cache_allocate ==
  /\ ~dead /\ hdr = None
  /\ hdr' = EmptyCache
  /\ wire' = None /\ UNCHANGED <<ctx, sock, op, calls, recvq, inbox, arrived, mem, dead>>

scion_hdr_cache_free ==
  /\ ~dead /\ hdr # None /\ HdrIdle
  /\ hdr' = None
  /\ wire' = None /\ UNCHANGED <<ctx, sock, op, calls, recvq, inbox, arrived, mem, dead>>

scion_socket_create ==
  /\ Running /\ sock = None
  /\ sock' = NewSocket
  /\ wire' = None /\ UNCHANGED <<ctx, hdr, op, calls, recvq, inbox, arrived, mem, dead>>

\* The socket's pending operations finish with an error.
Abort(kinds) ==
  [o \in Ops |-> IF op[o].st = "pending" /\ op[o].kind \in kinds
                 THEN [op[o] EXCEPT !.st = "ready", !.result = "error"] ELSE op[o]]

\* delete: operations in the queue of the event loop keep references to the
\* socket and the packager.
scion_close ==
  /\ HasSocket
  /\ sock' = None /\ recvq' = << >> /\ inbox' = << >>
  /\ op' = [o \in Ops |-> IF InFlight(o) /\ op[o].kind \in SocketKinds
                          THEN [Abort(SocketKinds)[o] EXCEPT !.gone = TRUE] ELSE op[o]]
  /\ wire' = None /\ UNCHANGED <<ctx, hdr, calls, arrived, mem, dead>>

ByteSwap(port) == (port % 256) * 256 + (port \div 256)

\* scion_bind(): a sockaddr_scion has an ISD-ASN and a port that is converted;
\* of a sockaddr_in, the port is taken as it is and the ISD-ASN is local.
BindEndpoint(family, as, port) ==
  [as |-> as, host |-> 1, port |-> IF family = "scion" THEN port ELSE ByteSwap(port)]

\* A socket that is bound already reports an error of assign().
scion_bind ==
  /\ HasSocket /\ ~sock.open
  /\ \E family \in {"scion", "inet"}, as \in BindAS, port \in Ports :
       LET ep == BindEndpoint(family, as, port) IN
       sock' = [sock EXCEPT !.open = TRUE, !.local = ep, !.mapped = ep]
  /\ wire' = None /\ UNCHANGED <<ctx, hdr, op, calls, recvq, inbox, arrived, mem, dead>>

scion_connect ==
  /\ HasSocket
  /\ \E to \in Dests \cup {Unspecified} :
       to # sock.remote /\ sock' = [sock EXCEPT !.remote = to]
  /\ wire' = None /\ UNCHANGED <<ctx, hdr, op, calls, recvq, inbox, arrived, mem, dead>>

scion_cancel ==
  /\ HasSocket
  /\ op' = Abort(SocketKinds) /\ op' # op
  /\ recvq' = << >>
  /\ wire' = None /\ UNCHANGED <<ctx, sock, hdr, calls, inbox, arrived, mem, dead>>

-----------------------------------------------------------------------------
(***************************************************************************)
(* Sending.                                                                *)
(***************************************************************************)
AnyUdp == [proto |-> UDP, sport |-> 0, dport |-> 0]

\* The UDP header of sendCached(): args->addr is not passed on.
CachedUdp == [proto |-> UDP, sport |-> sock.local.port, dport |-> sock.remote.port]

\* Paths the application may name: a path it holds or a raw path.
PathArgs == RawPaths \cup (IF \E p \in Paths : mem.held[p] > 0 THEN {PathData} ELSE {})

\* The error of a send and the headers afterwards.
FullHeaders(to, path, payload) ==
  LET err == PackError(sock, to, path)
  IN [err |-> err,
      hdr |-> IF err = "Ok" THEN pack(sock, to, path, NoExtensions, AnyUdp, payload) ELSE hdr]

CachedHeaders(payload) ==
  LET err == PackCachedError(hdr)
  IN [err |-> err, hdr |-> IF err = "Ok" THEN packCached(hdr, CachedUdp, payload) ELSE hdr]

\* The destination and the path, or the cached headers.
Headers(cached, payload) ==
  IF cached THEN {CachedHeaders(payload)}
  ELSE {FullHeaders(to, path, payload) : to \in Dests \cup {Unspecified}, path \in PathArgs}

\* scion_send() and scion_send_cached(): sendUnderlay() may fail.
SendSync(cached) ==
  /\ HasSocket /\ hdr # None /\ HdrIdle
  /\ \E payload \in Payloads : \E h \in Headers(cached, payload) :
       /\ h.err = "Ok"
       /\ hdr' = h.hdr
       /\ wire' \in {None} \cup (IF sock.open THEN {Packet(h.hdr, payload)} ELSE {})
  /\ UNCHANGED <<ctx, sock, op, calls, recvq, inbox, arrived, mem, dead>>

scion_send == SendSync(FALSE)
scion_send_cached == SendSync(TRUE)

Start(o, kind, st, result, payload) ==
  [op EXCEPT ![o] = [kind |-> kind, st |-> st, result |-> result, gone |-> FALSE,
                     payload |-> payload]]

\* The error of pack() is posted to the event loop; a closed underlay fails at
\* once, as does the kernel; otherwise the packet is sent now or later.
SendAsync(o, cached) ==
  /\ HasSocket /\ hdr # None /\ HdrIdle /\ op[o].st = "unused"
  /\ \E payload \in Payloads : \E h \in Headers(cached, payload) :
       \/ /\ h.err # "Ok" \/ ~sock.open
          /\ hdr' = h.hdr /\ op' = Start(o, "send", "ready", "error", None)
          /\ wire' = None
       \/ /\ h.err = "Ok" /\ sock.open
          /\ hdr' = h.hdr
          /\ \/ /\ wire' = Packet(h.hdr, payload)
                /\ op' = Start(o, "send", "ready", "ok", None)
             \/ /\ op' = Start(o, "send", "ready", "error", None) /\ wire' = None
             \/ /\ op' = Start(o, "send", "pending", "none", payload) /\ wire' = None
  /\ UNCHANGED <<ctx, sock, calls, recvq, inbox, arrived, mem, dead>>

scion_send_async(o) == SendAsync(o, FALSE)
scion_send_cached_async(o) == SendAsync(o, TRUE)

\* An argument is not valid: the handler is called before the function returns.
InvalidArgument(o) ==
  /\ HasSocket /\ op[o].st = "unused"
  /\ \E kind \in {"send", "stun", "recv"} : op' = Start(o, kind, "done", "error", None)
  /\ calls' = [calls EXCEPT ![o] = 1]
  /\ wire' = None /\ UNCHANGED <<ctx, sock, hdr, recvq, inbox, arrived, mem, dead>>

\* createStunRequest() makes the packager expect an answer, whether or not
\* the request can be sent.
scion_request_stun_mapping ==
  /\ HasSocket
  /\ sock' = [sock EXCEPT !.expects = TRUE]
  /\ wire' = None /\ UNCHANGED <<ctx, hdr, op, calls, recvq, inbox, arrived, mem, dead>>

scion_request_stun_mapping_async(o) ==
  /\ HasSocket /\ op[o].st = "unused"
  /\ sock' = [sock EXCEPT !.expects = TRUE]
  /\ \/ op' = Start(o, "stun", "ready", "error", None)
     \/ sock.open /\ op' = Start(o, "stun", "ready", "ok", None)
     \/ sock.open /\ op' = Start(o, "stun", "pending", "none", None)
  /\ wire' = None /\ UNCHANGED <<ctx, hdr, calls, recvq, inbox, arrived, mem, dead>>

-----------------------------------------------------------------------------
(***************************************************************************)
(* Receiving.                                                              *)
(***************************************************************************)
\* The underlay (external) receives a packet.
Arrive ==
  /\ HasSocket /\ sock.open
  /\ Len(inbox) < MaxInbox /\ arrived < MaxPackets
  /\ \E pkt \in Inputs : inbox' = Append(inbox, pkt)
  /\ arrived' = arrived + 1
  /\ wire' = None /\ UNCHANGED <<ctx, sock, hdr, op, calls, recvq, mem, dead>>

\* unpack() of an expected STUN response sets the mapped address.
Learn(s) == IF s.expects
            THEN [s EXCEPT !.mapped = [External EXCEPT !.as = s.local.as], !.expects = FALSE]
            ELSE s

\* CScmpHandler calls the callback without a test.
ScmpFatal == ~ctx.callback

\* scion_recv(): packets up to the first with data; it returns without data
\* if the socket does not block.
FirstData == IF \E i \in DOMAIN inbox : inbox[i] = "data"
             THEN Min({i \in DOMAIN inbox : inbox[i] = "data"}) ELSE Len(inbox)

scion_recv ==
  /\ HasSocket /\ recvq = << >> /\ inbox # << >>
  /\ LET taken == SubSeq(inbox, 1, FirstData)
         has(kind) == \E i \in DOMAIN taken : taken[i] = kind
     IN /\ inbox' = SubSeq(inbox, FirstData + 1, Len(inbox))
        /\ dead' = (has("scmp") /\ ScmpFatal)
        /\ sock' = IF has("stun") THEN Learn(sock) ELSE sock
  /\ wire' = None /\ UNCHANGED <<ctx, hdr, op, calls, recvq, arrived, mem>>

\* scion_recv_stun_response(): everything up to a STUN packet is dropped.
scion_recv_stun_response ==
  /\ HasSocket /\ recvq = << >>
  /\ \E i \in DOMAIN inbox :
       /\ inbox[i] = "stun" /\ \A j \in 1 .. i - 1 : inbox[j] # "stun"
       /\ inbox' = SubSeq(inbox, i + 1, Len(inbox))
  /\ sock' = Learn(sock)
  /\ wire' = None /\ UNCHANGED <<ctx, hdr, op, calls, recvq, arrived, mem, dead>>

\* async_receive_from(): takes a packet at once if no other operation waits.
StartReceive(o, kind) ==
  \/ /\ ~sock.open
     /\ op' = Start(o, kind, "ready", "error", None) /\ UNCHANGED <<recvq, inbox>>
  \/ /\ sock.open /\ recvq = << >> /\ inbox # << >>
     /\ op' = Start(o, kind, "ready", Head(inbox), None)
     /\ inbox' = Tail(inbox) /\ UNCHANGED recvq
  \/ /\ sock.open /\ (recvq # << >> \/ inbox = << >>)
     /\ op' = Start(o, kind, "pending", "none", None)
     /\ recvq' = Append(recvq, o) /\ UNCHANGED inbox

ReceiveAsync(o, kind) ==
  /\ HasSocket /\ op[o].st = "unused"
  /\ StartReceive(o, kind)
  /\ wire' = None /\ UNCHANGED <<ctx, sock, hdr, calls, arrived, mem, dead>>

scion_recv_async(o) == ReceiveAsync(o, "recv")
scion_recv_stun_response_async(o) == ReceiveAsync(o, "recv_stun")

-----------------------------------------------------------------------------
(***************************************************************************)
(* Names and timers.                                                       *)
(***************************************************************************)
\* A name that cannot be split into host and port fails before it returns.
scion_resolve_name_async(o) ==
  /\ Running /\ op[o].st = "unused"
  /\ \/ /\ op' = Start(o, "resolve", "done", "error", None)
        /\ calls' = [calls EXCEPT ![o] = 1]
     \/ /\ op' = Start(o, "resolve", "pending", "none", None)
        /\ UNCHANGED calls
  /\ wire' = None /\ UNCHANGED <<ctx, sock, hdr, recvq, inbox, arrived, mem, dead>>

scion_timer_wait_async(o) ==
  /\ Running /\ op[o].st = "unused"
  /\ op' = Start(o, "wait", "pending", "none", None)
  /\ wire' = None /\ UNCHANGED <<ctx, sock, hdr, calls, recvq, inbox, arrived, mem, dead>>

\* Also a new timeout and the end of the timer cancel the waits.
scion_timer_cancel ==
  /\ Running
  /\ op' = Abort({"wait"}) /\ op' # op
  /\ wire' = None /\ UNCHANGED <<ctx, sock, hdr, calls, recvq, inbox, arrived, mem, dead>>

-----------------------------------------------------------------------------
(***************************************************************************)
(* The event loop: scion_poll(), scion_run() and scion_run_for().          *)
(***************************************************************************)
Looping == Running /\ ~ctx.stopped

\* The loop finds the underlay readable and receives for the first operation.
PollReceive ==
  /\ Looping /\ recvq # << >> /\ inbox # << >>
  /\ op' = [op EXCEPT ![Head(recvq)].st = "ready", ![Head(recvq)].result = Head(inbox)]
  /\ recvq' = Tail(recvq) /\ inbox' = Tail(inbox)
  /\ wire' = None /\ UNCHANGED <<ctx, sock, hdr, calls, arrived, mem, dead>>

\* The loop finds the underlay writable, the name resolved or the time over.
\* A send takes the headers from the header cache now.
PollOther(o) ==
  /\ Looping /\ op[o].st = "pending" /\ op[o].kind \notin {"recv", "recv_stun"}
  /\ \/ /\ op' = [op EXCEPT ![o].st = "ready", ![o].result = "ok"]
        /\ wire' = IF op[o].kind = "send" THEN Packet(hdr, op[o].payload) ELSE None
     \/ /\ op[o].kind # "wait"
        /\ op' = [op EXCEPT ![o].st = "ready", ![o].result = "error"]
        /\ wire' = None
  /\ UNCHANGED <<ctx, sock, hdr, calls, recvq, inbox, arrived, mem, dead>>

Complete(o, times) ==
  /\ op' = [op EXCEPT ![o].st = "done"]
  /\ calls' = [calls EXCEPT ![o] = @ + times]
  /\ UNCHANGED <<recvq, inbox>>

\* Fault: the handler returns without receiving again.
Rearm_Not(o) ==
  /\ op' = [op EXCEPT ![o].st = "pending"]
  /\ UNCHANGED <<calls, recvq, inbox>>

\* The handler starts to receive again.
Rearm(o) == StartReceive(o, op[o].kind) /\ UNCHANGED calls

\* Sends, names and timers.  After the error of a STUN request, its handler
\* is called a second time, with success.
FinishOther(o) ==
  /\ op[o].kind \in {"send", "stun", "resolve", "wait"}
  /\ Complete(o, IF op[o].kind = "stun" /\ op[o].result = "error" THEN 2 ELSE 1)
  /\ UNCHANGED <<sock, dead>>

\* A receive operation that failed or was cancelled does not touch the socket.
FinishError(o) ==
  /\ op[o].kind \in {"recv", "recv_stun"} /\ op[o].result = "error"
  /\ Complete(o, 1)
  /\ UNCHANGED <<sock, dead>>

\* The packager of a deleted socket is used.
FinishGone(o) ==
  /\ op[o].kind \in {"recv", "recv_stun"} /\ op[o].result # "error" /\ op[o].gone
  /\ dead' = TRUE
  /\ op' = [op EXCEPT ![o].st = "dropped"]
  /\ UNCHANGED <<sock, calls, recvq, inbox>>

\* Fault: SCMP messages complete the operation as data does, and go on.
FinishRecv_ScmpToo(o) ==
  /\ op[o].kind = "recv" /\ op[o].result \in Inputs /\ ~op[o].gone
  /\ dead' = (op[o].result = "scmp" /\ ScmpFatal)
  /\ sock' = IF op[o].result = "stun" THEN Learn(sock) ELSE sock
  /\ IF op[o].result = "scmp"
     THEN calls' = [calls EXCEPT ![o] = @ + 1] /\ StartReceive(o, "recv")
     ELSE IF op[o].result = "data" THEN Complete(o, 1) ELSE Rearm(o)

\* recvAsyncImpl(): data completes the operation, everything else is handled
\* and awaited again (the flags are empty).
FinishRecv(o) ==
  /\ op[o].kind = "recv" /\ op[o].result \in Inputs /\ ~op[o].gone
  /\ dead' = (op[o].result = "scmp" /\ ScmpFatal)
  /\ sock' = IF op[o].result = "stun" THEN Learn(sock) ELSE sock
  /\ IF op[o].result = "data" THEN Complete(o, 1) ELSE Rearm(o)

\* recvStunResponseAsync(): everything but STUN is dropped.
FinishRecvStun(o) ==
  /\ op[o].kind = "recv_stun" /\ op[o].result \in Inputs /\ ~op[o].gone
  /\ IF op[o].result = "stun" THEN Complete(o, 1) /\ sock' = Learn(sock)
                              ELSE Rearm(o) /\ UNCHANGED sock
  /\ UNCHANGED dead

Dispatch(o) ==
  /\ Looping /\ op[o].st = "ready"
  /\ FinishOther(o) \/ FinishError(o) \/ FinishGone(o) \/ FinishRecv(o) \/ FinishRecvStun(o)
  /\ wire' = None /\ UNCHANGED <<ctx, hdr, arrived, mem>>

\* Without work, the loop ends and the context counts as stopped.
RunsOut ==
  /\ Looping /\ \A o \in Ops : ~InFlight(o)
  /\ ctx' = [ctx EXCEPT !.stopped = TRUE]
  /\ wire' = None /\ UNCHANGED <<sock, hdr, op, calls, recvq, inbox, arrived, mem, dead>>

-----------------------------------------------------------------------------
Call ==
  \/ scion_create_host_context \/ scion_delete_host_context
  \/ scion_set_scmp_handler \/ scion_stop
  \/ scion_query_paths \/ scion_release_paths
  \/ scion_hdr_cache_allocate \/ scion_hdr_cache_free
  \/ scion_socket_create \/ scion_close \/ scion_bind \/ scion_connect \/ scion_cancel
  \/ scion_send \/ scion_send_cached \/ scion_request_stun_mapping
  \/ scion_recv \/ scion_recv_stun_response \/ scion_timer_cancel
  \/ \E o \in Ops :
       \/ scion_send_async(o) \/ scion_send_cached_async(o) \/ InvalidArgument(o)
       \/ scion_request_stun_mapping_async(o)
       \/ scion_recv_async(o) \/ scion_recv_stun_response_async(o)
       \/ scion_resolve_name_async(o) \/ scion_timer_wait_async(o)

Next ==
  \/ left > 0 /\ left' = left - 1 /\ Call
  \/ UNCHANGED left /\ (scion_restart \/ Arrive \/ PollReceive \/ RunsOut)
  \/ UNCHANGED left /\ \E o \in Ops : PollOther(o) \/ Dispatch(o)

\* The application runs the event loop and restarts it; the loop looks at every
\* operation that is ready.
Fairness ==
  /\ WF_vars(scion_restart /\ UNCHANGED left)
  /\ SF_vars(PollReceive /\ UNCHANGED left)
  /\ \A o \in Ops : SF_vars(Dispatch(o) /\ UNCHANGED left)

Spec == Init /\ [][Next]_vars
FairSpec == Spec /\ Fairness

-----------------------------------------------------------------------------
(***************************************************************************)
(* Properties.                                                             *)
(***************************************************************************)
TypeOK ==
  /\ ctx = None \/ ctx \in [daemon : BOOLEAN, callback : BOOLEAN, stopped : BOOLEAN]
  /\ \A o \in Ops : op[o].st \in States /\ op[o].result \in Results
                    /\ op[o].kind \in Kinds \cup {"none"}
  /\ calls \in [Ops -> 0 .. 2]
  /\ dead \in BOOLEAN

\* Every packet on the underlay is one a receiver accepts, whether its headers
\* were built for it or adapted from those of an earlier packet, by a
\* synchronous call or by the event loop: the next header field announces the
\* transport, the lengths are those of this payload and the checksum is right.
PacketValid == wire # None => ValidPacket(wire)

\* The reference count of a path (intrusive_ptr) is the number of references
\* of the application and the cache: a path the application holds outlives
\* the cache's refresh and the context, and is freed after the last release.
PathsHeldAlive ==
  \A p \in Paths : mem.refs[p] = mem.held[p] + (IF p \in mem.cached THEN 1 ELSE 0)

\* The handler of an operation is called once, after it has finished, unless
\* the context is deleted: cancelling, closing and receiving again do not
\* call it early or again.  (STUN requests call it twice after an error.)
CompletedOnce ==
  \A o \in Ops : op[o].kind # "stun" => calls[o] = IF op[o].st = "done" THEN 1 ELSE 0

\* While a receive operation is under way, data is handed to the application
\* though SCMP, STUN and invalid packets come before it (recvAsyncImpl()).
DataWaits == \E o \in Ops : op[o].kind = "recv" /\ InFlight(o)
DataQueued == \/ \E i \in DOMAIN inbox : inbox[i] = "data"
              \/ \E o \in Ops : op[o].kind = "recv" /\ op[o].st = "ready" /\ op[o].result = "data"
DataDelivered == (DataWaits /\ DataQueued) ~> (~DataWaits \/ ~DataQueued \/ dead)
=============================================================================
