----------------------------- MODULE ScionSocket -----------------------------
(***************************************************************************)
(* The library's SCMP and UDP sockets, of which there is a POSIX and an    *)
(* Asio version (include/scion/posix, include/scion/asio), on top of the   *)
(* ScionPackager, which they share (include/scion/socket/packager.hpp).    *)
(*                                                                         *)
(* One thread owns the socket.  A synchronous call occupies it until it    *)
(* returns; during an asynchronous one other calls are made.  The packets  *)
(* that peers and STUN servers send wait in the receive queue of the       *)
(* operating system.  They may be lost, repeated, reordered and delayed.   *)
(*                                                                         *)
(* An endpoint is one value: different endpoints differ in host and port.  *)
(***************************************************************************)
EXTENDS Integers, Sequences

CONSTANTS
  Backends,     \* "posix", "asio" or both
  Locals,       \* endpoints the socket is bound to
  External,     \* endpoints of the NAT
  Remotes,      \* endpoints of peers
  Servers,      \* STUN servers
  None,         \* no endpoint, server or packet
  Mail,         \* packets other than answers to binding requests
  FlagSets,     \* combinations of flags the receive methods are called with
  QueueSize,    \* size of the receive queue
  MaxTx,        \* bound on binding requests
  MaxArrivals,  \* bound on packets received
  Retries       \* retries of getStunMapping()

Endpoints == Locals \cup External

Stun == [kind: {"stun"}, from: Servers \cup Remotes, form: {"response", "other", "malformed"},
         tx: 0 .. MaxTx, ep: External \cup {None}]
Scion == [kind: {"data", "scmp"}, src: Remotes, dst: Endpoints, valid: BOOLEAN, big: BOOLEAN]
Packet == Stun \cup Scion

Flags == {"peek", "dontwait", "scmp", "stun"}

ASSUME ScionSocketAssumption ==
  /\ Backends \subseteq {"posix", "asio"}
  /\ Mail \subseteq Packet
  /\ \A p \in Mail : p.kind = "stun" => p.tx = 0
  /\ FlagSets \subseteq SUBSET Flags
  /\ {QueueSize, MaxTx, MaxArrivals, Retries} \subseteq Nat
  /\ Locals \cap External = {}
  /\ None \notin Endpoints \cup Remotes \cup Servers \cup Packet

VARIABLES
  backend,   \* the version of the socket
  bound,     \* address of the underlay socket, None if it is closed
  packager,  \* m_local, m_mapped, m_remote and the state of STUN
  call,      \* the call of a receive method in progress
  result,    \* what the call that has just ended returned
  rxq,       \* receive queue of the underlay socket
  arrivals,  \* packets so far
  requests,  \* binding requests the servers may answer, any number of times
  answers,   \* history: answers the servers gave
  learned,   \* history: request the mapping comes from, 0 if it does not come from STUN
  accepted,  \* history: number of answers accepted for each request
  handled,   \* history: calls of the SCMP handler for the first packet in the queue
  peeked     \* history: the packet that the next receive call should return

net == <<requests, answers, arrivals>>
stun == <<learned, accepted>>
vars == <<backend, bound, packager, call, result, rxq, net, stun, handled, peeked>>

Codes ==
  {"Ok", "ScmpReceived", "StunReceived", "SrcAddrMismatch", "DstAddrMismatch", "InvalidPacket"}
Idle == [op |-> "idle"]
Call == {Idle} \cup
  [op: {"recv", "recvScmp", "recvStun", "getStun"}, async: BOOLEAN, flags: SUBSET Flags,
   pc: {"request", "receive", "discard"},
   code: Codes,
   server: Servers \cup {None}, i: 0 .. Retries]

TypeOK ==
  /\ backend \in Backends
  /\ bound \in Locals \cup {None}
  /\ packager \in [local: Locals \cup {None}, mapped: Endpoints \cup {None}, remote: Remotes \cup {None},
                   expect: BOOLEAN, server: Servers \cup {None}, tx: 0 .. MaxTx]
  /\ call \in Call
  /\ result \in Codes \cup {"none", "Aborted", "BufferTooSmall", "SendFailed", "WouldBlock", "Timeout"}
  /\ rxq \in Seq(Packet) /\ Len(rxq) <= QueueSize
  /\ arrivals \in 0 .. MaxArrivals
  /\ requests \subseteq [tx: 1 .. MaxTx, server: Servers, from: Locals]
  /\ answers \subseteq [tx: 1 .. MaxTx, ep: External \cup {None}]
  /\ learned \in 0 .. MaxTx
  /\ accepted \in [1 .. MaxTx -> 0 .. 2]
  /\ handled \in 0 .. 2
  /\ peeked \in Packet \cup {None}

Init ==
  /\ backend \in Backends
  /\ bound = None
  /\ packager = [local |-> None, mapped |-> None, remote |-> None,
                 expect |-> FALSE, server |-> None, tx |-> 0]
  /\ call = Idle
  /\ result = "none"
  /\ rxq = <<>> /\ arrivals = 0
  /\ requests = {} /\ answers = {}
  /\ learned = 0 /\ accepted = [x \in 1 .. MaxTx |-> 0]
  /\ handled = 0 /\ peeked = None

-----------------------------------------------------------------------------
\* ScionPackager

\* The packager after setLocalEp(): the expected answer of a STUN server stays expected.
WithLocal(l) == [packager EXCEPT !.local = l, !.mapped = l]

\* createStunRequest()
WithRequest(s) == [packager EXCEPT !.expect = TRUE, !.server = s, !.tx = @ + 1]

\* Fault: the transaction is not compared.
AcceptsAnyAnswer(p) ==
  /\ packager.expect
  /\ p.from = packager.server
  /\ p.form = "response"
  /\ p.tx > 0

\* Fault: the answer stays expected.
AcceptsAgain(p) ==
  /\ packager.tx > 0
  /\ p.from = packager.server
  /\ p.form = "response"
  /\ p.tx = packager.tx

\* updateMappedAddressFromStun() accepts the answer.
Accepts(p) ==
  /\ packager.expect
  /\ p.from = packager.server
  /\ p.form = "response"
  /\ p.tx = packager.tx

\* What parseStun() returns
StunCode(p) ==
  IF ~packager.expect THEN "StunReceived"
  ELSE IF p.from # packager.server THEN "SrcAddrMismatch"
  ELSE IF p.form = "malformed" THEN "InvalidPacket"
  ELSE "StunReceived"

\* verifyReceived(): an unspecified address matches every other one, SCMP is
\* accepted from everyone.
Verify(p) ==
  IF packager.mapped \notin {None, p.dst} THEN "DstAddrMismatch"
  ELSE IF p.kind = "data" /\ packager.remote \notin {None, p.src} THEN "SrcAddrMismatch"
  ELSE IF ~p.valid THEN "InvalidPacket"
  ELSE "Ok"

\* What unpack() returns
Code(p) ==
  IF p.kind = "stun" THEN StunCode(p)
  ELSE IF Verify(p) = "Ok" /\ p.kind = "scmp" THEN "ScmpReceived"
  ELSE Verify(p)

Min2(n) == IF n < 2 THEN n ELSE 2

\* The effect of unpack() on the packager.  An answer without a mapped address
\* is accepted, too.
Unpack(p) ==
  IF p.kind = "stun" /\ Accepts(p)
  THEN /\ packager' = [packager EXCEPT !.expect = FALSE, !.mapped = IF p.ep = None THEN @ ELSE p.ep]
       /\ learned' = IF p.ep = None THEN learned ELSE packager.tx
       /\ accepted' = [accepted EXCEPT ![packager.tx] = Min2(@ + 1)]
  ELSE UNCHANGED <<packager, stun>>

-----------------------------------------------------------------------------
\* Binding and addressing.  None of these calls is made while a synchronous
\* receive call is in progress.

NoResult == result' = "none"
Free == call # Idle => call.async

\* bind(): a socket that is open already cannot be bound again.  If no local
\* address is found, the POSIX socket stays open without one.
Bind(l) ==
  /\ call = Idle /\ bound = None
  /\ \/ /\ bound' = l
        /\ packager' = WithLocal(l)
        /\ learned' = 0
     \/ /\ bound' = IF backend = "posix" THEN l ELSE None
        /\ UNCHANGED <<packager, learned>>
  /\ rxq' = <<>> /\ handled' = 0 /\ peeked' = None
  /\ UNCHANGED <<backend, call, net, accepted>> /\ NoResult

SetLocalEp(l) ==
  /\ Free
  /\ packager' = WithLocal(l)
  /\ learned' = 0 /\ peeked' = None
  /\ UNCHANGED <<backend, bound, call, rxq, net, accepted, handled>> /\ NoResult

SetMappedIpAndPort(e) ==
  /\ Free
  /\ packager' = [packager EXCEPT !.mapped = e]
  /\ learned' = 0 /\ peeked' = None
  /\ UNCHANGED <<backend, bound, call, rxq, net, accepted, handled>> /\ NoResult

Connect(r) ==
  /\ Free
  /\ packager' = [packager EXCEPT !.remote = r]
  /\ peeked' = None
  /\ UNCHANGED <<backend, bound, call, rxq, net, stun, handled>> /\ NoResult

\* close(): an asynchronous call is aborted, the packager keeps its state.
Close ==
  /\ Free /\ bound # None
  /\ bound' = None /\ rxq' = <<>> /\ handled' = 0 /\ peeked' = None
  /\ call' = Idle
  /\ result' = IF call = Idle THEN "none" ELSE "Aborted"
  /\ UNCHANGED <<backend, packager, net, stun>>

\* cancel(), Asio only
Cancel ==
  /\ call # Idle /\ call.async
  /\ call' = Idle
  /\ result' = "Aborted"
  /\ UNCHANGED <<backend, bound, packager, rxq, net, stun, handled, peeked>>

-----------------------------------------------------------------------------
\* Binding requests

\* requestStunMapping() on its own and in a round of getStunMapping().  The
\* request is registered even if it cannot be sent.
Request(s, sent) ==
  /\ packager.tx < MaxTx
  /\ sent => bound # None
  /\ packager' = WithRequest(s)
  /\ requests' = IF sent THEN requests \cup {[tx |-> packager'.tx, server |-> s, from |-> bound]}
                 ELSE requests
  /\ UNCHANGED <<backend, bound, rxq, arrivals, answers, stun, handled, peeked>>

RequestStunMapping(s) ==
  /\ Free
  /\ \E sent \in BOOLEAN : Request(s, sent)
  /\ UNCHANGED call /\ NoResult

-----------------------------------------------------------------------------
\* Receiving

Begin(op, async, flags, pc, s) ==
  /\ call = Idle /\ bound # None
  /\ call' = [op |-> op, async |-> async, flags |-> flags, pc |-> pc, code |-> "Ok",
              server |-> s, i |-> 0]
  /\ UNCHANGED <<backend, bound, packager, rxq, net, stun, handled, peeked>> /\ NoResult

\* The asynchronous methods accept the flags but pass none of them to the
\* operating system; only the POSIX methods accept SMSG_DONTWAIT.
BeginRecv(op, flags) ==
  \E async \in BOOLEAN :
    /\ async => backend = "asio"
    /\ "dontwait" \in flags => backend = "posix"
    /\ async /\ op = "recvScmp" => "peek" \notin flags
    /\ Begin(op, async, flags, "receive", None)

BeginStun(flags) ==
  \E async \in BOOLEAN :
    /\ async => backend = "asio"
    /\ flags \subseteq (IF backend = "posix" THEN {"dontwait"} ELSE {})
    /\ Begin("recvStun", async, flags, "receive", None)

BeginGetStunMapping(s) ==
  /\ backend = "posix"
  /\ packager.tx + Retries < MaxTx
  /\ Begin("getStun", FALSE, {}, "request", s)

Return(code) == call' = Idle /\ result' = code
Again == call' = [call EXCEPT !.pc = "receive"] /\ NoResult
Peeking == "peek" \in call.flags
Take == rxq' = Tail(rxq) /\ handled' = 0

At(op, async, pc) == call # Idle /\ call.op = op /\ call.async = async /\ call.pc = pc

Unaffected == UNCHANGED <<backend, bound, net>>

\* SMSG_RECV_SCMP and SMSG_RECV_STUN return a packet that is not data.
Wanted(code) ==
  \/ code = "ScmpReceived" /\ "scmp" \in call.flags
  \/ code = "StunReceived" /\ "stun" \in call.flags

\* Fault: a packet that was peeked at is not discarded.
NotDataKept(code) == IF Wanted(code) THEN Return(code) ELSE Again

\* The packet is not data: discard it, unless it has left the queue, and go on
\* or return.
NotData(code) ==
  IF Peeking THEN call' = [call EXCEPT !.pc = "discard", !.code = code] /\ NoResult
  ELSE IF Wanted(code) THEN Return(code)
  ELSE Again

\* Fault: SMSG_PEEK is not passed on.
ReceiveFromTaking(keep) == rxq' = Tail(rxq)

\* Receive a packet that leaves the queue, or, with keep, stays there.
ReceiveFrom(keep) == rxq' = IF keep THEN rxq ELSE Tail(rxq)

\* One round of UdpSocket::recvImpl()
RecvRound(p, keep) ==
  /\ ReceiveFrom(keep)
  /\ Unpack(p)
  /\ IF Code(p) = "Ok" THEN Return("Ok") ELSE NotData(Code(p))
  /\ handled' = IF ~keep THEN 0
                ELSE IF Code(p) = "ScmpReceived" THEN Min2(handled + 1) ELSE handled
  /\ peeked' = IF Code(p) = "Ok" /\ keep THEN p ELSE None
  /\ Unaffected

\* posix::UdpSocket::recvImpl()
RecvImplPosix ==
  /\ At("recv", FALSE, "receive") /\ backend = "posix" /\ rxq # <<>>
  /\ RecvRound(Head(rxq), Peeking)

\* asio::UdpSocket::recvImpl() does not pass the flags to receive_from().
RecvImplAsio ==
  /\ At("recv", FALSE, "receive") /\ backend = "asio" /\ rxq # <<>>
  /\ RecvRound(Head(rxq), FALSE)

\* asio::UdpSocket::recvAsyncImpl(): the branch for STUN is never taken.
RecvAsyncImpl ==
  /\ At("recv", TRUE, "receive") /\ rxq # <<>>
  /\ LET p == Head(rxq) IN
       /\ Unpack(p) /\ Take
       /\ IF Code(p) = "Ok" \/ (Code(p) = "ScmpReceived" /\ Wanted(Code(p)))
          THEN Return(Code(p)) ELSE Again
  /\ peeked' = None
  /\ Unaffected

\* Discard the packet that has been peeked at: recvImpl() and recvScmpImpl().
\* An error of this call is ignored.
Discard ==
  /\ call # Idle /\ call.pc = "discard"
  /\ \/ rxq # <<>> /\ rxq' = Tail(rxq)
     \/ rxq = <<>> /\ "dontwait" \in call.flags /\ UNCHANGED rxq
  /\ IF call.op = "recv" /\ Wanted(call.code) THEN Return(call.code) ELSE Again
  /\ handled' = 0 /\ peeked' = None
  /\ Unaffected /\ UNCHANGED <<packager, stun>>

\* ScmpSocket::recvScmpImpl(): packets other than data are not discarded.
RecvScmpImpl ==
  /\ At("recvScmp", FALSE, "receive") /\ rxq # <<>>
  /\ LET p == Head(rxq) IN
       /\ Unpack(p)
       /\ ReceiveFrom(Peeking) /\ handled' = IF Peeking THEN handled ELSE 0
       /\ IF Code(p) = "ScmpReceived" \/ (Code(p) = "StunReceived" /\ Wanted(Code(p)))
          THEN Return(Code(p))
          ELSE IF Code(p) = "Ok" /\ Peeking
          THEN call' = [call EXCEPT !.pc = "discard"] /\ NoResult
          ELSE Again
  /\ peeked' = None
  /\ Unaffected

\* asio::ScmpSocket::recvScmpAsyncImpl()
RecvScmpAsyncImpl ==
  /\ At("recvScmp", TRUE, "receive") /\ rxq # <<>>
  /\ LET p == Head(rxq) IN
       /\ Unpack(p) /\ Take
       /\ IF Code(p) = "ScmpReceived" THEN Return(Code(p)) ELSE Again
  /\ peeked' = None
  /\ Unaffected

\* One round of recvStunResponse(): everything but STUN is ignored.
StunRound(p) ==
  /\ Take
  /\ IF p.kind = "stun" THEN Unpack(p) /\ Return(StunCode(p))
     ELSE Again /\ UNCHANGED <<packager, stun>>
  /\ peeked' = None
  /\ Unaffected

\* posix::ScmpSocket::recvStunResponse(): a packet that does not fit into the
\* buffer of 128 bytes is an error.
RecvStunResponsePosix ==
  /\ call # Idle /\ call.op \in {"recvStun", "getStun"} /\ call.pc = "receive"
  /\ backend = "posix" /\ rxq # <<>>
  /\ LET p == Head(rxq) IN
       IF p.kind # "stun" /\ p.big
       THEN /\ Take /\ Return("BufferTooSmall")
            /\ peeked' = None
            /\ Unaffected /\ UNCHANGED <<packager, stun>>
       ELSE StunRound(p)

\* asio::ScmpSocket::recvStunResponse() and recvStunResponseAsync()
RecvStunResponseAsio ==
  /\ call # Idle /\ call.op = "recvStun" /\ backend = "asio" /\ rxq # <<>>
  /\ StunRound(Head(rxq))

\* getStunMapping() sends the request of the next round.
GetStunMapping ==
  /\ At("getStun", FALSE, "request")
  /\ \E s \in Servers, sent \in BOOLEAN :
       /\ s = call.server
       /\ Request(s, sent)
       /\ IF sent THEN Again ELSE Return("SendFailed")

\* A receive call does not wait, or not any longer, for a packet.
WouldBlock ==
  /\ call # Idle /\ call.pc = "receive" /\ rxq = <<>>
  /\ "dontwait" \in call.flags
  /\ Return("WouldBlock")
  /\ Unaffected /\ UNCHANGED <<packager, rxq, stun, handled, peeked>>

\* Fault: retries are not counted.
TimeoutForever ==
  /\ At("getStun", FALSE, "receive") /\ rxq = <<>>
  /\ call' = [call EXCEPT !.pc = "request"] /\ NoResult
  /\ Unaffected /\ UNCHANGED <<packager, rxq, stun, handled, peeked>>

\* The receive timeout of getStunMapping() expires: next round, or give up.
Timeout ==
  /\ At("getStun", FALSE, "receive") /\ rxq = <<>>
  /\ IF call.i < Retries
     THEN call' = [call EXCEPT !.pc = "request", !.i = @ + 1] /\ NoResult
     ELSE Return("Timeout")
  /\ Unaffected /\ UNCHANGED <<packager, rxq, stun, handled, peeked>>

-----------------------------------------------------------------------------
\* Peers and STUN servers

Arrive(p) ==
  /\ bound # None /\ Len(rxq) < QueueSize /\ arrivals < MaxArrivals
  /\ rxq' = Append(rxq, p)
  /\ arrivals' = arrivals + 1
  /\ UNCHANGED <<backend, bound, packager, call, requests, stun, handled, peeked>> /\ NoResult

Deliver(p) == Arrive(p) /\ UNCHANGED answers

\* A server reports the endpoint it sees, which changes with the NAT, or none.
Answer(r, e) ==
  /\ r.from = bound
  /\ Arrive([kind |-> "stun", from |-> r.server, form |-> "response", tx |-> r.tx, ep |-> e])
  /\ answers' = answers \cup {[tx |-> r.tx, ep |-> e]}

-----------------------------------------------------------------------------
App ==
  \/ \E l \in Locals : Bind(l) \/ SetLocalEp(l)
  \/ \E e \in External : SetMappedIpAndPort(e)
  \/ \E r \in Remotes \cup {None} : Connect(r)
  \/ Close \/ Cancel
  \/ \E s \in Servers : RequestStunMapping(s) \/ BeginGetStunMapping(s)
  \/ \E op \in {"recv", "recvScmp"}, f \in FlagSets : BeginRecv(op, f)
  \/ \E f \in FlagSets : BeginStun(f)

Recv ==
  \/ RecvImplPosix \/ RecvImplAsio \/ RecvAsyncImpl
  \/ RecvScmpImpl \/ RecvScmpAsyncImpl
  \/ RecvStunResponsePosix \/ RecvStunResponseAsio
  \/ Discard \/ GetStunMapping \/ WouldBlock \/ Timeout

Network ==
  \/ \E p \in Mail : Deliver(p)
  \/ \E r \in requests, e \in External \cup {None} : Answer(r, e)

Next == App \/ Recv \/ Network

\* A call in progress goes on.
Spec == Init /\ [][Next]_vars /\ WF_vars(Recv)
-----------------------------------------------------------------------------
\* Properties

\* A receive method returns code.  It has just examined the packet Head(rxq).
Returns(code) == call # Idle /\ call' = Idle /\ result' = code

\* A mapping learned by STUN is one that the server reported for the request
\* that was the latest when the answer was accepted.  An answer to an earlier
\* request, which the application has given up, does not replace it, whatever
\* receive method takes it from the queue (createStunRequest(), parseStun()).
MappingGenuine ==
  learned > 0 => [tx |-> learned, ep |-> packager.mapped] \in answers

\* The first answer to a request ends the discovery: answers that are repeated
\* or late never change the address of a socket that is in use
\* (updateMappedAddressFromStun()).
LearnedOnce == \A x \in 1 .. MaxTx : accepted[x] <= 1

\* The SCMP handler is called at most once for a packet, although recvImpl()
\* first peeks at it and discards it then.
HandledOnce == handled <= 1

\* On a POSIX socket, receiving returns the packet that the call with SMSG_PEEK
\* before it has shown, if nothing was changed in between that may refuse it
\* (posix::UdpSocket::recvImpl()).  Asio sockets do not peek at data.
PeekAgrees == [][Returns("Ok") /\ peeked # None => Head(rxq) = peeked]_vars

\* A synchronous call to receive data or STUN, with SMSG_PEEK or without, works
\* its way through the queue: no packet at its head blocks it (recvImpl(),
\* recvStunResponse()).
QueueDrained ==
  (call # Idle /\ call.op \in {"recv", "recvStun"} /\ ~call.async)
    ~> (call = Idle \/ rxq = <<>>)

\* getStunMapping() ends, unless packets keep arriving, which restart its timeout.
GetStunMappingEnds ==
  (call # Idle /\ call.op = "getStun") ~> (call = Idle)

-----------------------------------------------------------------------------
\* Statements the code does not keep

\* If getStunMapping() succeeds, the mapping is the one that was requested.
StunMeansLearned ==
  [][call.op = "getStun" /\ Returns("StunReceived") => learned' = packager.tx]_vars
=============================================================================
