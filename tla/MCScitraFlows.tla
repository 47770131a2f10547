--------------------------- MODULE MCScitraFlows ---------------------------
(***************************************************************************)
(* Small instances of ScitraFlows: packets of TCP and MPTCP connections.   *)
(***************************************************************************)
EXTENDS ScitraFlows

CONSTANTS tun, x1, p1, p2, q1, q2

Packet(flags, opts, key) == [tcp |-> TRUE, flags |-> flags, opts |-> opts, key |-> key]

Fin   == Packet({"FIN", "ACK"}, {}, FALSE)
Third == Packet({"ACK"}, {"capable"}, TRUE)
Join  == Packet({"SYN"}, {"join"}, FALSE)

OneExtra == <<x1>>
OnePort == {1}
BothIPs == {<<tun, 1>>, <<x1, 1>>}
TwoPaths == {p1, p2}
OneQueue == {q1}
TwoQueues == {q1, q2}

\* The end of the MPTCP handshake, which tells the token, and new subflows.
ThirdJoin == {Third, Join}
\* A connection that the remote host opened, a new subflow and the end.
ThirdOnly == {Third}
JoinOnly == {Join}
JoinFin == {Join, Fin}

\* Paths and egress threads have no order.
Symmetry == Permutations(Paths) \cup Permutations(Queues)
=============================================================================
