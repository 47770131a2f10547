---------------------------- MODULE MCCInterface ----------------------------
(***************************************************************************)
(* One socket, one header cache, two asynchronous operations, a peer, a path*)
(* and a raw path of another AS than the one the socket is bound to.       *)
(***************************************************************************)
EXTENDS CInterface

CONSTANTS o1, o2, p1

TwoOps == {o1, o2}
OnePath == {p1}
Peer == [as |-> 2, host |-> 5, port |-> 700]
OneDest == {Peer}
OneAS == {1}
OnePort == {257}
NatEndpoint == [as |-> 0, host |-> 9, port |-> 60000]
LocalPath == [firstAS |-> 1, size |-> 36, isEmpty |-> FALSE]
OtherPath == [firstAS |-> 3, size |-> 72, isEmpty |-> FALSE]
TwoRawPaths == {LocalPath, OtherPath}
\* Sizes and sums that wrap around the modulus of the checksum.
TwoPayloads == {[size |-> 0, sum |-> 0], [size |-> 1200, sum |-> 65000]}
=============================================================================
