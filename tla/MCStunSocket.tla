---------------------------- MODULE MCStunSocket ----------------------------
(***************************************************************************)
(* Small instances of StunSocket.                                          *)
(***************************************************************************)
EXTENDS StunSocket, TLC

CONSTANTS t1, t2, e1, e2, x1, x2, x3, x4

OneThread == {t1}
TwoThreads == {t1, t2}
TwoAddresses == {e1, e2}
FourTxs == {x1, x2, x3, x4}

Symmetry == Permutations(Threads) \cup Permutations(External) \cup Permutations(Txs)
=============================================================================
