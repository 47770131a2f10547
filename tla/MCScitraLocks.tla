--------------------------- MODULE MCScitraLocks ---------------------------
(***************************************************************************)
(* One thread of every kind.                                               *)
(***************************************************************************)
EXTENDS ScitraLocks

CONSTANTS egress, worker

OneEgress == {egress}
OneWorker == {worker}
=============================================================================
