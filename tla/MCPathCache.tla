---------------------------- MODULE MCPathCache ----------------------------
(***************************************************************************)
(* A small instance of PathCache.  Paths live for one tick, which is too   *)
(* short to be accepted, or for three.  Flows inside the AS are passive.   *)
(***************************************************************************)
EXTENDS PathCache

CONSTANTS far, local, maint, tun

MCRoutes == {far, local}
MCLocalRoutes == {local}
MCFlowRoutes == {far}
MCThreads == {maint, tun}
MCLifetimes == {1, 3}
=============================================================================
