---------------------------- MODULE MCInterposer ----------------------------
(* A small instance of Interposer: two threads share a descriptor; remote  *)
(* hosts b and c (surrogates, with the same hash, which is taken by a      *)
(* configured surrogate), two paths.                                       *)
EXTENDS Interposer, TLC

CONSTANTS t1, t2, f1, b, c, own, p1, p2, g1, g2

MCHash == [h \in {b, c, own} |-> 0]
MCConfigured == <<[ip |-> 0, a |-> own]>>
MCOrder == <<p1, p2>>
\* The threads, the remote hosts and the generations are interchangeable.
Symmetry ==
  {x @@ y @@ z : x \in Permutations({t1, t2}), y \in Permutations({b, c}),
                 z \in Permutations({g1, g2})}
=============================================================================
