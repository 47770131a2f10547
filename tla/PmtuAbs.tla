------------------------------ MODULE PmtuAbs ------------------------------
(***************************************************************************)
(* What a Path MTU cache promises its users, without lists and indices: a  *)
(* partial map from destinations to Path MTUs.  A known PMTU can only be   *)
(* lowered or forgotten, and learning one PMTU costs at most one other.    *)
(***************************************************************************)
EXTENDS Naturals

CONSTANTS
  Dests,      \* destination hosts together with the path used to reach them
  Unknown     \* no PMTU is known

VARIABLE known    \* [Dests -> Nat \cup {Unknown}]

Init == known = [d \in Dests |-> Unknown]

\* A first PMTU for d is recorded; at most one other destination is evicted.
Learn(d) ==
  /\ known[d] = Unknown
  /\ known'[d] \in Nat
  /\ \E S \in SUBSET (Dests \ {d}) :
       /\ \A a, b \in S : a = b
       /\ known' = [e \in Dests |-> IF e = d THEN known'[d]
                                    ELSE IF e \in S THEN Unknown ELSE known[e]]

\* A router reported that packets to d are too big.
Lower(d) ==
  /\ known[d] # Unknown
  /\ \E m \in 0 .. known[d] : known' = [known EXCEPT ![d] = m]

\* Records are removed: by request, by age or because the cache shrinks.
Drop ==
  \E S \in SUBSET Dests :
    known' = [e \in Dests |-> IF e \in S THEN Unknown ELSE known[e]]

Next == Drop \/ \E d \in Dests : Learn(d) \/ Lower(d)

Spec == Init /\ [][Next]_known
=============================================================================
