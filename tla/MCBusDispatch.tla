---------------------------- MODULE MCBusDispatch ----------------------------
(* Instances of BusDispatch for TLC: two messages that are the same work, on *)
(* two replicas, the first of which can have two deliveries in hand.         *)
EXTENDS BusDispatch, TLC

CONSTANTS o1, o2, g1, g2, g3, m1, m2, k1

MCKeyOf == [m \in Msgs |-> k1]
MCOwnerOf == [g \in Jobs |-> IF g = g3 THEN o2 ELSE o1]

\* g1 and g2 are interchangeable, and so are the two messages of one key.
Symmetry == Permutations({g1, g2}) \cup Permutations({m1, m2})
=============================================================================
