---------------------------- MODULE MCENITakeover ----------------------------
(* Instances of ENITakeover for TLC: two nodes with an interface each. *)
EXTENDS ENITakeover, TLC

CONSTANTS n1, n2, e1, e2

TwoNodes == n1 :> e1 @@ n2 :> e2

\* Floating addresses are interchangeable with each other, route tables too.
Alike == Permutations(FloatingIPs \ {ENIIP}) \cup Permutations(Tables)
==============================================================================
