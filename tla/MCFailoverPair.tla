--------------------------- MODULE MCFailoverPair ---------------------------
(* Instances of FailoverPair for TLC.  No action tells one node from another, *)
(* so what holds of one node in every behaviour holds of each.  Only this node *)
(* is fair: the others may stop at any point of what they do.                 *)
EXTENDS FailoverPair, TLC

Some == CHOOSE n \in Nodes : TRUE

FairPairSpec == PairSpec /\ NodeFairness(Some)

\* OvertakenStepsDown, of one node (leaderElectionLoop).
SomeOvertakenStepsDown == OvertakenStepsDown(Some)

\* OwnerServes, of one node (leaderElectionLoop, heartbeatMonitorLoop).
SomeOwnerServes == OwnerServes(Some)
=============================================================================
