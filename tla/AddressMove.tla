----------------------------- MODULE AddressMove -----------------------------
(***************************************************************************)
(* What TakeOverENI of pkg/failover/aws.go does to the address that makes  *)
(* a node the primary, whoever else does the same at the same time: it     *)
(* takes the address from the place that has it and then puts it to its    *)
(* own, unless another node was first or something fails in between.       *)
(* ENITakeover implements it; FailoverPair is built on it.                 *)
(***************************************************************************)
CONSTANTS
  Nodes,   \* the nodes that take the address over
  Places,  \* where the address may be
  Home,    \* the place of each node
  None

VARIABLES
  owner,   \* the place that has the address, or None
  taking   \* whether each node has taken it away and is about to put it home

moveVars == <<owner, taking>>

MoveInit == owner \in Places /\ taking = [n \in Nodes |-> FALSE]

Elsewhere(n) == owner \notin {Home[n], None}

\* The address is taken from another place ...
Detach(n) ==
  /\ ~taking[n] /\ Elsewhere(n)
  /\ owner' = None /\ taking' = [taking EXCEPT ![n] = TRUE]

\* ... and put to the node's own, which EC2 refuses when another one has it.
Attach(n) ==
  /\ taking[n] /\ taking' = [taking EXCEPT ![n] = FALSE]
  /\ owner' = IF owner = None THEN Home[n] ELSE owner

\* It is not put anywhere: a request fails, or the process dies.
GiveUp(n) ==
  /\ taking[n] /\ taking' = [taking EXCEPT ![n] = FALSE]
  /\ UNCHANGED owner

\* It is taken away, but the answer to that request is lost.
Lose(n) ==
  /\ ~taking[n] /\ Elsewhere(n)
  /\ owner' = None /\ UNCHANGED taking

MoveNext == \E n \in Nodes : Detach(n) \/ Attach(n) \/ GiveUp(n) \/ Lose(n)

MoveSpec == MoveInit /\ [][MoveNext]_moveVars
=============================================================================
