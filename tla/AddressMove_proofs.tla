-------------------------- MODULE AddressMove_proofs --------------------------
(* Theorems about AddressMove, for any nodes and places.  They hold of whatever  *)
(* is shown to move the address that way: ENITakeover and FailoverPair.          *)
EXTENDS AddressMove, TLAPS

\* The address is nowhere, and no node has it in its hands.
Gone == owner = None /\ \A n \in Nodes : ~taking[n]

\* A takeover starts from a place that has the address and ends with a node that
\* has taken it away: where there is neither, no step does anything.
LEMMA GoneStep == Gone /\ [MoveNext]_moveVars => UNCHANGED moveVars
  BY DEF Gone, MoveNext, Detach, Attach, GiveUp, Lose, Elsewhere, moveVars

(***************************************************************************)
(* An address that is lost is lost for good, however many nodes keep       *)
(* taking it over: TakeOverENI looks for it on an interface and is an      *)
(* error without one (TakeOverENI of aws.go).                              *)
(***************************************************************************)
THEOREM LostForGood == MoveSpec => [](Gone => []Gone)
<1>1. Gone /\ [MoveNext]_moveVars => Gone'
  BY GoneStep DEF Gone, moveVars
<1> QED
  BY <1>1, PTL DEF MoveSpec

(***************************************************************************)
(* One node at a time has the address in its hands, and then it is         *)
(* nowhere else: taking it away from a place that has it no longer fails,  *)
(* and that failure is all the mutual exclusion there is.                  *)
(***************************************************************************)
OneHand == \A n \in Nodes : taking[n] => owner = None /\ \A m \in Nodes \ {n} : ~taking[m]

\* taking says something of every node.
HandInv == OneHand /\ DOMAIN taking = Nodes

\* The initial states satisfy it.
LEMMA HandInit == MoveInit => HandInv
  BY DEF MoveInit, OneHand, HandInv

\* Every step keeps it: only a place gives the address away, and it has it then.
LEMMA HandStep == HandInv /\ [MoveNext]_moveVars => HandInv'
<1> SUFFICES ASSUME HandInv, [MoveNext]_moveVars PROVE HandInv'
  OBVIOUS
<1> USE DEF HandInv, OneHand
<1>1. ASSUME NEW n \in Nodes, Detach(n) PROVE HandInv'
  <2>1. \A m \in Nodes : ~taking[m]
    BY <1>1 DEF Detach, Elsewhere
  <2> QED
    BY <1>1, <2>1 DEF Detach
<1>2. ASSUME NEW n \in Nodes, Attach(n) \/ GiveUp(n) PROVE HandInv'
  BY <1>2 DEF Attach, GiveUp
<1>3. ASSUME NEW n \in Nodes, Lose(n) PROVE HandInv'
  BY <1>3 DEF Lose
<1> QED
  BY <1>1, <1>2, <1>3 DEF MoveNext, moveVars

\* So it is in every behaviour.
THEOREM MoveIsExclusive == MoveSpec => []OneHand
<1>1. HandInv => OneHand
  BY DEF HandInv
<1> QED
  BY <1>1, HandInit, HandStep, PTL DEF MoveSpec
===============================================================================
