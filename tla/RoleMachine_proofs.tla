-------------------------- MODULE RoleMachine_proofs --------------------------
(* Theorems about RoleMachine, for any set of nodes.  They hold of whatever is   *)
(* shown to be a RoleMachine: LeaderFailover and FailoverPair.                   *)
EXTENDS RoleMachine, TLAPS

\* What one node does, or nothing.
RoleStep(n) ==
  \/ \E r \in Roles : Ask(n, r)
  \/ Begin(n) \/ ShutServer(n) \/ Cleared(n) \/ MakeServer(n) \/ ServerStarts(n) \/ MakeClient(n)
  \/ Assign(n) \/ Fail(n) \/ Halt(n) \/ Boot(n)
  \/ UNCHANGED roleVars

RoleTypes ==
  /\ role \in [Nodes -> Roles \cup {RoleUnknown}] /\ asked \in [Nodes -> Roles \cup {Empty}]
  /\ target \in [Nodes -> Roles \cup {Empty}]
  /\ phase \in [Nodes -> {"rest", "clearing", "cleared", "set"}]
  /\ server \in [Nodes -> {"down", "created", "up"}]
  /\ client \in [Nodes -> {"none", "made"}]
  /\ live \in [Nodes -> BOOLEAN]

\* A transition has a target.
Targeted == \A n \in Nodes : phase[n] # "rest" => target[n] \in Roles

\* A step of RoleMachine keeps the types, and a transition its target.
LEMMA RoleTypesStep ==
  ASSUME RoleTypes, Targeted, NEW n \in Nodes, RoleStep(n)
  PROVE  RoleTypes' /\ Targeted'
<1> USE DEF RoleTypes, Targeted, Move
<1>1. CASE \E r \in Roles : Ask(n, r)
  BY <1>1 DEF Ask
<1>2. CASE Begin(n)
  BY <1>2 DEF Begin, Empty
<1>3. CASE ShutServer(n) \/ Cleared(n)
  BY <1>3 DEF ShutServer, Cleared
<1>4. CASE MakeServer(n) \/ ServerStarts(n) \/ MakeClient(n)
  BY <1>4 DEF MakeServer, ServerStarts, MakeClient
<1>5. CASE Assign(n)
  BY <1>5 DEF Assign
<1>6. CASE Fail(n)
  BY <1>6 DEF Fail
<1>7. CASE Halt(n)
  BY <1>7 DEF Halt
<1>8. CASE Boot(n) \/ UNCHANGED roleVars
  BY <1>8 DEF Boot, roleVars
<1> QED
  BY <1>1, <1>2, <1>3, <1>4, <1>5, <1>6, <1>7, <1>8 DEF RoleStep

(***************************************************************************)
(* What RoleMachine promises by itself, OnlyPrimaryServes among it.  Why   *)
(* it is so shows in the phases: the server is gone before the client is   *)
(* made, and a server is made only when a primary is.                      *)
(***************************************************************************)
PhaseInv ==
  /\ OnlyPrimaryServes
  /\ \A n \in Nodes :
       /\ phase[n] = "cleared" => server[n] = "down" /\ client[n] = "none"
       /\ (phase[n] = "set" /\ target[n] # RolePrimary) => server[n] = "down"

\* A step of RoleMachine keeps the order of clearing, setting up and storing.
LEMMA PhaseStep ==
  ASSUME RoleTypes, Targeted, PhaseInv, NEW n \in Nodes, RoleStep(n)
  PROVE  PhaseInv'
<1> USE DEF RoleTypes, Targeted, PhaseInv, OnlyPrimaryServes, Move, Roles, RolePrimary,
            RoleSecondary, Empty
<1>1. CASE \E r \in Roles : Ask(n, r)
  BY <1>1 DEF Ask
<1>2. CASE Begin(n)
  BY <1>2 DEF Begin
<1>3. CASE ShutServer(n)
  BY <1>3 DEF ShutServer
<1>4. CASE Cleared(n)
  BY <1>4 DEF Cleared
<1>5. CASE MakeServer(n)
  BY <1>5 DEF MakeServer
<1>6. CASE ServerStarts(n)
  BY <1>6 DEF ServerStarts
<1>7. CASE MakeClient(n)
  BY <1>7 DEF MakeClient
<1>8. CASE Assign(n)
  BY <1>8 DEF Assign
<1>9. CASE Fail(n)
  BY <1>9 DEF Fail
<1>10. CASE Halt(n)
  BY <1>10 DEF Halt
<1>11. CASE Boot(n) \/ UNCHANGED roleVars
  BY <1>11 DEF Boot, roleVars
<1> QED
  BY <1>1, <1>2, <1>3, <1>4, <1>5, <1>6, <1>7, <1>8, <1>9, <1>10, <1>11 DEF RoleStep

(***************************************************************************)
(* All of it together is inductive.                                        *)
(***************************************************************************)
RoleInv == RoleTypes /\ Targeted /\ PhaseInv

\* The initial states satisfy the invariant.
LEMMA RoleInvInit == Init => RoleInv
  BY DEF Init, RoleInv, RoleTypes, Targeted, PhaseInv, OnlyPrimaryServes

\* Every step keeps it.
LEMMA RoleInvStep == RoleInv /\ [Next]_roleVars => RoleInv'
<1> SUFFICES ASSUME RoleInv, [Next]_roleVars PROVE RoleInv'
  OBVIOUS
<1>1. ASSUME NEW n \in Nodes, RoleStep(n) PROVE RoleInv'
  BY <1>1, RoleTypesStep, PhaseStep DEF RoleInv
<1>2. (\E n \in Nodes : RoleStep(n)) \/ UNCHANGED roleVars
  BY DEF Next, RoleStep
<1>3. CASE UNCHANGED roleVars
  BY <1>3 DEF roleVars, RoleInv, RoleTypes, Targeted, PhaseInv, OnlyPrimaryServes
<1> QED
  BY <1>1, <1>2, <1>3

(***************************************************************************)
(* Whatever is a RoleMachine answers fRPC requests only as a primary or    *)
(* when its promotion is all but done (OnlyPrimaryServes): roles follow    *)
(* from the order of the steps of a transition, not from any check.        *)
(***************************************************************************)
THEOREM MachineServesAsPrimary == Spec => []OnlyPrimaryServes
<1>1. RoleInv => OnlyPrimaryServes
  BY DEF RoleInv, PhaseInv
<1> QED
  BY <1>1, RoleInvInit, RoleInvStep, PTL DEF Spec
=============================================================================
