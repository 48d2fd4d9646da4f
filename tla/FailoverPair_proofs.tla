------------------------- MODULE FailoverPair_proofs -------------------------
(* Theorems about FailoverPair, for any number of nodes and of monitors.        *)
EXTENDS FailoverPair, RoleMachine_proofs

(***************************************************************************)
(* Every step of the composition is a step of one node, and what that      *)
(* node's RoleMachine does in it.                                          *)
(***************************************************************************)
NodeStep(n) ==
  \/ Check(n) \/ Compare(n) \/ Send(n) \/ Silence(n)
  \/ Start(n) \/ Shutdown(n) \/ CleanedUp(n)
  \/ Detach(n) \/ Attach(n) \/ TakeNothing(n) \/ TakeoverFails(n)
  \/ Listen(n) \/ Demote(n) \/ Store(n) \/ Crash(n) \/ Restart(n)

\* A step of the pair is a step of one of its nodes.
LEMMA StepOfNode ==
  ASSUME [PairNext]_vars
  PROVE  (\E n \in Nodes : NodeStep(n)) \/ UNCHANGED vars
  BY DEF PairNext, NodeStep

(***************************************************************************)
(* The type invariant (PairTypeOK).  The part about RoleMachine first.     *)
(***************************************************************************)
PairTypes ==
  /\ owner \in Nodes \cup {None} /\ verdict \in [Nodes -> Roles \cup {Empty}]
  /\ decided \in [Nodes -> Roles \cup {Empty}]
  /\ watch \in [Nodes -> 0..MaxWatch] /\ taking \in [Nodes -> BOOLEAN]
  /\ link \in [Nodes -> Nodes \cup {None}]

\* A send to roleCh asks for a role or does nothing.
LEMMA OfferIsRoleStep ==
  ASSUME NEW n \in Nodes, NEW r \in Roles, Offer(n, r)
  PROVE  RoleStep(n)
  BY DEF Offer, RoleStep

\* What a node does is a step of its RoleMachine.
LEMMA NodeStepIsRoleStep ==
  ASSUME NEW n \in Nodes, PairTypes, NodeStep(n)
  PROVE  RoleStep(n)
<1>1. CASE Check(n) \/ Compare(n) \/ Detach(n)
  BY <1>1 DEF Check, Compare, Detach, RoleStep
<1>2. CASE Send(n)
  <2>1. decided[n] \in Roles
    BY <1>2 DEF Send, PairTypes
  <2> QED
    BY <1>2, <2>1, OfferIsRoleStep DEF Send
<1>3. CASE Silence(n)
  BY <1>3, OfferIsRoleStep DEF Silence, Roles
<1>4. CASE Attach(n) \/ TakeNothing(n) \/ TakeoverFails(n)
  BY <1>4 DEF Attach, TakeNothing, TakeoverFails, Promoted, RoleStep
<1>5. CASE Start(n) \/ Shutdown(n) \/ CleanedUp(n) \/ Listen(n) \/ Demote(n) \/ Store(n)
  BY <1>5 DEF Start, Shutdown, CleanedUp, Listen, Demote, Store, RoleStep
<1>6. CASE Crash(n) \/ Restart(n)
  BY <1>6 DEF Crash, Restart, RoleStep
<1> QED
  BY <1>1, <1>2, <1>3, <1>4, <1>5, <1>6 DEF NodeStep

\* A step of a node keeps the types of what the pair adds.
LEMMA PairTypesStep ==
  ASSUME RoleTypes, PairTypes, NEW n \in Nodes, NodeStep(n)
  PROVE  PairTypes'
<1> USE BoundsAssumption DEF PairTypes
<1>1. CASE Check(n)
  BY <1>1 DEF Check, CheckENIOwnership, Roles
<1>2. CASE Compare(n) \/ Send(n)
  BY <1>2 DEF Compare, Send
<1>3. CASE Silence(n)
  BY <1>3 DEF Silence
<1>4. CASE Start(n) \/ Listen(n) \/ Store(n) \/ Restart(n)
  BY <1>4 DEF Start, Listen, Store, Restart, pairVars
<1>5. CASE Shutdown(n)
  BY <1>5 DEF Shutdown, Unlinked
<1>6. CASE CleanedUp(n)
  BY <1>6 DEF CleanedUp
<1>7. CASE Detach(n)
  BY <1>7 DEF Detach, Address!Detach
<1>8. CASE Attach(n) \/ TakeNothing(n) \/ TakeoverFails(n)
  <2>1. owner' \in Nodes \cup {None} /\ taking' \in [Nodes -> BOOLEAN]
    BY <1>8 DEF Attach, TakeNothing, TakeoverFails, Address!Attach, Address!GiveUp, Address!Lose
  <2>2. Promoted(n)
    BY <1>8 DEF Attach, TakeNothing, TakeoverFails
  <2> QED
    BY <2>1, <2>2 DEF Promoted
<1>9. CASE Demote(n)
  BY <1>9 DEF Demote
<1>10. CASE Crash(n)
  BY <1>10 DEF Crash
<1> QED
  BY <1>1, <1>2, <1>3, <1>4, <1>5, <1>6, <1>7, <1>8, <1>9, <1>10 DEF NodeStep

(***************************************************************************)
(* Every connection has both its ends.                                     *)
(***************************************************************************)
LinkInv ==
  \A n \in Nodes : link[n] # None => client[n] = "made" /\ server[link[n]] = "up"

\* A step of a node keeps connections at servers that are up.
LEMMA LinkStep ==
  ASSUME RoleTypes, PairTypes, PhaseInv, LinkInv, NEW n \in Nodes, NodeStep(n)
  PROVE  LinkInv'
<1> USE NoneAssumption DEF RoleTypes, PairTypes, LinkInv
<1>1. CASE Check(n) \/ Compare(n) \/ Detach(n)
  BY <1>1 DEF Check, Compare, Detach, roleVars
<1>2. CASE Send(n) \/ Silence(n)
  BY <1>2 DEF Send, Silence, Offer, Ask, roleVars
<1>3. CASE Start(n) \/ Store(n) \/ Restart(n)
  BY <1>3 DEF Start, Begin, Store, Assign, Restart, Boot, pairVars
<1>4. CASE Shutdown(n)
  BY <1>4 DEF Shutdown, ShutServer, Unlinked
<1>5. CASE CleanedUp(n)
  BY <1>5 DEF CleanedUp, Cleared
<1>6. CASE Attach(n) \/ TakeNothing(n) \/ TakeoverFails(n)
  <2>1. MakeServer(n) /\ UNCHANGED link
    BY <1>6 DEF Attach, TakeNothing, TakeoverFails, Promoted
  <2> QED
    BY <2>1 DEF MakeServer, PhaseInv
<1>7. CASE Listen(n)
  BY <1>7 DEF Listen, ServerStarts, pairVars
<1>8. CASE Demote(n)
  BY <1>8 DEF Demote, MakeClient, PhaseInv
<1>9. CASE Crash(n)
  BY <1>9 DEF Crash, Halt
<1> QED
  BY <1>1, <1>2, <1>3, <1>4, <1>5, <1>6, <1>7, <1>8, <1>9 DEF NodeStep

(***************************************************************************)
(* All of it together is inductive; the part about RoleMachine is by       *)
(* itself, for a step of the pair is one of RoleMachine.                   *)
(***************************************************************************)
PairInv == RoleInv /\ PairTypes /\ LinkInv

\* The initial states satisfy the invariant.
LEMMA PairInvInit == PairInit => PairInv
  BY RoleInvInit, BoundsAssumption DEF PairInit, PairInv, PairTypes, LinkInv

\* Every step of the pair is a step of one of its RoleMachines, or of none.
LEMMA PairRoleStep == PairTypes /\ [PairNext]_vars => [Next]_roleVars
<1> SUFFICES ASSUME PairTypes, [PairNext]_vars PROVE [Next]_roleVars
  OBVIOUS
<1>1. ASSUME NEW n \in Nodes, NodeStep(n) PROVE [Next]_roleVars
  <2>1. RoleStep(n)
    BY <1>1, NodeStepIsRoleStep
  <2> QED
    BY <2>1 DEF RoleStep, Next
<1> QED
  BY <1>1, StepOfNode DEF vars

\* Every step of the pair keeps the invariant.
LEMMA PairInvStep == PairInv /\ [PairNext]_vars => PairInv'
<1> SUFFICES ASSUME PairInv, [PairNext]_vars PROVE PairInv'
  OBVIOUS
<1>1. RoleInv'
  BY PairRoleStep, RoleInvStep DEF PairInv
<1>2. PairTypes' /\ LinkInv'
  <2>1. CASE UNCHANGED vars
    BY <2>1 DEF vars, roleVars, pairVars, PairInv, PairTypes, LinkInv
  <2>2. ASSUME NEW n \in Nodes, NodeStep(n) PROVE PairTypes' /\ LinkInv'
    BY <2>2, PairTypesStep, LinkStep DEF PairInv, RoleInv
  <2> QED
    BY <2>1, <2>2, StepOfNode
<1> QED
  BY <1>1, <1>2 DEF PairInv

\* The invariant holds in every behaviour.
LEMMA PairInvAlways == PairSpec => []PairInv
  BY PairInvInit, PairInvStep, PTL DEF PairSpec

(***************************************************************************)
(* The composition is type correct (PairTypeOK).                           *)
(***************************************************************************)
THEOREM PairTypeCorrect == PairSpec => []PairTypeOK
<1>1. PairInv => PairTypeOK
  BY DEF PairInv, RoleInv, RoleTypes, PairTypes, PairTypeOK
<1> QED
  BY <1>1, PairInvAlways, PTL

(***************************************************************************)
(* What the nodes do together is, for each of them, what a RoleMachine     *)
(* does: the election, the address and the connections only choose when.   *)
(***************************************************************************)
LEMMA PairIsRoleMachine == PairSpec => Spec
<1>1. PairInit => Init
  BY DEF PairInit
<1>2. PairInv /\ [PairNext]_vars => [Next]_roleVars
  BY PairRoleStep DEF PairInv
<1> QED
  BY <1>1, <1>2, PairInvAlways, PTL DEF PairSpec, Spec

(***************************************************************************)
(* So a node answers fRPC requests only as a primary or when its promotion *)
(* is all but done (OnlyPrimaryServes), as in every RoleMachine.           *)
(***************************************************************************)
THEOREM ServersArePrimary == PairSpec => []OnlyPrimaryServes
  BY PairIsRoleMachine, MachineServesAsPrimary, PTL

(***************************************************************************)
(* A secondary pulls its state from a primary other than itself            *)
(* (PullsFromPrimary), for any number of nodes, crashes and restarts.      *)
(***************************************************************************)
THEOREM StateComesFromPrimary == PairSpec => []PullsFromPrimary
<1>1. PairInv => PullsFromPrimary
  <2> SUFFICES ASSUME PairInv, NEW n \in Nodes, NEW m \in Nodes, link[n] = m
               PROVE  /\ m # n /\ server[m] = "up"
                      /\ role[m] = RolePrimary \/ (phase[m] = "set" /\ target[m] = RolePrimary)
    BY DEF PullsFromPrimary
  <2>1. client[n] = "made" /\ server[m] = "up"
    BY NoneAssumption DEF PairInv, LinkInv
  <2> QED
    BY <2>1 DEF PairInv, RoleInv, PhaseInv, OnlyPrimaryServes
<1> QED
  BY <1>1, PairInvAlways, PTL

(***************************************************************************)
(* The address moves as AddressMove says, which is what ENITakeover does   *)
(* to it: nobody but a takeover touches it, also not a crash.              *)
(***************************************************************************)
LEMMA PairMoveStep ==
  ASSUME PairTypes, NEW n \in Nodes, NodeStep(n)
  PROVE  [Address!MoveNext]_(Address!moveVars)
<1> USE DEF PairTypes, Address!moveVars
<1>1. CASE Check(n) \/ Compare(n) \/ Send(n) \/ Silence(n)
  BY <1>1 DEF Check, Compare, Send, Silence
<1>2. CASE Start(n) \/ Shutdown(n) \/ CleanedUp(n) \/ Listen(n) \/ Demote(n) \/ Store(n) \/ Restart(n)
  BY <1>2 DEF Start, Shutdown, CleanedUp, Listen, Demote, Store, Restart, pairVars
<1>3. CASE Detach(n) \/ Attach(n)
  BY <1>3 DEF Detach, Attach, Address!MoveNext
<1>4. CASE TakeNothing(n)
  BY <1>4 DEF TakeNothing
<1>5. CASE TakeoverFails(n)
  BY <1>5 DEF TakeoverFails, Address!MoveNext
<1>6. CASE Crash(n)
  <2>1. CASE taking[n]
    <3>1. Address!GiveUp(n)
      BY <1>6, <2>1 DEF Crash, Address!GiveUp
    <3> QED
      BY <3>1 DEF Address!MoveNext
  <2>2. CASE ~taking[n]
    <3>1. UNCHANGED <<owner, taking>>
      BY <1>6, <2>2 DEF Crash
    <3> QED
      BY <3>1
  <2> QED
    BY <2>1, <2>2
<1> QED
  BY <1>1, <1>2, <1>3, <1>4, <1>5, <1>6 DEF NodeStep

\* The same of a whole behaviour.
THEOREM PairMovesAddress == PairSpec => Address!MoveSpec
<1>1. PairInit => Address!MoveInit
  BY DEF PairInit, Address!MoveInit
<1>2. PairInv /\ [PairNext]_vars => [Address!MoveNext]_(Address!moveVars)
  BY PairMoveStep, StepOfNode DEF PairInv, vars, pairVars, Address!moveVars
<1> QED
  BY <1>1, <1>2, PairInvAlways, PTL DEF PairSpec, Address!MoveSpec

(***************************************************************************)
(* What holds of every such move holds of the pair.                        *)
(***************************************************************************)
AP == INSTANCE AddressMove_proofs WITH Places <- Nodes, Home <- [n \in Nodes |-> n]

\* AP is Address with its theorems.
LEMMA PairIsAP == PairSpec => AP!MoveSpec
<1>1. Address!MoveInit => AP!MoveInit
  BY DEF Address!MoveInit, AP!MoveInit
<1>2. [Address!MoveNext]_(Address!moveVars) => [AP!MoveNext]_(AP!moveVars)
  BY DEF Address!MoveNext, Address!Detach, Address!Attach, Address!GiveUp, Address!Lose,
         Address!Elsewhere, Address!moveVars, AP!MoveNext, AP!Detach, AP!Attach, AP!GiveUp,
         AP!Lose, AP!Elsewhere, AP!moveVars
<1> QED
  BY <1>1, <1>2, PairMovesAddress, PTL DEF Address!MoveSpec, AP!MoveSpec

(***************************************************************************)
(* One node at a time is in the middle of a takeover, and nobody has the   *)
(* address then: also when nodes crash in it.                              *)
(***************************************************************************)
THEOREM OneTakesAtATime ==
  PairSpec => [](\A n \in Nodes : taking[n] => owner = None /\ \A m \in Nodes \ {n} : ~taking[m])
<1>1. AP!MoveSpec => []AP!OneHand
  BY AP!MoveIsExclusive
<1>2. AP!OneHand <=> \A n \in Nodes : taking[n] => owner = None /\ \A m \in Nodes \ {n} : ~taking[m]
  BY DEF AP!OneHand
<1> QED
  BY <1>1, <1>2, PairIsAP, PTL

(***************************************************************************)
(* Once the address is lost it stays lost (LostForGood), and from then on  *)
(* no secondary connects to a primary: connections only break.  The nodes  *)
(* go on to change roles without any state being passed on.                *)
(***************************************************************************)

\* No connection is new.
NoNewLink == \A n \in Nodes : link'[n] \in {link[n], None}

\* Only Demote connects, and to a node that has the address.
LEMMA LostLinkStep ==
  ASSUME PairTypes, owner = None, NEW n \in Nodes, NodeStep(n)
  PROVE  NoNewLink
<1> USE DEF NoNewLink, PairTypes
<1>1. CASE Check(n) \/ Compare(n) \/ Send(n) \/ Silence(n) \/ Detach(n) \/ Demote(n)
  BY <1>1 DEF Check, Compare, Send, Silence, Detach, Demote
<1>2. CASE Start(n) \/ Shutdown(n) \/ CleanedUp(n) \/ Listen(n) \/ Store(n) \/ Restart(n)
  BY <1>2 DEF Start, Shutdown, Unlinked, CleanedUp, Listen, Store, Restart, pairVars
<1>3. CASE Attach(n) \/ TakeNothing(n) \/ TakeoverFails(n)
  BY <1>3 DEF Attach, TakeNothing, TakeoverFails, Promoted
<1>4. CASE Crash(n)
  BY <1>4 DEF Crash
<1> QED
  BY <1>1, <1>2, <1>3, <1>4 DEF NodeStep

\* The two together.
THEOREM LostAddressIsolates ==
  PairSpec => [](AP!Gone => [](owner = None) /\ [][NoNewLink]_vars)
<1>1. AP!MoveSpec => [](AP!Gone => []AP!Gone)
  BY AP!LostForGood
<1>2. AP!Gone => owner = None
  BY DEF AP!Gone
<1>3. PairInv /\ owner = None /\ [PairNext]_vars => [NoNewLink]_vars
  BY LostLinkStep, StepOfNode DEF PairInv
<1> QED
  BY <1>1, <1>2, <1>3, PairIsAP, PairInvAlways, PTL DEF PairSpec

(***************************************************************************)
(* The safety half of OwnerServes: the election leaves a secondary alone,  *)
(* so outside of a transition a secondary always has a monitor at work or  *)
(* a request queued, whatever stale verdict made it one.  A promotion may  *)
(* stop its monitors early, for it ends with the role of a primary.        *)
(***************************************************************************)
Watched(n) == watch[n] > 0 \/ asked[n] # Empty

SecondariesWatched == \A n \in Nodes : role[n] = RoleSecondary /\ phase[n] = "rest" => Watched(n)

\* A transition to secondary has started a monitor before it stores the role.
WatchInv ==
  /\ SecondariesWatched
  /\ \A n \in Nodes : phase[n] = "set" /\ target[n] = RoleSecondary => Watched(n)

\* A step of a node keeps that: a monitor that goes leaves a request behind.
LEMMA WatchStep ==
  ASSUME RoleInv, PairTypes, WatchInv, NEW n \in Nodes, NodeStep(n)
  PROVE  WatchInv'
<1> USE BoundsAssumption DEF RoleInv, RoleTypes, PairTypes, WatchInv, SecondariesWatched, Watched, Move
<1>1. CASE Check(n) \/ Compare(n) \/ Detach(n) \/ Restart(n) \/ Listen(n)
  BY <1>1 DEF Check, Compare, Detach, Restart, Boot, Listen, ServerStarts, roleVars, pairVars
<1>2. CASE Send(n) \/ Silence(n)
  <2>1. UNCHANGED <<role, phase, target>>
    BY <1>2 DEF Send, Silence, Offer, Ask, roleVars
  <2>2. \A m \in Nodes : Watched(m) => Watched(m)'
    <3>1. CASE Send(n)
      BY <3>1 DEF Send, Offer, Ask, roleVars, Roles, Empty, RolePrimary, RoleSecondary
    <3>2. CASE Silence(n)
      BY <3>2 DEF Silence, Offer, Ask, roleVars, Empty, RolePrimary
    <3> QED
      BY <1>2, <3>1, <3>2
  <2> HIDE DEF Watched
  <2> QED
    BY <2>1, <2>2
<1>3. CASE Start(n)
  BY <1>3 DEF Start, Begin, pairVars
<1>4. CASE Shutdown(n) \/ CleanedUp(n)
  BY <1>4 DEF Shutdown, ShutServer, CleanedUp, Cleared
<1>5. CASE Attach(n) \/ TakeNothing(n) \/ TakeoverFails(n)
  <2>1. Promoted(n)
    BY <1>5 DEF Attach, TakeNothing, TakeoverFails
  <2>2. /\ target[n] = RolePrimary /\ UNCHANGED <<role, asked, target>>
        /\ phase' = [phase EXCEPT ![n] = "set"]
        /\ \A m \in Nodes \ {n} : watch'[m] = watch[m]
    BY <2>1 DEF Promoted, MakeServer
  <2> QED
    BY <2>2 DEF RolePrimary, RoleSecondary
<1>6. CASE Demote(n)
  BY <1>6 DEF Demote, MakeClient
<1>7. CASE Store(n)
  BY <1>7 DEF Store, Assign, pairVars
<1>8. CASE Crash(n)
  BY <1>8 DEF Crash, Halt, RoleUnknown, RoleSecondary
<1> QED
  BY <1>1, <1>2, <1>3, <1>4, <1>5, <1>6, <1>7, <1>8 DEF NodeStep

\* So no secondary of the pair is ever left to itself.
THEOREM SecondariesAreWatched == PairSpec => []SecondariesWatched
<1>1. PairInit => WatchInv
  BY DEF PairInit, Init, WatchInv, SecondariesWatched, RoleUnknown, RoleSecondary
<1>2. PairInv /\ WatchInv /\ [PairNext]_vars => WatchInv'
  <2> SUFFICES ASSUME PairInv, WatchInv, [PairNext]_vars PROVE WatchInv'
    OBVIOUS
  <2>1. CASE UNCHANGED vars
    BY <2>1 DEF vars, roleVars, pairVars, WatchInv, SecondariesWatched, Watched
  <2> QED
    BY <2>1, WatchStep, StepOfNode DEF PairInv
<1>3. WatchInv => SecondariesWatched
  BY DEF WatchInv
<1> QED
  BY <1>1, <1>2, <1>3, PairInvAlways, PTL DEF PairSpec

(***************************************************************************)
(* Why PairPingPong finds what it finds.  In a settled pair the election   *)
(* has nothing to ask for, and only a monitor does, which always asks for  *)
(* a promotion; and every node but the primary runs one, so there is no    *)
(* settled pair of two nodes or more that could stay settled for good.     *)
(***************************************************************************)
MonitorsAsk ==
  \A n \in Nodes : asked'[n] # Empty => asked'[n] = RolePrimary /\ watch'[n] < watch[n]

RestIsWatched ==
  Settled => \E p \in Nodes : owner = p /\ \A n \in Nodes \ {p} : watch[n] > 0

\* What a node does in a settled pair.
LEMMA SettledPairStep ==
  ASSUME PairTypes, RoleTypes, Settled, NEW n \in Nodes, NodeStep(n)
  PROVE  MonitorsAsk
<1>0. \A m \in Nodes : phase[m] = "rest" /\ asked[m] = Empty /\ decided[m] = Empty
  BY DEF Settled
<1>1. CASE asked' = asked
  BY <1>0, <1>1 DEF MonitorsAsk
<1>2. CASE Silence(n)
  <2>1. watch' = [watch EXCEPT ![n] = @ - 1] /\ watch[n] > 0 /\ watch \in [Nodes -> 0..MaxWatch]
    BY <1>2 DEF Silence, PairTypes
  <2>2. watch'[n] < watch[n]
    BY <2>1, BoundsAssumption DEF BoundsAssumption
  <2>3. asked' = [asked EXCEPT ![n] = RolePrimary]
    BY <1>0, <1>2 DEF Silence, Offer, Ask
  <2> QED
    BY <1>0, <2>2, <2>3 DEF MonitorsAsk, RoleTypes
<1>3. Send(n) => FALSE
  BY <1>0 DEF Send
<1>4. Check(n) \/ Compare(n) \/ Detach(n) \/ Restart(n) \/ Listen(n) => asked' = asked
  BY DEF Check, Compare, Detach, Restart, Boot, Listen, ServerStarts, roleVars
<1>5. Start(n) => FALSE
  BY <1>0 DEF Start, Begin
<1>6. Shutdown(n) \/ CleanedUp(n) \/ Demote(n) \/ Store(n) => asked' = asked
  BY DEF Shutdown, ShutServer, CleanedUp, Cleared, Demote, MakeClient, Store, Assign
<1>7. Attach(n) \/ TakeNothing(n) \/ TakeoverFails(n) => asked' = asked
  BY DEF Attach, TakeNothing, TakeoverFails, Promoted, MakeServer
<1>8. Crash(n) => MonitorsAsk
  BY <1>0 DEF Crash, Halt, MonitorsAsk, RoleTypes
<1> QED
  BY <1>1, <1>2, <1>3, <1>4, <1>5, <1>6, <1>7, <1>8 DEF NodeStep

\* The two together.
THEOREM OnlyMonitorsDisturb == PairSpec => []RestIsWatched /\ [][Settled => MonitorsAsk]_vars
<1>1. SecondariesWatched => RestIsWatched
  BY DEF SecondariesWatched, Watched, RestIsWatched, Settled
<1>2. PairInv /\ [PairNext]_vars => [Settled => MonitorsAsk]_vars
  BY SettledPairStep, StepOfNode DEF PairInv, RoleInv
<1> QED
  BY <1>1, <1>2, SecondariesAreWatched, PairInvAlways, PTL DEF PairSpec
=============================================================================
