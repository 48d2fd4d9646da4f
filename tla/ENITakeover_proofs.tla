-------------------------- MODULE ENITakeover_proofs --------------------------
(* Theorems about ENITakeover, for any set of nodes, addresses, interfaces and *)
(* route tables, and any number of takeovers at the same time.                 *)
EXTENDS ENITakeover, FiniteSetTheorems, TLAPS

FaultStep(n) == FaultAborts(n) \/ FaultInEIP(n) \/ FaultIgnored(n) \/ FaultInWork(n) \/ Crash(n)

(***************************************************************************)
(* Type correctness.                                                       *)
(***************************************************************************)
LEMMA Constants ==
  MyENI \in [Nodes -> ENIs] /\ None \notin ENIs /\ MaxFaults \in Nat
  BY NodeAssumption, NoneAssumption, BoundAssumption
     DEF NodeAssumption, NoneAssumption, BoundAssumption

\* The initial states are well-typed.
LEMMA TypeInit == Init => TypeOK
<1> SUFFICES ASSUME Init PROVE TypeOK
  OBVIOUS
<1>1. owner \in [IPs -> MaybeENI] /\ route \in [Tables -> MaybeENI] /\ eip \in MaybeENI
  BY DEF Init, MaybeENI
<1>2. faults \in 0..MaxFaults
  BY Constants DEF Init
<1> QED
  BY <1>1, <1>2 DEF Init, TypeOK, MaybeENI

(***************************************************************************)
(* What a request does to EC2 keeps its state well-typed.                  *)
(***************************************************************************)
EC2OK == owner \in [IPs -> MaybeENI] /\ route \in [Tables -> MaybeENI] /\ eip \in MaybeENI

\* An unassigned address leaves owner and eip in their types.
LEMMA UnassignedType ==
  ASSUME EC2OK, NEW ip \in IPs, NEW e, Unassigned(ip, e)
  PROVE  EC2OK'
  BY DEF EC2OK, MaybeENI, Unassigned

\* An assigned address is on an interface.
LEMMA AssignedType ==
  ASSUME EC2OK, NEW ip \in IPs, NEW e \in ENIs, Assigned(ip, e)
  PROVE  EC2OK'
  BY DEF EC2OK, MaybeENI, Assigned

\* The start of the two goroutines of executeFailoverActions keeps the types.
LEMMA StartWorkType ==
  ASSUME TypeOK, NEW n \in Nodes, NEW e \in MaybeENI, NEW ips \in SUBSET FloatingIPs,
         StartWork(n, e, ips), pc[n] \in {"describe", "scan"},
         UNCHANGED ec2Vars, faults' \in 0..MaxFaults, unseen' \in [Nodes -> SUBSET ENIs]
  PROVE  TypeOK'
<1> USE DEF TypeOK, StartWork, Goto, ec2Vars
<1>1. /\ drop' \in [Nodes -> SUBSET FloatingIPs] /\ add' \in [Nodes -> SUBSET FloatingIPs]
      /\ tablesPc' \in [Nodes -> {"describe", "done"}] /\ old' \in [Nodes -> MaybeENI]
  OBVIOUS
<1>2. /\ pc' = [pc EXCEPT ![n] = "work"]
      /\ UNCHANGED <<owner, route, eip, cur, new, tables, failed, result>>
  OBVIOUS
<1> QED
  BY <1>1, <1>2

(***************************************************************************)
(* Leaving executeFailoverActions early, whatever happened to EC2.         *)
(***************************************************************************)
LEMMA AbortType ==
  ASSUME TypeOK, NEW n \in Nodes, Abort(n), EC2OK', faults' \in 0..MaxFaults
  PROVE  TypeOK'
  BY DEF TypeOK, EC2OK, Abort, Return, Goto, moveVars, workVars

\* Every step keeps TypeOK: it is inductive as it stands.
LEMMA TypeStep == TypeOK /\ [Next]_vars => TypeOK'
<1> SUFFICES ASSUME TypeOK, [Next]_vars PROVE TypeOK'
  OBVIOUS
<1>0. EC2OK
  BY DEF TypeOK, EC2OK
<1>1. CASE UNCHANGED vars
  BY <1>1 DEF TypeOK, vars, ec2Vars, moveVars, workVars
<1>2. ASSUME NEW n \in Nodes, Step(n) PROVE TypeOK'
  <2>1. CASE Begin(n)
    BY <2>1 DEF TypeOK, Begin, Goto, ec2Vars, moveVars
  <2>2. CASE Locate(n)
    <3>1. CASE Abort(n)
      BY <2>2, <3>1, <1>0, AbortType DEF Locate, ec2Vars, EC2OK, TypeOK
    <3>2. CASE ~Abort(n)
      BY <2>2, <3>2 DEF TypeOK, MaybeENI, IPs, Locate, Goto, ec2Vars, workVars
    <3> QED
      BY <3>1, <3>2
  <2>3. CASE Unassign(n)
    <3>0. EC2OK'
      BY <1>0, <2>3, UnassignedType DEF Unassign, UnassignRefused, ec2Vars, EC2OK, IPs
    <3>1. CASE Abort(n)
      BY <2>3, <3>0, <3>1, AbortType DEF Unassign, TypeOK
    <3>2. CASE ~Abort(n)
      BY <2>3, <3>0, <3>2 DEF TypeOK, EC2OK, Unassign, Goto, moveVars, workVars
    <3> QED
      BY <3>1, <3>2
  <2>4. CASE Assign(n)
    <3>0. EC2OK'
      BY <1>0, <2>4, AssignedType, Constants DEF Assign, AssignRefused, ec2Vars, EC2OK, IPs
    <3>1. CASE Abort(n)
      BY <2>4, <3>0, <3>1, AbortType DEF Assign, TypeOK
    <3>2. CASE ~Abort(n)
      BY <2>4, <3>0, <3>2 DEF TypeOK, EC2OK, Assign, Goto, moveVars, workVars
    <3> QED
      BY <3>1, <3>2
  <2>5. CASE Verify(n)
    <3>1. CASE Abort(n)
      BY <2>5, <3>1, <1>0, AbortType DEF Verify, ec2Vars, EC2OK, TypeOK
    <3>2. CASE ~Abort(n)
      BY <2>5, <3>2 DEF TypeOK, Verify, Goto, ec2Vars, moveVars, workVars
    <3> QED
      BY <3>1, <3>2
  <2>6. CASE FindEIP(n)
    BY <2>6 DEF TypeOK, FindEIP, Goto, ec2Vars, workVars
  <2>7. CASE DropEIP(n)
    BY <2>7 DEF TypeOK, MaybeENI, DropEIP, Goto, moveVars, workVars
  <2>8. CASE BindEIP(n)
    BY <2>8, Constants DEF TypeOK, MaybeENI, BindEIP, Goto, moveVars, workVars
  <2>9. CASE Identify(n)
    <3>1. CASE Abort(n)
      BY <2>9, <3>1, <1>0, AbortType DEF Identify, ec2Vars, EC2OK, TypeOK
    <3>2. CASE ~Abort(n)
      BY <2>9, <3>2 DEF TypeOK, MaybeENI, IPs, Identify, Goto, ec2Vars, workVars
    <3> QED
      BY <3>1, <3>2
  <2>10. CASE Describe(n)
    BY <2>10 DEF TypeOK, Describe, Goto, ec2Vars, workVars
  <2>11. CASE Scan(n)
    <3>1. ASSUME NEW e \in unseen[n], unseen' = [unseen EXCEPT ![n] = @ \ {e}],
                 StartWork(n, e, FloatingOn(e))
          PROVE  TypeOK'
      <4>1. e \in MaybeENI /\ FloatingOn(e) \in SUBSET FloatingIPs
        BY DEF TypeOK, MaybeENI, FloatingOn
      <4>2. pc[n] \in {"describe", "scan"} /\ UNCHANGED ec2Vars /\ faults' \in 0..MaxFaults
        BY <2>11 DEF Scan, TypeOK
      <4>3. unseen' \in [Nodes -> SUBSET ENIs]
        BY <3>1 DEF TypeOK
      <4> QED
        BY <3>1, <4>1, <4>2, <4>3, StartWorkType
    <3>2. ASSUME NEW e \in unseen[n], unseen' = [unseen EXCEPT ![n] = @ \ {e}],
                 UNCHANGED <<pc, cur, new, old, workVars, result>>
          PROVE  TypeOK'
      BY <2>11, <3>2 DEF TypeOK, Scan, ec2Vars, workVars
    <3>3. CASE StartWork(n, None, {}) /\ UNCHANGED unseen
      BY <2>11, <3>3, StartWorkType DEF Scan, TypeOK, MaybeENI
    <3> QED
      BY <2>11, <3>1, <3>2, <3>3 DEF Scan
  <2>12. CASE DescribeTables(n)
    <3>1. failed' \in [Nodes -> BOOLEAN]
      BY <2>12 DEF DescribeTables, TypeOK
    <3> QED
      BY <2>12, <3>1 DEF TypeOK, DescribeTables, ec2Vars, moveVars
  <2>13. CASE Finish(n)
    BY <2>13 DEF TypeOK, Finish, Return, Goto, ec2Vars, moveVars, workVars
  <2>14. ASSUME NEW t \in Tables, ReplaceRoute(n, t) PROVE TypeOK'
    BY <2>14 DEF TypeOK, ReplaceRoute, moveVars
  <2>15. ASSUME NEW ip \in IPs, DropIP(n, ip) PROVE TypeOK'
    <3>1. EC2OK'
      BY <1>0, <2>15, UnassignedType DEF DropIP, UnassignRefused, ec2Vars, EC2OK
    <3> QED
      BY <2>15, <3>1 DEF TypeOK, EC2OK, DropIP, moveVars
  <2>16. ASSUME NEW ip \in IPs, AddIP(n, ip) PROVE TypeOK'
    <3>1. new[n] \in ENIs
      BY <2>16 DEF TypeOK, AddIP, MaybeENI
    <3>2. EC2OK'
      BY <1>0, <2>16, <3>1, AssignedType DEF AddIP, AssignRefused, ec2Vars, EC2OK
    <3> QED
      BY <2>16, <3>2 DEF TypeOK, EC2OK, AddIP, moveVars
  <2> QED
    BY <1>2, <2>1, <2>2, <2>3, <2>4, <2>5, <2>6, <2>7, <2>8, <2>9, <2>10, <2>11, <2>12, <2>13,
       <2>14, <2>15, <2>16 DEF Step
<1>3. ASSUME NEW n \in Nodes, FaultStep(n) PROVE TypeOK'
  <2>0. faults' \in 0..MaxFaults
    BY <1>3, Constants DEF TypeOK, FaultStep, FaultAborts, FaultInEIP, FaultIgnored, FaultInWork, Crash,
                           Lost, Fault
  <2>1. CASE FaultAborts(n)
    <3>1. EC2OK'
      BY <1>0, <2>1, UnassignedType, AssignedType, Constants
         DEF FaultAborts, ec2Vars, EC2OK, IPs
    <3> QED
      BY <2>0, <2>1, <3>1, AbortType DEF FaultAborts
  <2>2. CASE FaultIgnored(n)
    <3>1. CASE StartWork(n, None, {}) /\ UNCHANGED unseen /\ pc[n] = "describe"
      BY <2>0, <2>2, <3>1, StartWorkType DEF FaultIgnored, Lost, TypeOK, MaybeENI
    <3>2. ASSUME NEW e \in unseen[n], unseen' = [unseen EXCEPT ![n] = @ \ {e}],
                 UNCHANGED <<pc, cur, new, old, workVars, result>>
          PROVE  TypeOK'
      BY <2>0, <2>2, <3>2 DEF FaultIgnored, Lost, TypeOK, ec2Vars, workVars
    <3> QED
      BY <2>2, <3>1, <3>2 DEF FaultIgnored
  <2>3. CASE FaultInWork(n)
    <3>1. EC2OK'
      <4>1. new[n] \in ENIs
        BY <2>3 DEF FaultInWork, TypeOK, MaybeENI
      <4> QED
        BY <1>0, <2>3, <4>1, UnassignedType, AssignedType
           DEF FaultInWork, ec2Vars, EC2OK, IPs, TypeOK
    <3>2. /\ drop' \in [Nodes -> SUBSET FloatingIPs] /\ add' \in [Nodes -> SUBSET FloatingIPs]
          /\ tables' \in [Nodes -> SUBSET Tables]
          /\ tablesPc' \in [Nodes -> {"describe", "done"}]
      BY <2>3 DEF FaultInWork, TypeOK
    <3> QED
      BY <2>0, <2>3, <3>1, <3>2 DEF TypeOK, EC2OK, FaultInWork, moveVars
  <2>4. CASE Crash(n)
    BY <2>0, <2>4 DEF TypeOK, Crash, Lost, Return, Goto, ec2Vars, moveVars
  <2>5. CASE FaultInEIP(n)
    <3>1. eip' \in MaybeENI
      BY <2>5, Constants DEF FaultInEIP, TypeOK, MaybeENI
    <3> QED
      BY <2>0, <2>5, <3>1 DEF TypeOK, FaultInEIP, Goto, moveVars, workVars
  <2> QED
    BY <1>3, <2>1, <2>2, <2>3, <2>4, <2>5 DEF FaultStep
<1> QED
  BY <1>1, <1>2, <1>3 DEF Next, FaultStep

\* Every variable keeps its type, and what is used as an interface is one (TypeOK).
THEOREM TypeCorrect == Spec => []TypeOK
  BY TypeInit, TypeStep, PTL DEF Spec

(***************************************************************************)
(* NoLossWithoutFault.  It is not inductive: that the unassign phase of    *)
(* ReassignFloatingIPs leaves no address behind rests on every address     *)
(* still to be unassigned being still to be assigned as well.              *)
(***************************************************************************)
DropsAreAdded == \A n \in Nodes : pc[n] = "work" => drop[n] \subseteq add[n]

LossInv == NoLossWithoutFault /\ DropsAreAdded

\* At first every address is on an interface.
LEMMA LossInit == Init => LossInv
  BY Constants DEF Init, LossInv, NoLossWithoutFault, DropsAreAdded

(***************************************************************************)
(* A fault-free step of node n that takes no address away and gives up     *)
(* only addresses that have an interface.                                  *)
(***************************************************************************)
LEMMA KeepsPromises ==
  ASSUME NoLossWithoutFault, NEW n \in Nodes, UNCHANGED faults,
         \A m \in Nodes \ {n} : \A ip \in IPs : WillAssign(m, ip) => WillAssign(m, ip)',
         \A ip \in IPs : owner'[ip] = None => (owner[ip] = None \/ WillAssign(n, ip)'),
         \A ip \in IPs : (WillAssign(n, ip) /\ owner'[ip] = None) => WillAssign(n, ip)'
  PROVE  NoLossWithoutFault'
  BY DEF NoLossWithoutFault

(***************************************************************************)
(* Until it works on the floating addresses, only an Assign gives up       *)
(* something, namely ENIIP.                                                *)
(***************************************************************************)
LEMMA EarlySteps ==
  ASSUME TypeOK, LossInv, NEW n \in Nodes,
         \/ Begin(n) \/ Locate(n) \/ Unassign(n) \/ Assign(n) \/ Verify(n)
         \/ FindEIP(n) \/ DropEIP(n) \/ BindEIP(n) \/ Identify(n) \/ Describe(n) \/ Scan(n)
  PROVE  LossInv'
<1> USE DEF ec2Vars, moveVars, workVars
<1>1. CASE Unassign(n)
  <2>1. pc[n] = "unassign" /\ UNCHANGED <<faults, add, drop>>
        /\ \/ Unassigned(ENIIP, cur[n]) /\ pc' = [pc EXCEPT ![n] = "assign"]
           \/ UNCHANGED owner /\ pc' = [pc EXCEPT ![n] = "idle"]
    BY <1>1 DEF Unassign, UnassignRefused, Abort, Return, Goto
  <2>2. NoLossWithoutFault'
    BY <2>1, KeepsPromises DEF TypeOK, LossInv, WillAssign, Unassigned
  <2> QED
    BY <2>1, <2>2 DEF TypeOK, LossInv, DropsAreAdded
<1>2. CASE Assign(n)
  <2>1. pc[n] = "assign" /\ UNCHANGED <<faults, add, drop>>
        /\ pc' \in {[pc EXCEPT ![n] = "verify"], [pc EXCEPT ![n] = "idle"]}
    BY <1>2 DEF Assign, Abort, Return, Goto
  <2>2. owner'[ENIIP] # None /\ \A ip \in IPs : owner'[ip] = None => owner[ip] = None
    BY <1>2, Constants DEF Assign, Assigned, AssignRefused, TypeOK, IPs
  <2>3. NoLossWithoutFault'
    BY <2>1, <2>2, KeepsPromises DEF TypeOK, LossInv, WillAssign
  <2> QED
    BY <2>1, <2>3 DEF TypeOK, LossInv, DropsAreAdded
<1>3. CASE Scan(n)
  <2>1. pc[n] = "scan" /\ UNCHANGED <<faults, owner>>
    BY <1>3 DEF Scan
  <2>2. \/ UNCHANGED <<pc, add, drop>>
        \/ \E ips \in SUBSET FloatingIPs :
             /\ pc' = [pc EXCEPT ![n] = "work"]
             /\ drop' = [drop EXCEPT ![n] = ips] /\ add' = [add EXCEPT ![n] = ips]
    BY <1>3 DEF Scan, StartWork, Goto, FloatingOn
  <2>3. NoLossWithoutFault'
    BY <2>1, <2>2, KeepsPromises DEF TypeOK, LossInv, WillAssign
  <2> QED
    BY <2>1, <2>2, <2>3 DEF TypeOK, LossInv, DropsAreAdded
<1>4. CASE \/ Begin(n) \/ Locate(n) \/ Verify(n) \/ FindEIP(n) \/ DropEIP(n) \/ BindEIP(n)
           \/ Identify(n) \/ Describe(n)
  <2>1. /\ pc[n] \notin {"assign", "work"} /\ UNCHANGED <<faults, owner, add, drop>>
        /\ \E label \in {"idle", "locate", "unassign", "verify", "findEIP", "dropEIP", "bindEIP",
                          "identify", "describe", "scan"} : pc' = [pc EXCEPT ![n] = label]
    BY <1>4 DEF Begin, Locate, Verify, FindEIP, DropEIP, BindEIP, Identify, Describe,
                Abort, Return, Goto
  <2>2. NoLossWithoutFault'
    BY <2>1, KeepsPromises DEF TypeOK, LossInv, WillAssign
  <2> QED
    BY <2>1, <2>2 DEF TypeOK, LossInv, DropsAreAdded
<1> QED
  BY <1>1, <1>2, <1>3, <1>4

(***************************************************************************)
(* The two goroutines: DropIP leaves the address to AddIP, and AddIP drops *)
(* it from its list only when it has an interface, ours or another one.    *)
(***************************************************************************)
LEMMA WorkSteps ==
  ASSUME TypeOK, LossInv, NEW n \in Nodes,
         \/ DescribeTables(n) \/ Finish(n)
         \/ \E t \in Tables : ReplaceRoute(n, t)
         \/ \E ip \in IPs : DropIP(n, ip) \/ AddIP(n, ip)
  PROVE  LossInv'
<1>1. CASE DescribeTables(n) \/ \E t \in Tables : ReplaceRoute(n, t)
  <2>1. UNCHANGED <<faults, owner, pc, add, drop>>
    BY <1>1 DEF DescribeTables, ReplaceRoute, ec2Vars
  <2> QED
    BY <2>1 DEF LossInv, NoLossWithoutFault, DropsAreAdded, WillAssign
<1>2. CASE Finish(n)
  <2>1. /\ UNCHANGED <<faults, owner, add, drop>> /\ pc[n] = "work" /\ add[n] = {}
        /\ pc' = [pc EXCEPT ![n] = "idle"]
    BY <1>2 DEF Finish, Return, Goto, ec2Vars, workVars
  <2>2. NoLossWithoutFault'
    BY <2>1, KeepsPromises DEF TypeOK, LossInv, WillAssign
  <2> QED
    BY <2>1, <2>2 DEF TypeOK, LossInv, DropsAreAdded
<1>3. ASSUME NEW ip \in IPs, DropIP(n, ip) PROVE LossInv'
  <2>1. /\ pc[n] = "work" /\ ip \in add[n] /\ UNCHANGED <<faults, pc, add>>
        /\ drop' = [drop EXCEPT ![n] = @ \ {ip}]
    BY <1>3 DEF DropIP, LossInv, DropsAreAdded
  <2>2. \A x \in IPs : owner'[x] = None => (owner[x] = None \/ x = ip)
    BY <1>3 DEF DropIP, Unassigned, UnassignRefused, ec2Vars, TypeOK
  <2>3. NoLossWithoutFault'
    BY <2>1, <2>2, KeepsPromises DEF LossInv, WillAssign
  <2> QED
    BY <2>1, <2>3 DEF TypeOK, LossInv, DropsAreAdded
<1>4. ASSUME NEW ip \in IPs, AddIP(n, ip) PROVE LossInv'
  <2>1. /\ pc[n] = "work" /\ drop[n] = {} /\ UNCHANGED <<faults, pc, drop>>
        /\ add' = [add EXCEPT ![n] = @ \ {ip}]
    BY <1>4 DEF AddIP
  <2>2. new[n] # None
    BY <2>1 DEF TypeOK
  <2>3. owner'[ip] # None /\ \A x \in IPs : owner'[x] = None => owner[x] = None
    BY <1>4, <2>2 DEF AddIP, Assigned, AssignRefused, ec2Vars, TypeOK
  <2>4. NoLossWithoutFault'
    BY <2>1, <2>3, KeepsPromises DEF TypeOK, LossInv, WillAssign
  <2> QED
    BY <2>1, <2>4 DEF TypeOK, LossInv, DropsAreAdded
<1> QED
  BY <1>1, <1>2, <1>3, <1>4

\* Every step keeps the promise of whoever has unassigned an address.
LEMMA LossStep == TypeOK /\ LossInv /\ [Next]_vars => LossInv'
<1> SUFFICES ASSUME TypeOK, LossInv, [Next]_vars PROVE LossInv'
  OBVIOUS
<1>1. CASE UNCHANGED vars
  BY <1>1 DEF vars, ec2Vars, workVars, LossInv, NoLossWithoutFault, DropsAreAdded, WillAssign
<1>2. ASSUME NEW n \in Nodes, Step(n) PROVE LossInv'
  BY <1>2, EarlySteps, WorkSteps DEF Step
<1>3. ASSUME NEW n \in Nodes, FaultStep(n) PROVE LossInv'
  <2>1. NoLossWithoutFault'
    <3>1. faults' # 0
      BY <1>3 DEF FaultStep, FaultAborts, FaultInEIP, FaultIgnored, FaultInWork, Crash, Lost, Fault, TypeOK
    <3> QED
      BY <3>1 DEF NoLossWithoutFault
  <2>2. DropsAreAdded'
    <3>1. CASE FaultAborts(n) \/ Crash(n)
      BY <3>1 DEF FaultAborts, Crash, Abort, Return, Goto, workVars, LossInv, DropsAreAdded, TypeOK
    <3>2. CASE FaultInEIP(n) \/ FaultIgnored(n)
      BY <3>2 DEF FaultInEIP, FaultIgnored, StartWork, Goto, moveVars, workVars, LossInv, DropsAreAdded, TypeOK
    <3>3. CASE FaultInWork(n)
      BY <3>3 DEF FaultInWork, LossInv, DropsAreAdded, TypeOK
    <3> QED
      BY <1>3, <3>1, <3>2, <3>3 DEF FaultStep
  <2> QED
    BY <2>1, <2>2 DEF LossInv
<1> QED
  BY <1>1, <1>2, <1>3 DEF Next, FaultStep

(***************************************************************************)
(* However many nodes take over at once, no address is lost as long as no  *)
(* request fails and no process dies (NoLossWithoutFault).                 *)
(***************************************************************************)
THEOREM NothingLostWithoutFault == Spec => []NoLossWithoutFault
<1>1. LossInv => NoLossWithoutFault
  BY DEF LossInv
<1> QED
  BY <1>1, TypeInit, TypeStep, LossInit, LossStep, PTL DEF Spec

(***************************************************************************)
(* SuccessMeansOwnership and SoloSucceeds, for takeovers that do not       *)
(* overlap.  Whatever has failed, the node at work has the address from    *)
(* the moment it has verified that, and every route it has replaced        *)
(* (OwnInv).  As long as nothing has failed, everything was in one place   *)
(* before and is where the progress of the takeover says (SoloInv).        *)
(***************************************************************************)
Rest == FloatingIPs \ {ENIIP}
Together(ips, e) == \A ip \in ips : owner[ip] = e
Gathered == \E e \in ENIs : Together(IPs, e) /\ eip \in {None, e}

Alone == \A m, n \in Nodes : pc[m] # "idle" /\ pc[n] # "idle" => m = n

OwnsENIIP(n) ==
  /\ pc[n] \in {"verify", "findEIP", "dropEIP", "bindEIP", "identify", "describe", "scan", "work"}
       => owner[ENIIP] = MyENI[n]
  /\ pc[n] \in {"describe", "scan", "work"} => new[n] = MyENI[n]
  /\ pc[n] = "scan" => MyENI[n] \notin unseen[n]
  /\ pc[n] = "work" => drop[n] \cup add[n] \subseteq Rest

RoutesDone(n) ==
  (pc[n] = "work" /\ tablesPc[n] = "done" /\ DestinationCIDR /\ ~failed[n]) =>
     \A t \in Tables \ tables[n] : route[t] = MyENI[n]

OwnInv == ~Overlapping => Alone /\ \A n \in Nodes : OwnsENIIP(n) /\ RoutesDone(n)

EIPFollows(n) ==
  /\ pc[n] = "dropEIP" => cur[n] = eip
  /\ pc[n] \in {"identify", "describe", "scan", "work"} => eip \in {None, MyENI[n]}

MidMove(n) ==
  /\ pc[n] = "locate" => Gathered
  /\ pc[n] = "unassign" => Gathered /\ cur[n] = owner[ENIIP]
  /\ pc[n] = "assign" => owner[ENIIP] = None
  /\ pc[n] \in {"assign", "verify", "findEIP", "dropEIP", "bindEIP", "identify", "describe"} =>
       \E e \in ENIs : Together(Rest, e)
  /\ pc[n] = "scan" => \E e \in unseen[n] \cup {MyENI[n]} : Together(Rest, e)

Reassigned(n) == pc[n] = "work" =>
  /\ drop[n] \subseteq add[n] /\ Together(drop[n], old[n])
  /\ Together(add[n] \ drop[n], None) /\ Together(Rest \ add[n], MyENI[n])

NoError(n) ==
  /\ (DestinationCIDR => Tables # {}) => result[n] # "error" /\ (pc[n] # "idle" => ~failed[n])
  /\ pc[n] = "work" /\ tablesPc[n] = "describe" => DestinationCIDR

Placed(n) == EIPFollows(n) /\ MidMove(n) /\ Reassigned(n) /\ NoError(n)

SoloInv == (~Overlapping /\ faults = 0) =>
  /\ (\A n \in Nodes : pc[n] = "idle") => Gathered
  /\ \A n \in Nodes : Placed(n)

\* At first nobody is at work and everything is in one place.
LEMMA SoloInit == Init => OwnInv /\ SoloInv
<1> SUFFICES ASSUME Init PROVE OwnInv /\ SoloInv
  OBVIOUS
<1>1. \A n \in Nodes : pc[n] = "idle" /\ result[n] = "none"
  BY DEF Init
<1>2. Gathered
  BY DEF Init, Gathered, Together
<1> QED
  BY <1>1, <1>2 DEF OwnInv, Alone, OwnsENIIP, RoutesDone, SoloInv, Placed, EIPFollows, MidMove,
                    Reassigned, NoError

\* A step of one node leaves the others where they are, and begins with Begin.
LEMMA OthersStay ==
  ASSUME TypeOK, NEW n \in Nodes, Step(n) \/ FaultStep(n)
  PROVE  /\ \A m \in Nodes \ {n} : pc'[m] = pc[m] /\ result'[m] = result[m]
         /\ pc[n] = "idle" => Begin(n)
<1> USE DEF TypeOK, Goto, Return, Abort, moveVars, workVars
<1>1. CASE Begin(n)
  BY <1>1 DEF Begin
<1>2. CASE Locate(n) \/ Unassign(n) \/ Assign(n) \/ Verify(n) \/ Identify(n)
  BY <1>2 DEF Locate, Unassign, Assign, Verify, Identify
<1>3. CASE FindEIP(n) \/ DropEIP(n) \/ BindEIP(n) \/ Describe(n) \/ Finish(n)
  BY <1>3 DEF FindEIP, DropEIP, BindEIP, Describe, Finish
<1>4. CASE Scan(n)
  BY <1>4 DEF Scan, StartWork
<1>5. CASE \/ DescribeTables(n) \/ \E t \in Tables : ReplaceRoute(n, t)
           \/ \E ip \in IPs : DropIP(n, ip) \/ AddIP(n, ip)
  BY <1>5 DEF DescribeTables, ReplaceRoute, DropIP, AddIP
<1>6. CASE FaultAborts(n)
  BY <1>6 DEF FaultAborts
<1>7. CASE FaultInEIP(n) \/ FaultIgnored(n)
  BY <1>7 DEF FaultInEIP, FaultIgnored, StartWork
<1>8. CASE FaultInWork(n)
  BY <1>8 DEF FaultInWork
<1>9. CASE Crash(n)
  BY <1>9 DEF Crash
<1> QED
  BY <1>1, <1>2, <1>3, <1>4, <1>5, <1>6, <1>7, <1>8, <1>9 DEF Step, FaultStep

\* So without overlap there are no others at work.
LEMMA OthersIdle ==
  ASSUME TypeOK, OwnInv, ~Overlapping, NEW n \in Nodes, Step(n) \/ FaultStep(n)
  PROVE  \A m \in Nodes \ {n} : pc[m] = "idle" /\ pc'[m] = "idle" /\ result'[m] = result[m]
<1>1. \A m \in Nodes \ {n} : pc[m] = "idle"
  <2>1. CASE pc[n] = "idle"
    BY <2>1, OthersStay DEF Begin
  <2>2. CASE pc[n] # "idle"
    BY <2>2 DEF OwnInv, Alone
  <2> QED
    BY <2>1, <2>2
<1> QED
  BY <1>1, OthersStay

\* To keep OwnInv a step has to keep it for the node that takes it.
LEMMA OwnLocal ==
  ASSUME TypeOK, OwnInv, NEW n \in Nodes, Step(n) \/ FaultStep(n),
         ~Overlapping => OwnsENIIP(n)' /\ RoutesDone(n)'
  PROVE  OwnInv'
<1> SUFFICES ASSUME ~Overlapping PROVE Alone' /\ \A m \in Nodes : OwnsENIIP(m)' /\ RoutesDone(m)'
  BY DEF OwnInv
<1>1. \A m \in Nodes \ {n} : pc'[m] = "idle"
  BY OthersIdle
<1> QED
  BY <1>1 DEF Alone, OwnsENIIP, RoutesDone

\* The steps of TakeOverENI and MoveEIPToENI: past Verify the address is ours.
LEMMA OwnMove ==
  ASSUME TypeOK, OwnInv, ~Overlapping, NEW n \in Nodes,
         \/ Begin(n) \/ Locate(n) \/ Unassign(n) \/ Assign(n) \/ Verify(n)
         \/ FindEIP(n) \/ DropEIP(n) \/ BindEIP(n) \/ Identify(n) \/ Describe(n)
  PROVE  OwnsENIIP(n)' /\ RoutesDone(n)'
<1> USE DEF TypeOK, Goto, Return, Abort, ec2Vars
<1>0. OwnsENIIP(n) /\ ENIIP \in IPs
  BY DEF OwnInv, IPs
<1>1. pc'[n] # "work"
  BY DEF Begin, Locate, Unassign, Assign, Verify, FindEIP, DropEIP, BindEIP, Identify, Describe
<1>2. CASE Begin(n) \/ Locate(n) \/ Verify(n)
  BY <1>1, <1>2 DEF Begin, Locate, Verify, OwnsENIIP, RoutesDone
<1>3. CASE Unassign(n)
  BY <1>1, <1>3 DEF Unassign, OwnsENIIP, RoutesDone
<1>4. CASE Assign(n)
  BY <1>0, <1>1, <1>4 DEF Assign, Assigned, OwnsENIIP, RoutesDone
<1>5. CASE FindEIP(n) \/ DropEIP(n) \/ BindEIP(n)
  BY <1>0, <1>1, <1>5 DEF FindEIP, DropEIP, BindEIP, OwnsENIIP, RoutesDone
<1>6. CASE Identify(n)
  BY <1>0, <1>1, <1>6 DEF Identify, OwnsENIIP, RoutesDone
<1>7. CASE Describe(n)
  BY <1>0, <1>1, <1>7, Constants DEF Describe, OwnsENIIP, RoutesDone
<1> QED
  BY <1>2, <1>3, <1>4, <1>5, <1>6, <1>7

\* The work starts with addresses that are not ours, so ENIIP is not one of them.
LEMMA OwnScan ==
  ASSUME TypeOK, OwnInv, ~Overlapping, NEW n \in Nodes, Scan(n)
  PROVE  OwnsENIIP(n)' /\ RoutesDone(n)'
<1> USE DEF TypeOK
<1>0. OwnsENIIP(n) /\ ENIIP \in IPs /\ pc[n] = "scan" /\ UNCHANGED <<owner, route, new>>
  BY DEF OwnInv, IPs, Scan, StartWork, ec2Vars
<1>1. CASE UNCHANGED <<pc, drop, add, failed>>
  BY <1>0, <1>1 DEF Scan, OwnsENIIP, RoutesDone
<1>2. CASE ~UNCHANGED <<pc, drop, add, failed>>
  <2>1. \/ \E e \in unseen[n] : StartWork(n, e, FloatingOn(e))
        \/ StartWork(n, None, {})
    BY <1>2 DEF Scan, workVars
  <2>2. PICK e \in MaybeENI, ips \in SUBSET FloatingIPs :
          StartWork(n, e, ips) /\ \A ip \in ips : owner[ip] \in unseen[n]
    <3>1. CASE StartWork(n, None, {})
      <4>1. None \in MaybeENI /\ {} \in SUBSET FloatingIPs /\ \A ip \in {} : owner[ip] \in unseen[n]
        BY DEF MaybeENI
      <4> QED
        BY <3>1, <4>1
    <3>2. ASSUME NEW e \in unseen[n], StartWork(n, e, FloatingOn(e))
          PROVE  \E f \in MaybeENI, ips \in SUBSET FloatingIPs :
                   StartWork(n, f, ips) /\ \A ip \in ips : owner[ip] \in unseen[n]
      <4>1. /\ FloatingOn(e) \in SUBSET FloatingIPs /\ e \in MaybeENI
            /\ \A ip \in FloatingOn(e) : owner[ip] \in unseen[n]
        BY DEF FloatingOn, MaybeENI
      <4> QED
        BY <3>2, <4>1
    <3> QED
      BY <2>1, <3>1, <3>2
  <2>3. ips \subseteq Rest
    BY <1>0, <2>2 DEF OwnsENIIP, Rest
  <2>4. OwnsENIIP(n)'
    BY <1>0, <2>2, <2>3 DEF OwnsENIIP, StartWork, Goto
  <2>5. RoutesDone(n)'
    BY <2>2 DEF RoutesDone, StartWork
  <2> QED
    BY <2>4, <2>5
<1> QED
  BY <1>1, <1>2

\* The goroutines move addresses other than ENIIP, and routes to us.
LEMMA OwnWork ==
  ASSUME TypeOK, OwnInv, ~Overlapping, NEW n \in Nodes,
         \/ DescribeTables(n) \/ Finish(n)
         \/ \E t \in Tables : ReplaceRoute(n, t)
         \/ \E ip \in IPs : DropIP(n, ip) \/ AddIP(n, ip)
  PROVE  OwnsENIIP(n)' /\ RoutesDone(n)'
<1> USE DEF TypeOK, ec2Vars, moveVars
<1>0. OwnsENIIP(n) /\ RoutesDone(n) /\ ENIIP \in IPs
  BY DEF OwnInv, IPs
<1>1. CASE DescribeTables(n)
  BY <1>0, <1>1 DEF DescribeTables, OwnsENIIP, RoutesDone
<1>2. CASE Finish(n)
  BY <1>0, <1>2 DEF Finish, Return, Goto, OwnsENIIP, RoutesDone
<1>3. ASSUME NEW t \in Tables, ReplaceRoute(n, t) PROVE OwnsENIIP(n)' /\ RoutesDone(n)'
  BY <1>0, <1>3 DEF ReplaceRoute, OwnsENIIP, RoutesDone
<1>4. ASSUME NEW ip \in IPs, DropIP(n, ip) PROVE OwnsENIIP(n)' /\ RoutesDone(n)'
  <2>1. /\ pc[n] = "work" /\ ip \in drop[n] /\ UNCHANGED <<pc, new, add, route, tablesPc, tables>>
        /\ drop' = [drop EXCEPT ![n] = @ \ {ip}]
        /\ failed' \in {failed, [failed EXCEPT ![n] = TRUE]}
        /\ owner' \in {owner, [owner EXCEPT ![ip] = None]}
    BY <1>4 DEF DropIP, Unassigned, UnassignRefused
  <2>2. ip # ENIIP
    BY <1>0, <2>1 DEF OwnsENIIP, Rest
  <2> QED
    BY <1>0, <2>1, <2>2 DEF OwnsENIIP, RoutesDone
<1>5. ASSUME NEW ip \in IPs, AddIP(n, ip) PROVE OwnsENIIP(n)' /\ RoutesDone(n)'
  <2>1. /\ pc[n] = "work" /\ ip \in add[n] /\ UNCHANGED <<pc, new, drop, route, tablesPc, tables>>
        /\ add' = [add EXCEPT ![n] = @ \ {ip}]
        /\ failed' \in {failed, [failed EXCEPT ![n] = TRUE]}
        /\ owner' \in {owner, [owner EXCEPT ![ip] = new[n]]}
    BY <1>5 DEF AddIP, Assigned, AssignRefused
  <2>2. ip # ENIIP
    BY <1>0, <2>1 DEF OwnsENIIP, Rest
  <2> QED
    BY <1>0, <2>1, <2>2 DEF OwnsENIIP, RoutesDone
<1> QED
  BY <1>1, <1>2, <1>3, <1>4, <1>5

\* Failures: the takeover ends, or goes on with what it knows.
LEMMA OwnFault ==
  ASSUME TypeOK, OwnInv, ~Overlapping, NEW n \in Nodes, FaultStep(n)
  PROVE  OwnsENIIP(n)' /\ RoutesDone(n)'
<1> USE DEF TypeOK, Lost, ec2Vars, moveVars
<1>0. OwnsENIIP(n) /\ RoutesDone(n) /\ ENIIP \in IPs
  BY DEF OwnInv, IPs
<1>1. CASE FaultAborts(n) \/ Crash(n)
  <2>1. pc'[n] = "idle"
    BY <1>1 DEF FaultAborts, Crash, Abort, Return, Goto
  <2> QED
    BY <2>1 DEF OwnsENIIP, RoutesDone
<1>2. CASE FaultInEIP(n) \/ FaultIgnored(n)
  <2>1. CASE FaultInEIP(n)
    BY <1>0, <2>1 DEF FaultInEIP, workVars, Goto, OwnsENIIP, RoutesDone
  <2>2. CASE FaultIgnored(n) /\ pc[n] = "describe"
    BY <1>0, <2>2 DEF FaultIgnored, StartWork, Goto, OwnsENIIP, RoutesDone
  <2>3. CASE FaultIgnored(n) /\ pc[n] = "scan"
    BY <1>0, <2>3 DEF FaultIgnored, OwnsENIIP, RoutesDone
  <2> QED
    BY <1>2, <2>1, <2>2, <2>3 DEF FaultIgnored
<1>3. CASE FaultInWork(n)
  <2>1. pc[n] = "work" /\ failed'[n] = TRUE /\ UNCHANGED <<pc, new>>
    BY <1>3 DEF FaultInWork
  <2>2. drop'[n] \subseteq drop[n] /\ add'[n] \subseteq add[n] /\ owner'[ENIIP] = owner[ENIIP]
    BY <1>0, <1>3, <2>1 DEF FaultInWork, OwnsENIIP, Rest, Unassigned, Assigned
  <2> QED
    BY <1>0, <2>1, <2>2 DEF OwnsENIIP, RoutesDone
<1> QED
  BY <1>1, <1>2, <1>3 DEF FaultStep

\* Every step keeps OwnInv.
LEMMA OwnStep == TypeOK /\ OwnInv /\ [Next]_vars => OwnInv'
<1> SUFFICES ASSUME TypeOK, OwnInv, [Next]_vars PROVE OwnInv'
  OBVIOUS
<1>1. CASE UNCHANGED vars
  BY <1>1 DEF vars, ec2Vars, moveVars, workVars, OwnInv, Alone, OwnsENIIP, RoutesDone
<1>2. ASSUME NEW n \in Nodes, Step(n) PROVE OwnInv'
  BY <1>2, OwnLocal, OwnMove, OwnScan, OwnWork DEF Step
<1>3. ASSUME NEW n \in Nodes, FaultStep(n) PROVE OwnInv'
  BY <1>3, OwnLocal, OwnFault
<1> QED
  BY <1>1, <1>2, <1>3 DEF Next, FaultStep

\* To keep SoloInv a step has to keep it for the node that takes it; a failure
\* keeps it because nothing is claimed after one.
LEMMA SoloLocal ==
  ASSUME TypeOK, OwnInv, SoloInv, NEW n \in Nodes, Step(n), UNCHANGED faults,
         (~Overlapping /\ faults = 0) => Placed(n)' /\ (pc'[n] = "idle" => Gathered')
  PROVE  SoloInv'
<1> SUFFICES ASSUME ~Overlapping, faults = 0
             PROVE  /\ (\A m \in Nodes : pc'[m] = "idle") => Gathered'
                    /\ \A m \in Nodes : Placed(m)'
  BY DEF SoloInv
<1>1. \A m \in Nodes \ {n} : pc'[m] = "idle" /\ result'[m] = result[m]
  BY OthersIdle
<1>2. \A m \in Nodes \ {n} : Placed(m)'
  BY <1>1 DEF SoloInv, Placed, EIPFollows, MidMove, Reassigned, NoError
<1> QED
  BY <1>2

\* TakeOverENI: the address leaves the place where everything is, and arrives.
LEMMA SoloTakeOver ==
  ASSUME TypeOK, OwnInv, SoloInv, ~Overlapping, faults = 0, NEW n \in Nodes,
         Begin(n) \/ Locate(n) \/ Unassign(n) \/ Assign(n) \/ Verify(n)
  PROVE  Placed(n)' /\ (pc'[n] = "idle" => Gathered')
<1> USE DEF TypeOK, Goto, Return, Abort, ec2Vars, moveVars, workVars
<1>0. /\ OwnsENIIP(n) /\ EIPFollows(n) /\ MidMove(n) /\ NoError(n) /\ ENIIP \in IPs
      /\ Rest \subseteq IPs /\ ENIIP \notin Rest /\ MyENI[n] # None
  BY Constants DEF OwnInv, SoloInv, Placed, IPs, Rest
<1> SUFFICES /\ pc'[n] \notin {"idle", "work", "dropEIP", "describe", "scan"}
             /\ MidMove(n)' /\ NoError(n)'
             /\ pc'[n] = "identify" => eip' \in {None, MyENI[n]}
  BY DEF Placed, EIPFollows, Reassigned
<1>1. CASE Begin(n)
  <2>1. Gathered
    BY <1>1 DEF Begin, SoloInv
  <2>2. pc'[n] = "locate" /\ result'[n] = "none" /\ failed'[n] = FALSE /\ UNCHANGED ec2Vars
    BY <1>1 DEF Begin
  <2> QED
    BY <2>1, <2>2 DEF MidMove, NoError, Gathered, Together
<1>2. CASE Locate(n)
  <2>1. PICK e \in ENIs : Together(IPs, e) /\ eip \in {None, e}
    BY <1>0, <1>2 DEF Locate, MidMove, Gathered
  <2>2. owner[ENIIP] = e /\ e # None /\ Together(Rest, e)
    BY <1>0, <2>1, Constants DEF Together
  <2>3. /\ cur' = [cur EXCEPT ![n] = e] /\ UNCHANGED <<owner, eip, result, failed>>
        /\ pc' = [pc EXCEPT ![n] = IF e = MyENI[n] THEN "identify" ELSE "unassign"]
    BY <1>2, <2>2 DEF Locate
  <2>4. (Gathered /\ \E f \in ENIs : Together(Rest, f))'
    BY <2>1, <2>2, <2>3 DEF Gathered, Together
  <2>5. NoError(n)'
    BY <1>0, <1>2, <2>3 DEF Locate, NoError
  <2> QED
    BY <2>1, <2>2, <2>3, <2>4, <2>5 DEF MidMove
<1>3. CASE Unassign(n)
  <2>1. PICK e \in ENIs : Together(Rest, e)
    BY <1>0, <1>3 DEF Unassign, MidMove, Gathered, Together
  <2>2. /\ pc' = [pc EXCEPT ![n] = "assign"] /\ owner' = [owner EXCEPT ![ENIIP] = None]
        /\ UNCHANGED <<result, failed>>
    BY <1>0, <1>3 DEF Unassign, Unassigned, UnassignRefused, MidMove
  <2>3. Together(Rest, e)'
    BY <1>0, <2>1, <2>2 DEF Together
  <2>4. NoError(n)'
    BY <1>0, <1>3, <2>2 DEF Unassign, NoError
  <2> QED
    BY <1>0, <2>2, <2>3, <2>4 DEF MidMove
<1>4. CASE Assign(n)
  <2>1. PICK e \in ENIs : Together(Rest, e)
    BY <1>0, <1>4 DEF Assign, MidMove
  <2>2. /\ pc' = [pc EXCEPT ![n] = "verify"] /\ owner' = [owner EXCEPT ![ENIIP] = MyENI[n]]
        /\ UNCHANGED <<result, failed>>
    BY <1>0, <1>4 DEF Assign, Assigned, AssignRefused, MidMove
  <2>3. Together(Rest, e)'
    BY <1>0, <2>1, <2>2 DEF Together
  <2>4. NoError(n)'
    BY <1>0, <1>4, <2>2 DEF Assign, NoError
  <2> QED
    BY <1>0, <2>2, <2>3, <2>4 DEF MidMove
<1>5. CASE Verify(n)
  <2>1. pc' = [pc EXCEPT ![n] = "findEIP"] /\ UNCHANGED <<owner, result, failed>>
    BY <1>0, <1>5 DEF Verify, OwnsENIIP
  <2>2. \E e \in ENIs : Together(Rest, e)'
    BY <1>0, <1>5, <2>1 DEF Verify, MidMove, Together
  <2>3. NoError(n)'
    BY <1>0, <1>5, <2>1 DEF Verify, NoError
  <2> QED
    BY <2>1, <2>2, <2>3 DEF MidMove
<1> QED
  BY <1>1, <1>2, <1>3, <1>4, <1>5

\* MoveEIPToENI, and what is found out before the work: addresses stay.
LEMMA SoloPrepare ==
  ASSUME TypeOK, OwnInv, SoloInv, ~Overlapping, faults = 0, NEW n \in Nodes,
         FindEIP(n) \/ DropEIP(n) \/ BindEIP(n) \/ Identify(n) \/ Describe(n)
  PROVE  Placed(n)' /\ (pc'[n] = "idle" => Gathered')
<1> USE DEF TypeOK, Goto, Return, Abort, ec2Vars, moveVars, workVars
<1>0. /\ OwnsENIIP(n) /\ EIPFollows(n) /\ MidMove(n) /\ NoError(n)
      /\ MyENI[n] \in ENIs /\ MyENI[n] # None
  BY Constants DEF OwnInv, SoloInv, Placed
<1>1. PICK e \in ENIs : Together(Rest, e)
  BY <1>0 DEF FindEIP, DropEIP, BindEIP, Identify, Describe, MidMove
<1>2. /\ pc'[n] \in {"dropEIP", "bindEIP", "identify", "describe", "scan"}
      /\ pc[n] \notin {"idle", "work"} /\ UNCHANGED <<owner, result, failed>>
  BY <1>0 DEF FindEIP, DropEIP, BindEIP, Identify, Describe, OwnsENIIP
<1>3. Together(Rest, e)'
  BY <1>1, <1>2 DEF Together
<1>4. NoError(n)' /\ Reassigned(n)'
  BY <1>0, <1>2 DEF NoError, Reassigned
<1>5. MidMove(n)'
  <2>1. CASE Describe(n)
    BY <1>0, <1>2, <1>3, <2>1 DEF Describe, MidMove, OwnsENIIP
  <2>2. CASE ~Describe(n)
    <3>1. pc'[n] # "scan"
      BY <2>2 DEF FindEIP, DropEIP, BindEIP, Identify
    <3> QED
      BY <1>2, <1>3, <3>1 DEF MidMove
  <2> QED
    BY <2>1, <2>2
<1>6. EIPFollows(n)'
  <2>1. CASE FindEIP(n)
    BY <1>0, <2>1 DEF FindEIP, EIPFollows
  <2>2. CASE DropEIP(n)
    BY <1>0, <2>2 DEF DropEIP, EIPFollows
  <2>3. CASE BindEIP(n)
    BY <1>0, <2>3 DEF BindEIP, EIPFollows, OwnsENIIP
  <2>4. CASE Identify(n) \/ Describe(n)
    BY <1>0, <1>2, <2>4 DEF Identify, Describe, EIPFollows
  <2> QED
    BY <2>1, <2>2, <2>3, <2>4
<1> QED
  BY <1>2, <1>4, <1>5, <1>6 DEF Placed

\* The first interface with addresses besides ours has all the rest of them.
LEMMA SoloScan ==
  ASSUME TypeOK, OwnInv, SoloInv, ~Overlapping, faults = 0, NEW n \in Nodes, Scan(n)
  PROVE  Placed(n)' /\ (pc'[n] = "idle" => Gathered')
<1> USE DEF TypeOK, ec2Vars, workVars
<1>0. /\ OwnsENIIP(n) /\ EIPFollows(n) /\ MidMove(n) /\ NoError(n) /\ ENIIP \in IPs
      /\ Rest \subseteq IPs /\ MyENI[n] \in ENIs /\ MyENI[n] # None
      /\ pc[n] = "scan" /\ UNCHANGED <<owner, eip>>
  BY Constants DEF OwnInv, SoloInv, Placed, IPs, Rest, Scan
<1>1. PICK e \in unseen[n] \cup {MyENI[n]} : Together(Rest, e)
  BY <1>0 DEF MidMove
<1>2. MyENI[n] \notin unseen[n] /\ owner[ENIIP] = MyENI[n]
  BY <1>0 DEF OwnsENIIP
<1>3. ASSUME NEW f \in unseen[n], unseen' = [unseen EXCEPT ![n] = @ \ {f}], FloatingOn(f) = {},
             UNCHANGED <<pc, cur, new, old, workVars, result>>
      PROVE  Placed(n)'
  <2>1. \E g \in unseen'[n] \cup {MyENI[n]} : Together(Rest, g)'
    <3>1. CASE e # f
      BY <1>0, <1>1, <1>3, <3>1 DEF Together
    <3>2. CASE e = f
      <4>1. Rest = {}
        BY <1>1, <1>3, <3>2 DEF Together, FloatingOn, Rest
      <4> QED
        BY <4>1 DEF Together
    <3> QED
      BY <3>1, <3>2
  <2> QED
    BY <1>0, <1>3, <2>1 DEF Placed, EIPFollows, MidMove, Reassigned, NoError
<1>4. ASSUME NEW f, NEW ips \in SUBSET FloatingIPs, StartWork(n, f, ips),
             ips \subseteq Rest, Together(ips, f), Together(Rest \ ips, MyENI[n])
      PROVE  Placed(n)'
  <2>1. /\ pc' = [pc EXCEPT ![n] = "work"] /\ old' = [old EXCEPT ![n] = f]
        /\ drop' = [drop EXCEPT ![n] = ips] /\ add' = [add EXCEPT ![n] = ips]
        /\ tablesPc' = [tablesPc EXCEPT ![n] = IF DestinationCIDR THEN "describe" ELSE "done"]
        /\ UNCHANGED <<result, failed>>
    BY <1>4 DEF StartWork, Goto
  <2>2. Reassigned(n)'
    BY <1>0, <1>4, <2>1 DEF Reassigned, Together
  <2>3. NoError(n)'
    BY <1>0, <2>1 DEF NoError
  <2> QED
    BY <1>0, <2>1, <2>2, <2>3 DEF Placed, EIPFollows, MidMove
<1>5. ASSUME NEW f \in unseen[n], FloatingOn(f) # {}, StartWork(n, f, FloatingOn(f))
      PROVE  Placed(n)'
  <2>1. FloatingOn(f) \subseteq Rest /\ FloatingOn(f) \in SUBSET FloatingIPs
    BY <1>2 DEF FloatingOn, Rest
  <2>2. e = f
    BY <1>1, <1>5, <2>1 DEF FloatingOn, Together
  <2>3. FloatingOn(f) = Rest
    BY <1>1, <2>1, <2>2 DEF FloatingOn, Together, Rest
  <2> QED
    BY <1>1, <1>4, <1>5, <2>1, <2>2, <2>3 DEF Together
<1>6. ASSUME unseen[n] = {}, StartWork(n, None, {}) PROVE Placed(n)'
  <2>1. Together({}, None) /\ Together(Rest \ {}, MyENI[n])
    BY <1>1, <1>6 DEF Together
  <2> QED
    BY <1>4, <1>6, <2>1
<1>7. pc'[n] # "idle"
  BY <1>0 DEF Scan, StartWork, Goto
<1>8. \/ \E f \in unseen[n] :
           /\ unseen' = [unseen EXCEPT ![n] = @ \ {f}] /\ FloatingOn(f) = {}
           /\ UNCHANGED <<pc, cur, new, old, workVars, result>>
      \/ \E f \in unseen[n] : FloatingOn(f) # {} /\ StartWork(n, f, FloatingOn(f))
      \/ unseen[n] = {} /\ StartWork(n, None, {})
  BY DEF Scan
<1> QED
  BY <1>3, <1>5, <1>6, <1>7, <1>8

\* The goroutines: no request is refused, and at the end everything is with us.
LEMMA SoloWork ==
  ASSUME TypeOK, OwnInv, SoloInv, ~Overlapping, faults = 0, NEW n \in Nodes,
         \/ DescribeTables(n) \/ Finish(n)
         \/ \E t \in Tables : ReplaceRoute(n, t)
         \/ \E ip \in IPs : DropIP(n, ip) \/ AddIP(n, ip)
  PROVE  Placed(n)' /\ (pc'[n] = "idle" => Gathered')
<1> USE DEF TypeOK, ec2Vars, moveVars, workVars
<1>0. /\ OwnsENIIP(n) /\ EIPFollows(n) /\ Reassigned(n) /\ NoError(n)
      /\ IPs = Rest \cup {ENIIP} /\ MyENI[n] \in ENIs /\ MyENI[n] # None
      /\ pc[n] = "work" /\ owner[ENIIP] = MyENI[n] /\ new[n] = MyENI[n]
      /\ drop[n] \subseteq Rest /\ add[n] \subseteq Rest
  <2>1. OwnsENIIP(n) /\ EIPFollows(n) /\ Reassigned(n) /\ NoError(n) /\ MyENI[n] \in ENIs
    BY Constants DEF OwnInv, SoloInv, Placed
  <2>2. pc[n] = "work"
    BY DEF DescribeTables, Finish, ReplaceRoute, DropIP, AddIP
  <2>3. IPs = Rest \cup {ENIIP}
    BY DEF IPs, Rest
  <2> QED
    BY <2>1, <2>2, <2>3, Constants DEF OwnsENIIP
<1>1. CASE DescribeTables(n) \/ \E t \in Tables : ReplaceRoute(n, t)
  <2>1. /\ UNCHANGED <<owner, eip, pc, old, drop, add, result>>
        /\ tablesPc'[n] \in {tablesPc[n], "done"}
    BY <1>1 DEF DescribeTables, ReplaceRoute
  <2>2. NoError(n)'
    BY <1>0, <1>1, <2>1 DEF DescribeTables, ReplaceRoute, NoError
  <2>3. Reassigned(n)'
    BY <1>0, <2>1 DEF Reassigned, Together
  <2> QED
    BY <1>0, <2>1, <2>2, <2>3 DEF Placed, EIPFollows, MidMove
<1>2. CASE Finish(n)
  <2>1. /\ drop[n] = {} /\ add[n] = {} /\ UNCHANGED <<owner, eip, failed>>
        /\ pc' = [pc EXCEPT ![n] = "idle"]
        /\ result' = [result EXCEPT ![n] = IF failed[n] THEN "error" ELSE "ok"]
    BY <1>2 DEF Finish, Return, Goto
  <2>2. Together(IPs, MyENI[n])'
    BY <1>0, <2>1 DEF Reassigned, Together
  <2>3. Gathered'
    BY <1>0, <2>1, <2>2 DEF Gathered, EIPFollows
  <2>4. Placed(n)'
    BY <1>0, <2>1 DEF Placed, EIPFollows, MidMove, Reassigned, NoError
  <2> QED
    BY <2>3, <2>4
<1>3. ASSUME NEW ip \in IPs, DropIP(n, ip) PROVE Placed(n)' /\ pc'[n] # "idle"
  <2>1. ip \in drop[n] /\ owner[ip] = old[n]
    BY <1>0, <1>3 DEF DropIP, Reassigned, Together
  <2>2. /\ drop' = [drop EXCEPT ![n] = @ \ {ip}] /\ owner' = [owner EXCEPT ![ip] = None]
        /\ UNCHANGED <<pc, add, old, tablesPc, result, failed>>
    BY <1>3, <2>1 DEF DropIP, Unassigned, UnassignRefused
  <2>3. Reassigned(n)'
    BY <1>0, <2>1, <2>2 DEF Reassigned, Together
  <2>4. eip' = eip
    BY <1>0, <1>3, <2>1, <2>2 DEF DropIP, Unassigned, UnassignRefused, Rest
  <2> QED
    BY <1>0, <2>2, <2>3, <2>4 DEF Placed, EIPFollows, MidMove, NoError
<1>4. ASSUME NEW ip \in IPs, AddIP(n, ip) PROVE Placed(n)' /\ pc'[n] # "idle"
  <2>1. ip \in add[n] /\ drop[n] = {} /\ owner[ip] = None
    BY <1>0, <1>4 DEF AddIP, Reassigned, Together
  <2>2. /\ add' = [add EXCEPT ![n] = @ \ {ip}] /\ owner' = [owner EXCEPT ![ip] = MyENI[n]]
        /\ UNCHANGED <<pc, eip, drop, old, tablesPc, result, failed>>
    BY <1>0, <1>4, <2>1 DEF AddIP, Assigned, AssignRefused
  <2>3. Reassigned(n)'
    BY <1>0, <2>1, <2>2 DEF Reassigned, Together
  <2> QED
    BY <1>0, <2>2, <2>3 DEF Placed, EIPFollows, MidMove, NoError
<1> QED
  BY <1>1, <1>2, <1>3, <1>4, <1>0 DEF DescribeTables, ReplaceRoute

\* Only a request that fails counts as a fault.
LEMMA StepsCountNoFault == ASSUME NEW n \in Nodes, Step(n) PROVE UNCHANGED faults
  BY DEF Step, Begin, Locate, Unassign, Assign, Verify, FindEIP, DropEIP, BindEIP, Identify,
         Describe, Scan, DescribeTables, Finish, ReplaceRoute, DropIP, AddIP

\* Every step keeps SoloInv.
LEMMA SoloStep == TypeOK /\ OwnInv /\ SoloInv /\ [Next]_vars => SoloInv'
<1> SUFFICES ASSUME TypeOK, OwnInv, SoloInv, [Next]_vars PROVE SoloInv'
  OBVIOUS
<1>1. CASE UNCHANGED vars
  BY <1>1 DEF vars, ec2Vars, moveVars, workVars, SoloInv, Gathered, Together, Placed, EIPFollows,
              MidMove, Reassigned, NoError
<1>2. ASSUME NEW n \in Nodes, Step(n) PROVE SoloInv'
  <2>1. (~Overlapping /\ faults = 0) => Placed(n)' /\ (pc'[n] = "idle" => Gathered')
    BY <1>2, SoloTakeOver, SoloPrepare, SoloScan, SoloWork DEF Step
  <2> QED
    BY <1>2, <2>1, SoloLocal, StepsCountNoFault
<1>3. ASSUME NEW n \in Nodes, FaultStep(n) PROVE SoloInv'
  <2>1. faults' # 0
    BY <1>3 DEF FaultStep, FaultAborts, FaultInEIP, FaultIgnored, FaultInWork, Crash, Lost, Fault, TypeOK
  <2> QED
    BY <2>1 DEF SoloInv
<1> QED
  BY <1>1, <1>2, <1>3 DEF Next, FaultStep

\* The invariants of takeovers one at a time.
LEMMA SoloInvariant == Spec => [](TypeOK /\ OwnInv /\ SoloInv)
  BY TypeInit, TypeStep, SoloInit, OwnStep, SoloStep, PTL DEF Spec

(***************************************************************************)
(* One takeover at a time does not fail unless a request of it or of an    *)
(* earlier one has failed (SoloSucceeds): no look-up comes back empty, and *)
(* EC2 refuses nothing.                                                    *)
(***************************************************************************)
THEOREM SoloTakeoversSucceed == Spec => []SoloSucceeds
<1>1. SoloInv => SoloSucceeds
  BY DEF SoloInv, Placed, NoError, SoloSucceeds
<1> QED
  BY <1>1, SoloInvariant, PTL

\* Only Finish reports success, with what the work has come to.
LEMMA SuccessIsFinish ==
  ASSUME TypeOK, NEW n \in Nodes, [Next]_vars, Succeeds(n)
  PROVE  Finish(n) /\ ~failed[n] /\ UNCHANGED faults
<1> USE DEF TypeOK, Succeeds
<1>1. PICK k \in Nodes : Step(k) \/ FaultStep(k)
  BY DEF Next, FaultStep, vars
<1>2. k = n
  BY <1>1, OthersStay
<1>3. ASSUME FaultStep(n) PROVE FALSE
  BY <1>3 DEF FaultStep, FaultAborts, FaultInEIP, FaultIgnored, FaultInWork, Crash, StartWork, Abort, Return, Goto
<1>4. Finish(n)
  BY <1>1, <1>2, <1>3 DEF Step, Begin, Locate, Unassign, Assign, Verify, FindEIP, DropEIP, BindEIP,
     Identify, Describe, Scan, DescribeTables, ReplaceRoute, DropIP, AddIP, StartWork, Abort, Return, Goto
<1> QED
  BY <1>4 DEF Finish, Return

(***************************************************************************)
(* A takeover that does not overlap with another one and reports success   *)
(* has the address and all routes, whatever failed before; and everything  *)
(* else too if nothing has (SuccessMeansOwnership).                        *)
(***************************************************************************)
THEOREM SuccessIsOwnership == Spec => SuccessMeansOwnership
<1>1. ASSUME TypeOK, OwnInv, SoloInv, [Next]_vars, NEW n \in Nodes, Succeeds(n), ~Overlapping
      PROVE  /\ owner[ENIIP] = MyENI[n]
             /\ DestinationCIDR => \A t \in Tables : route[t] = MyENI[n]
             /\ faults = 0 => /\ \A ip \in IPs : owner[ip] = MyENI[n]
                              /\ eip \in {None, MyENI[n]}
  <2>1. /\ pc[n] = "work" /\ tablesPc[n] = "done" /\ ~failed[n]
        /\ tables[n] = {} /\ drop[n] = {} /\ add[n] = {}
    BY <1>1, SuccessIsFinish DEF Finish
  <2>2. owner[ENIIP] = MyENI[n]
    BY <1>1, <2>1 DEF OwnInv, OwnsENIIP
  <2>3. DestinationCIDR => \A t \in Tables : route[t] = MyENI[n]
    BY <1>1, <2>1 DEF OwnInv, RoutesDone
  <2>4. faults = 0 => (\A ip \in IPs : owner[ip] = MyENI[n]) /\ eip \in {None, MyENI[n]}
    <3>1. SUFFICES ASSUME faults = 0
                   PROVE  (\A ip \in IPs : owner[ip] = MyENI[n]) /\ eip \in {None, MyENI[n]}
      OBVIOUS
    <3>2. \A ip \in Rest : owner[ip] = MyENI[n]
      BY <1>1, <2>1, <3>1 DEF SoloInv, Placed, Reassigned, Together
    <3>3. eip \in {None, MyENI[n]}
      BY <1>1, <2>1, <3>1 DEF SoloInv, Placed, EIPFollows
    <3> QED
      BY <2>2, <3>2, <3>3 DEF IPs, Rest
  <2> QED
    BY <2>2, <2>3, <2>4
<1> DEFINE Means == \A n \in Nodes : (Succeeds(n) /\ ~Overlapping) =>
                      /\ owner[ENIIP] = MyENI[n]
                      /\ DestinationCIDR => \A t \in Tables : route[t] = MyENI[n]
                      /\ faults = 0 => /\ \A ip \in IPs : owner[ip] = MyENI[n]
                                       /\ eip \in {None, MyENI[n]}
<1>2. TypeOK /\ OwnInv /\ SoloInv /\ [Next]_vars => [Means]_vars
  BY <1>1
<1> QED
  BY <1>2, SoloInvariant, PTL DEF Spec, SuccessMeansOwnership

(***************************************************************************)
(* TakeOverENI implements AddressMove.  A node that is about to unassign   *)
(* the address has seen it on an interface other than its own: the mapped  *)
(* Detach takes the address from elsewhere, as the abstract one says.      *)
(***************************************************************************)
AimsElsewhere == \A n \in Nodes : pc[n] = "unassign" => cur[n] # MyENI[n]

\* Every step keeps AimsElsewhere: Locate compares before it goes on to unassign.
LEMMA AimStep == TypeOK /\ AimsElsewhere /\ [Next]_vars => AimsElsewhere'
<1> SUFFICES ASSUME TypeOK, AimsElsewhere, [Next]_vars PROVE AimsElsewhere'
  OBVIOUS
<1> USE DEF TypeOK, AimsElsewhere, Goto, Return, Abort, moveVars, workVars
<1>1. CASE UNCHANGED vars
  BY <1>1 DEF vars
<1>2. ASSUME NEW n \in Nodes, Step(n) PROVE AimsElsewhere'
  <2>1. CASE Begin(n) \/ Unassign(n) \/ Assign(n) \/ Verify(n) \/ Identify(n)
    BY <2>1 DEF Begin, Unassign, Assign, Verify, Identify
  <2>2. CASE Locate(n)
    BY <2>2 DEF Locate
  <2>3. CASE FindEIP(n) \/ DropEIP(n) \/ BindEIP(n)
    BY <2>3 DEF FindEIP, DropEIP, BindEIP
  <2>4. CASE Describe(n) \/ Scan(n) \/ Finish(n)
    BY <2>4 DEF Describe, Scan, StartWork, Finish
  <2>5. CASE \/ DescribeTables(n) \/ \E t \in Tables : ReplaceRoute(n, t)
             \/ \E ip \in IPs : DropIP(n, ip) \/ AddIP(n, ip)
    BY <2>5 DEF DescribeTables, ReplaceRoute, DropIP, AddIP
  <2> QED
    BY <1>2, <2>1, <2>2, <2>3, <2>4, <2>5 DEF Step
<1>3. ASSUME NEW n \in Nodes, FaultStep(n) PROVE AimsElsewhere'
  <2>1. CASE FaultAborts(n) \/ Crash(n)
    BY <2>1 DEF FaultAborts, Crash
  <2>2. CASE FaultInEIP(n) \/ FaultIgnored(n)
    BY <2>2 DEF FaultInEIP, FaultIgnored, StartWork
  <2>3. CASE FaultInWork(n)
    BY <2>3 DEF FaultInWork
  <2> QED
    BY <1>3, <2>1, <2>2, <2>3 DEF FaultStep
<1> QED
  BY <1>1, <1>2, <1>3 DEF Next, FaultStep

\* A step that leaves the address where it is, and takes no node in or out of the
\* middle of a move, is a stutter of AddressMove.
LEMMA MoveStutters ==
  ASSUME owner'[ENIIP] = owner[ENIIP],
         \A m \in Nodes : pc'[m] = "assign" <=> pc[m] = "assign"
  PROVE  UNCHANGED Move!moveVars
<1>1. [m \in Nodes |-> pc[m] = "assign"]' = [m \in Nodes |-> pc[m] = "assign"]
  OBVIOUS
<1> QED
  BY <1>1 DEF Move!moveVars

\* What a step of node n does to the mapped taking.
LEMMA MoveTaking ==
  ASSUME TypeOK, NEW n \in Nodes, NEW label, pc' = [pc EXCEPT ![n] = label]
  PROVE  [m \in Nodes |-> pc[m] = "assign"]'
           = [[m \in Nodes |-> pc[m] = "assign"] EXCEPT ![n] = (label = "assign")]
  BY DEF TypeOK

\* The steps of TakeOverENI, and the requests in it that fail.
LEMMA MoveTakeOver ==
  ASSUME TypeOK, AimsElsewhere, NEW n \in Nodes,
         Unassign(n) \/ Assign(n) \/ FaultAborts(n) \/ Crash(n)
  PROVE  [Move!MoveNext]_(Move!moveVars)
<1> DEFINE taking == [m \in Nodes |-> pc[m] = "assign"]
<1>0. /\ owner \in [IPs -> MaybeENI] /\ DOMAIN pc = Nodes /\ ENIIP \in IPs
      /\ MyENI[n] # None
  BY Constants DEF TypeOK, IPs
<1>1. PICK label \in {"assign", "verify", "idle"} : pc' = [pc EXCEPT ![n] = label]
  BY DEF Unassign, Assign, FaultAborts, Crash, Abort, Return, Goto
<1>2. taking' = [taking EXCEPT ![n] = (label = "assign")]
  BY <1>1, MoveTaking
<1>3. taking[n] = (pc[n] = "assign")
  OBVIOUS
<1>4. CASE UNCHANGED owner /\ (pc[n] # "assign" \/ FaultAborts(n) \/ Crash(n))
  <2>1. label # "assign"
    <3>1. CASE Unassign(n)
      <4>1. ~Unassigned(ENIIP, cur[n])
        BY <1>0, <1>4 DEF Unassigned
      <4> QED
        BY <1>0, <1>1, <3>1, <4>1 DEF Unassign, Abort, Return, Goto
    <3>2. CASE Assign(n) \/ FaultAborts(n) \/ Crash(n)
      BY <1>0, <1>1, <3>2 DEF Assign, FaultAborts, Crash, Abort, Return, Goto
    <3> QED
      BY <3>1, <3>2
  <2>2. CASE pc[n] = "assign"
    <3>1. Move!GiveUp(n)
      BY <1>2, <1>3, <1>4, <2>1, <2>2 DEF Move!GiveUp
    <3> QED
      BY <3>1 DEF Move!MoveNext
  <2>3. CASE pc[n] # "assign"
    BY <1>0, <1>1, <1>4, <2>1, <2>3, MoveStutters
  <2> QED
    BY <2>2, <2>3
<1>5. CASE pc[n] = "unassign" /\ Unassigned(ENIIP, cur[n])
  <2>1. owner[ENIIP] \notin {MyENI[n], None} /\ owner'[ENIIP] = None
    BY <1>0, <1>5 DEF AimsElsewhere, Unassigned
  <2>2. CASE label = "assign"
    <3>1. Move!Detach(n)
      BY <1>2, <1>3, <1>5, <2>1, <2>2 DEF Move!Detach, Move!Elsewhere
    <3> QED
      BY <3>1 DEF Move!MoveNext
  <2>3. CASE label # "assign"
    <3>1. UNCHANGED taking
      BY <1>2, <1>3, <1>5, <2>3
    <3>2. Move!Lose(n)
      BY <1>3, <1>5, <2>1, <3>1 DEF Move!Lose, Move!Elsewhere
    <3> QED
      BY <3>2 DEF Move!MoveNext
  <2> QED
    BY <2>2, <2>3
<1>6. CASE pc[n] = "assign" /\ (Assigned(ENIIP, MyENI[n]) \/ AssignRefused(ENIIP, MyENI[n]))
  <2>1. owner'[ENIIP] = IF owner[ENIIP] = None THEN MyENI[n] ELSE owner[ENIIP]
    BY <1>0, <1>6 DEF Assigned, AssignRefused, ec2Vars
  <2>2. label # "assign"
    BY <1>0, <1>1, <1>6 DEF Unassign, Assign, FaultAborts, Crash, Abort, Return, Goto
  <2>3. Move!Attach(n)
    BY <1>2, <1>3, <1>6, <2>1, <2>2 DEF Move!Attach
  <2> QED
    BY <2>3 DEF Move!MoveNext
<1> QED
  BY <1>4, <1>5, <1>6 DEF Unassign, UnassignRefused, Assign, FaultAborts, Crash, Lost, ec2Vars

\* All other steps leave the address alone.
LEMMA MoveOthers ==
  ASSUME TypeOK, ENIIP \notin FloatingIPs, NEW n \in Nodes,
         \/ Begin(n) \/ Locate(n) \/ Verify(n) \/ FindEIP(n) \/ DropEIP(n) \/ BindEIP(n)
         \/ Identify(n) \/ Describe(n) \/ Scan(n) \/ DescribeTables(n) \/ Finish(n)
         \/ \E t \in Tables : ReplaceRoute(n, t)
         \/ \E ip \in IPs : DropIP(n, ip) \/ AddIP(n, ip)
         \/ FaultInEIP(n) \/ FaultIgnored(n) \/ FaultInWork(n)
  PROVE  UNCHANGED Move!moveVars
<1> USE DEF TypeOK, ec2Vars, Goto, Return, Abort
<1>1. CASE \/ Begin(n) \/ Locate(n) \/ Verify(n) \/ FindEIP(n) \/ DropEIP(n) \/ BindEIP(n)
           \/ Identify(n) \/ Describe(n) \/ Finish(n)
  BY <1>1, MoveStutters DEF Begin, Locate, Verify, FindEIP, DropEIP, BindEIP, Identify, Describe, Finish
<1>2. CASE Scan(n) \/ FaultInEIP(n) \/ FaultIgnored(n)
  BY <1>2, MoveStutters DEF Scan, FaultInEIP, FaultIgnored, StartWork, Lost
<1>3. CASE DescribeTables(n) \/ \E t \in Tables : ReplaceRoute(n, t)
  BY <1>3, MoveStutters DEF DescribeTables, ReplaceRoute
<1>4. CASE (\E ip \in IPs : DropIP(n, ip) \/ AddIP(n, ip)) \/ FaultInWork(n)
  <2>1. \A ip \in drop[n] \cup add[n] : ip # ENIIP
    OBVIOUS
  <2>2. owner'[ENIIP] = owner[ENIIP] /\ UNCHANGED pc
    BY <1>4, <2>1 DEF DropIP, AddIP, FaultInWork, Unassigned, UnassignRefused, Assigned, AssignRefused, IPs
  <2> QED
    BY <2>2, MoveStutters
<1> QED
  BY <1>1, <1>2, <1>3, <1>4

(***************************************************************************)
(* However many nodes take over at once, and whatever fails, the address   *)
(* moves as AddressMove says, on which FailoverPair is built               *)
(* (ImplementsMove): it must be none of the floating addresses, which      *)
(* ReassignFloatingIPs moves, too.                                         *)
(***************************************************************************)
THEOREM TakeoverIsAddressMove ==
  ASSUME ENIIP \notin FloatingIPs
  PROVE  Spec => ImplementsMove
<1>1. Init => AimsElsewhere /\ Move!MoveInit
  <2> SUFFICES ASSUME Init PROVE AimsElsewhere /\ Move!MoveInit
    OBVIOUS
  <2>1. owner[ENIIP] \in ENIs
    BY DEF Init, IPs
  <2>2. [n \in Nodes |-> pc[n] = "assign"] = [n \in Nodes |-> FALSE]
    BY DEF Init
  <2> QED
    BY <2>1, <2>2 DEF Init, AimsElsewhere, Move!MoveInit
<1>2. TypeOK /\ AimsElsewhere /\ [Next]_vars => [Move!MoveNext]_(Move!moveVars)
  <2> SUFFICES ASSUME TypeOK, AimsElsewhere, [Next]_vars PROVE [Move!MoveNext]_(Move!moveVars)
    OBVIOUS
  <2>1. CASE UNCHANGED vars
    BY <2>1, MoveStutters DEF vars, ec2Vars
  <2>2. ASSUME NEW n \in Nodes, Step(n) \/ FaultStep(n) PROVE [Move!MoveNext]_(Move!moveVars)
    BY <2>2, MoveTakeOver, MoveOthers DEF Step, FaultStep
  <2> QED
    BY <2>1, <2>2 DEF Next, FaultStep
<1> QED
  BY <1>1, <1>2, TypeInit, TypeStep, AimStep, PTL DEF Spec, ImplementsMove, Move!MoveSpec

(***************************************************************************)
(* What holds of every such move holds of TakeOverENI.                     *)
(***************************************************************************)
MoveP == INSTANCE AddressMove_proofs WITH
  Places <- ENIs,
  Home   <- MyENI,
  owner  <- owner[ENIIP],
  taking <- [n \in Nodes |-> pc[n] = "assign"]

\* MoveP is Move with its theorems.
LEMMA TakeoverIsMoveP ==
  ASSUME ENIIP \notin FloatingIPs
  PROVE  Spec => MoveP!MoveSpec
<1>1. Move!MoveInit => MoveP!MoveInit
  BY DEF Move!MoveInit, MoveP!MoveInit
<1>2. [Move!MoveNext]_(Move!moveVars) => [MoveP!MoveNext]_(MoveP!moveVars)
  BY DEF Move!MoveNext, Move!Detach, Move!Attach, Move!GiveUp, Move!Lose, Move!Elsewhere,
         Move!moveVars, MoveP!MoveNext, MoveP!Detach, MoveP!Attach, MoveP!GiveUp, MoveP!Lose,
         MoveP!Elsewhere, MoveP!moveVars
<1> QED
  BY <1>1, <1>2, TakeoverIsAddressMove, PTL DEF ImplementsMove, Move!MoveSpec, MoveP!MoveSpec

(***************************************************************************)
(* One node at a time is in the middle of a move, and it finds the address *)
(* free (OnlyOneMoves): for any number of nodes that take over at the same *)
(* time, crash and have their requests fail.  With the address among the   *)
(* floating ones and three nodes this is false, as TLC finds.              *)
(***************************************************************************)
THEOREM OneNodeMovesAtATime ==
  ASSUME ENIIP \notin FloatingIPs
  PROVE  Spec => []OnlyOneMoves
<1>1. MoveP!MoveSpec => []MoveP!OneHand
  BY MoveP!MoveIsExclusive
<1>2. MoveP!OneHand => OnlyOneMoves
  BY DEF MoveP!OneHand, OnlyOneMoves
<1> QED
  BY <1>1, <1>2, TakeoverIsMoveP, PTL

(***************************************************************************)
(* An address that no interface has and no node is about to assign stays   *)
(* without one, whatever the nodes do from then on.  TakeoverUnowned shows *)
(* one way to get there (ENIIPRecovers); there is no way back.             *)
(***************************************************************************)
Stranded == owner[ENIIP] = None /\ \A n \in Nodes : pc[n] # "assign"

\* By the same theorem about AddressMove.
THEOREM StrandedForGood ==
  ASSUME ENIIP \notin FloatingIPs
  PROVE  Spec => [](Stranded => []Stranded)
<1>1. MoveP!MoveSpec => [](MoveP!Gone => []MoveP!Gone)
  BY MoveP!LostForGood
<1>2. MoveP!Gone <=> Stranded
  BY DEF MoveP!Gone, Stranded
<1> QED
  BY <1>1, <1>2, TakeoverIsMoveP, PTL

(***************************************************************************)
(* When takeovers do not overlap, routes follow the address                *)
(* (RoutesFollowENIIP), whatever requests fail: the overlap is what        *)
(* TakeoverSplit needs.                                                    *)
(***************************************************************************)
LEMMA RoutesStep ==
  ASSUME ~Overlapping, DestinationCIDR, TypeOK, OwnInv, RoutesFollowENIIP, [Next]_vars
  PROVE  RoutesFollowENIIP'
<1> USE DEF RoutesFollowENIIP
<1>1. CASE UNCHANGED vars
  BY <1>1 DEF vars, ec2Vars
<1>2. ASSUME NEW n \in Nodes, Step(n) \/ FaultStep(n), pc'[n] = "idle", result'[n] = "ok"
      PROVE  \A t \in Tables : route'[t] = owner'[ENIIP]
  <2>1. Finish(n) /\ ~failed[n]
    <3> USE DEF TypeOK, StartWork, Abort, Return, Goto
    <3>1. ~FaultStep(n)
      BY <1>2 DEF FaultStep, FaultAborts, FaultInEIP, FaultIgnored, FaultInWork, Crash
    <3>2. Finish(n)
      BY <1>2, <3>1 DEF Step, Begin, Locate, Unassign, Assign, Verify, FindEIP, DropEIP, BindEIP,
         Identify, Describe, Scan, DescribeTables, ReplaceRoute, DropIP, AddIP
    <3> QED
      BY <1>2, <3>2 DEF Finish
  <2>2. owner[ENIIP] = MyENI[n] /\ \A t \in Tables : route[t] = MyENI[n]
    BY <2>1 DEF Finish, OwnInv, OwnsENIIP, RoutesDone
  <2> QED
    BY <2>1, <2>2 DEF Finish, ec2Vars
<1> QED
  BY <1>1, <1>2 DEF Next, FaultStep

\* At first routes and the address are on one interface.
THEOREM SoloRoutesFollow ==
  ASSUME ~Overlapping, DestinationCIDR
  PROVE  Spec => []RoutesFollowENIIP
<1>1. Init => RoutesFollowENIIP
  BY DEF Init, RoutesFollowENIIP, IPs
<1>2. TypeOK /\ OwnInv /\ RoutesFollowENIIP /\ [Next]_vars => RoutesFollowENIIP'
  BY RoutesStep
<1> QED
  BY <1>1, <1>2, SoloInvariant, PTL DEF Spec

(***************************************************************************)
(* A takeover ends: every step of a node that is in one, failures          *)
(* included, brings it closer to its end, and the steps of the others do   *)
(* not set it back, however they interfere.  What is left of a takeover is *)
(* the number of places it has to pass, the interfaces to look at, and the *)
(* requests of the two goroutines.                                         *)
(***************************************************************************)
\* The most that scan and work can have left.
MaxWork == 2 * Cardinality(FloatingIPs) + 2 * Cardinality(Tables) + 3
MaxScan == MaxWork + Cardinality(ENIs) + 1

WorkLeft(n) ==
  Cardinality(drop[n]) + Cardinality(add[n]) + Cardinality(tables[n])
    + (IF tablesPc[n] = "describe" THEN Cardinality(Tables) + 2 ELSE 1)

Left(n) ==
  CASE pc[n] = "idle"     -> 0
    [] pc[n] = "work"     -> WorkLeft(n)
    [] pc[n] = "scan"     -> MaxWork + Cardinality(unseen[n])
    [] pc[n] = "describe" -> MaxScan
    [] pc[n] = "identify" -> MaxScan + 1
    [] pc[n] = "bindEIP"  -> MaxScan + 2
    [] pc[n] = "dropEIP"  -> MaxScan + 3
    [] pc[n] = "findEIP"  -> MaxScan + 4
    [] pc[n] = "verify"   -> MaxScan + 5
    [] pc[n] = "assign"   -> MaxScan + 6
    [] pc[n] = "unassign" -> MaxScan + 7
    [] pc[n] = "locate"   -> MaxScan + 8

Finite == IsFiniteSet(ENIs) /\ IsFiniteSet(FloatingIPs) /\ IsFiniteSet(Tables)

\* What is left is a number, of work at most MaxWork - 1.
LEMMA LeftIsNat ==
  ASSUME Finite, TypeOK, NEW n \in Nodes
  PROVE  /\ Cardinality(drop[n]) \in Nat /\ Cardinality(drop[n]) <= Cardinality(FloatingIPs)
         /\ Cardinality(add[n]) \in Nat /\ Cardinality(add[n]) <= Cardinality(FloatingIPs)
         /\ Cardinality(tables[n]) \in Nat /\ Cardinality(tables[n]) <= Cardinality(Tables)
         /\ Cardinality(unseen[n]) \in Nat /\ Cardinality(unseen[n]) <= Cardinality(ENIs)
         /\ Cardinality(FloatingIPs) \in Nat /\ Cardinality(Tables) \in Nat
         /\ Cardinality(ENIs) \in Nat
         /\ WorkLeft(n) \in Nat /\ 0 < WorkLeft(n) /\ WorkLeft(n) < MaxWork
         /\ Left(n) \in Nat /\ Left(n) <= MaxScan + 8
         /\ pc[n] # "idle" => Left(n) > 0
<1>1. /\ drop[n] \in SUBSET FloatingIPs /\ add[n] \in SUBSET FloatingIPs
      /\ tables[n] \in SUBSET Tables /\ unseen[n] \in SUBSET ENIs
  BY DEF TypeOK
<1>2. /\ Cardinality(drop[n]) <= Cardinality(FloatingIPs) /\ IsFiniteSet(drop[n])
      /\ Cardinality(add[n]) <= Cardinality(FloatingIPs) /\ IsFiniteSet(add[n])
      /\ Cardinality(tables[n]) <= Cardinality(Tables) /\ IsFiniteSet(tables[n])
      /\ Cardinality(unseen[n]) <= Cardinality(ENIs) /\ IsFiniteSet(unseen[n])
  BY <1>1, FS_Subset DEF Finite
<1>3. /\ Cardinality(drop[n]) \in Nat /\ Cardinality(add[n]) \in Nat
      /\ Cardinality(tables[n]) \in Nat /\ Cardinality(unseen[n]) \in Nat
      /\ Cardinality(FloatingIPs) \in Nat /\ Cardinality(Tables) \in Nat
      /\ Cardinality(ENIs) \in Nat
  BY <1>2, FS_CardinalityType DEF Finite
<1>4. WorkLeft(n) \in Nat /\ 0 < WorkLeft(n) /\ WorkLeft(n) < MaxWork
  BY <1>2, <1>3 DEF WorkLeft, MaxWork
<1>5. Left(n) \in Nat /\ Left(n) <= MaxScan + 8 /\ (pc[n] # "idle" => Left(n) > 0)
  <2>1. pc[n] \in {"idle", "locate", "unassign", "assign", "verify", "findEIP", "dropEIP",
                   "bindEIP", "identify", "describe", "scan", "work"}
    BY DEF TypeOK
  <2>2. MaxWork \in Nat /\ MaxScan \in Nat /\ MaxWork + Cardinality(unseen[n]) <= MaxScan /\ MaxWork <= MaxScan
        /\ MaxWork > 0
    BY <1>2, <1>3 DEF MaxWork, MaxScan
  <2> HIDE DEF MaxWork, MaxScan, WorkLeft
  <2> QED
    BY <1>3, <1>4, <2>1, <2>2 DEF Left
<1> QED
  BY <1>2, <1>3, <1>4, <1>5

\* What is left depends on the node's own variables, which no other one writes.
LEMMA LeftOthers ==
  ASSUME TypeOK, NEW n \in Nodes, Step(n) \/ FaultStep(n), NEW m \in Nodes \ {n}
  PROVE  Left(m)' = Left(m)
<1> USE DEF TypeOK, Goto, Return, Abort, moveVars, workVars
<1> DEFINE Same == /\ pc'[m] = pc[m] /\ unseen'[m] = unseen[m] /\ drop'[m] = drop[m]
                   /\ add'[m] = add[m] /\ tables'[m] = tables[m] /\ tablesPc'[m] = tablesPc[m]
<1>1. CASE Begin(n) \/ Locate(n) \/ Unassign(n) \/ Assign(n) \/ Verify(n) \/ Identify(n)
  <2>1. Same
    BY <1>1 DEF Begin, Locate, Unassign, Assign, Verify, Identify
  <2> QED
    BY <2>1 DEF Left, WorkLeft, MaxScan, MaxWork
<1>2. CASE FindEIP(n) \/ DropEIP(n) \/ BindEIP(n) \/ Describe(n) \/ Finish(n)
  <2>1. Same
    BY <1>2 DEF FindEIP, DropEIP, BindEIP, Describe, Finish
  <2> QED
    BY <2>1 DEF Left, WorkLeft, MaxScan, MaxWork
<1>3. CASE Scan(n)
  <2>1. Same
    BY <1>3 DEF Scan, StartWork
  <2> QED
    BY <2>1 DEF Left, WorkLeft, MaxScan, MaxWork
<1>4. CASE \/ DescribeTables(n) \/ \E t \in Tables : ReplaceRoute(n, t)
           \/ \E ip \in IPs : DropIP(n, ip) \/ AddIP(n, ip)
  <2>1. Same
    BY <1>4 DEF DescribeTables, ReplaceRoute, DropIP, AddIP
  <2> QED
    BY <2>1 DEF Left, WorkLeft, MaxScan, MaxWork
<1>5. CASE FaultAborts(n) \/ Crash(n)
  <2>1. Same
    BY <1>5 DEF FaultAborts, Crash
  <2> QED
    BY <2>1 DEF Left, WorkLeft, MaxScan, MaxWork
<1>6. CASE FaultInEIP(n) \/ FaultIgnored(n) \/ FaultInWork(n)
  <2>1. Same
    BY <1>6 DEF FaultInEIP, FaultIgnored, StartWork, FaultInWork
  <2> QED
    BY <2>1 DEF Left, WorkLeft, MaxScan, MaxWork
<1> QED
  BY <1>1, <1>2, <1>3, <1>4, <1>5, <1>6 DEF Step, FaultStep

\* One element less is one step less.
LEMMA OneLess ==
  ASSUME NEW S, IsFiniteSet(S), NEW T \in SUBSET S, NEW x \in T
  PROVE  /\ Cardinality(T \ {x}) = Cardinality(T) - 1
         /\ Cardinality(T) \in Nat /\ Cardinality(T \ {x}) \in Nat
  BY FS_Subset, FS_RemoveElement, FS_CardinalityType

\* The steps before the goroutines start.
LEMMA EarlyFalls ==
  ASSUME Finite, TypeOK, TypeOK', NEW n \in Nodes, pc[n] \notin {"idle", "scan", "work"},
         Step(n) \/ FaultStep(n)
  PROVE  Left(n)' < Left(n)
<1> USE DEF TypeOK, Goto, Return, Abort, MaxScan
<1>1. /\ MaxWork \in Nat /\ Cardinality(ENIs) \in Nat /\ MaxWork' = MaxWork
      /\ WorkLeft(n)' \in Nat /\ WorkLeft(n)' < MaxWork
      /\ Cardinality(unseen'[n]) \in Nat /\ Cardinality(unseen'[n]) <= Cardinality(ENIs)
  <2>1. (WorkLeft(n) < MaxWork)' /\ (WorkLeft(n) \in Nat)' /\ (Cardinality(unseen[n]) \in Nat)'
        /\ (Cardinality(unseen[n]) <= Cardinality(ENIs))'
    BY LeftIsNat, PTL
  <2> QED
    BY <2>1, LeftIsNat DEF MaxWork
<1> HIDE DEF MaxWork, WorkLeft
<1>2. CASE Locate(n) \/ Unassign(n) \/ Assign(n) \/ Verify(n)
  BY <1>1, <1>2 DEF Locate, Unassign, Assign, Verify, Left
<1>3. CASE FindEIP(n) \/ DropEIP(n) \/ BindEIP(n) \/ Identify(n)
  BY <1>1, <1>3 DEF FindEIP, DropEIP, BindEIP, Identify, Left
<1>4. CASE Describe(n)
  BY <1>1, <1>4 DEF Describe, Left
<1>5. CASE FaultAborts(n) \/ Crash(n)
  BY <1>1, <1>5 DEF FaultAborts, Crash, Left
<1>6. CASE FaultInEIP(n) \/ FaultIgnored(n)
  BY <1>1, <1>6 DEF FaultInEIP, FaultIgnored, StartWork, Left
<1> QED
  BY <1>2, <1>3, <1>4, <1>5, <1>6 DEF Step, FaultStep, Begin, Scan, DescribeTables, ReplaceRoute,
     DropIP, AddIP, Finish, FaultInWork

\* The scan looks at one interface less, or ends.
LEMMA ScanFalls ==
  ASSUME Finite, TypeOK, TypeOK', NEW n \in Nodes, pc[n] = "scan", Step(n) \/ FaultStep(n)
  PROVE  Left(n)' < Left(n)
<1> USE DEF TypeOK, Goto, Return, Abort
<1>1. /\ MaxWork \in Nat /\ MaxWork' = MaxWork /\ Cardinality(unseen[n]) \in Nat
      /\ WorkLeft(n)' \in Nat /\ WorkLeft(n)' < MaxWork /\ MaxWork > 0
  <2>1. (WorkLeft(n) < MaxWork)' /\ (WorkLeft(n) \in Nat)'
    BY LeftIsNat, PTL
  <2> QED
    BY <2>1, LeftIsNat DEF MaxWork
<1> HIDE DEF MaxWork, WorkLeft
<1>2. Left(n) = MaxWork + Cardinality(unseen[n])
  BY DEF Left
<1>3. CASE pc'[n] = "work"
  <2>1. Left(n)' = WorkLeft(n)'
    BY <1>3 DEF Left
  <2> QED
    BY <1>1, <1>2, <2>1
<1>4. CASE pc'[n] = "idle"
  BY <1>1, <1>2, <1>4 DEF Left
<1>5. CASE pc'[n] \notin {"work", "idle"}
  <2>1. PICK e \in unseen[n] : unseen' = [unseen EXCEPT ![n] = unseen[n] \ {e}] /\ pc'[n] = "scan"
    BY <1>5 DEF Step, FaultStep, Begin, Locate, Unassign, Assign, Verify, FindEIP, DropEIP, BindEIP,
       Identify, Describe, Scan, StartWork, DescribeTables, ReplaceRoute, DropIP, AddIP, Finish,
       FaultAborts, FaultInEIP, FaultIgnored, FaultInWork, Crash
  <2>2. unseen[n] \in SUBSET ENIs /\ unseen'[n] = unseen[n] \ {e}
    BY <2>1
  <2>3. Cardinality(unseen'[n]) = Cardinality(unseen[n]) - 1 /\ Cardinality(unseen'[n]) \in Nat
    BY <2>1, <2>2, OneLess DEF Finite
  <2>4. Left(n)' = MaxWork + Cardinality(unseen'[n])
    BY <1>1, <2>1 DEF Left
  <2> QED
    BY <1>1, <1>2, <2>3, <2>4
<1> QED
  BY <1>3, <1>4, <1>5

\* Each request of the goroutines is made once.
LEMMA WorkFalls ==
  ASSUME Finite, TypeOK, TypeOK', NEW n \in Nodes, pc[n] = "work", Step(n) \/ FaultStep(n)
  PROVE  Left(n)' < Left(n)
<1> USE DEF TypeOK, Goto, Return, Abort
<1>1. Left(n) = WorkLeft(n) /\ WorkLeft(n) \in Nat /\ WorkLeft(n) > 0
  BY LeftIsNat DEF Left
<1>2. /\ drop[n] \in SUBSET FloatingIPs /\ add[n] \in SUBSET FloatingIPs
      /\ tables[n] \in SUBSET Tables
      /\ Cardinality(drop[n]) \in Nat /\ Cardinality(add[n]) \in Nat
      /\ Cardinality(tables[n]) \in Nat /\ Cardinality(Tables) \in Nat
  BY LeftIsNat
<1>3. CASE pc'[n] = "idle"
  BY <1>1, <1>3 DEF Left
<1>4. CASE pc'[n] # "idle"
  <2>1. /\ pc'[n] = "work"
        /\ \/ DescribeTables(n) \/ \E t \in Tables : ReplaceRoute(n, t)
           \/ \E ip \in IPs : DropIP(n, ip) \/ AddIP(n, ip)
           \/ FaultInWork(n)
    BY <1>4 DEF Step, FaultStep, Begin, Locate, Unassign, Assign, Verify, FindEIP, DropEIP, BindEIP,
       Identify, Describe, Scan, StartWork, DescribeTables, ReplaceRoute, DropIP, AddIP, Finish,
       FaultAborts, FaultInEIP, FaultIgnored, FaultInWork, Crash
  <2>2. Left(n)' = WorkLeft(n)'
    BY <2>1 DEF Left
  <2>3. CASE /\ tablesPc[n] = "describe" /\ tablesPc'[n] = "done" /\ tables'[n] \in {tables[n], Tables}
             /\ drop'[n] = drop[n] /\ add'[n] = add[n]
    BY <1>1, <1>2, <2>2, <2>3 DEF WorkLeft
  <2>4. ASSUME NEW t \in tables[n], tables'[n] = tables[n] \ {t}, tablesPc'[n] = tablesPc[n],
               drop'[n] = drop[n], add'[n] = add[n]
        PROVE  Left(n)' < Left(n)
    <3>1. Cardinality(tables'[n]) = Cardinality(tables[n]) - 1
      BY <1>2, <2>4, OneLess DEF Finite
    <3> QED
      BY <1>1, <1>2, <2>2, <2>4, <3>1 DEF WorkLeft
  <2>5. ASSUME NEW ip \in drop[n], drop'[n] = drop[n] \ {ip}, tablesPc'[n] = tablesPc[n],
               tables'[n] = tables[n], add'[n] = add[n]
        PROVE  Left(n)' < Left(n)
    <3>1. Cardinality(drop'[n]) = Cardinality(drop[n]) - 1
      BY <1>2, <2>5, OneLess DEF Finite
    <3> QED
      BY <1>1, <1>2, <2>2, <2>5, <3>1 DEF WorkLeft
  <2>6. ASSUME NEW ip \in add[n], add'[n] = add[n] \ {ip}, tablesPc'[n] = tablesPc[n],
               tables'[n] = tables[n], drop'[n] = drop[n]
        PROVE  Left(n)' < Left(n)
    <3>1. Cardinality(add'[n]) = Cardinality(add[n]) - 1
      BY <1>2, <2>6, OneLess DEF Finite
    <3> QED
      BY <1>1, <1>2, <2>2, <2>6, <3>1 DEF WorkLeft
  <2>7. CASE DescribeTables(n)
    BY <2>3, <2>7 DEF DescribeTables
  <2>8. CASE \E t \in Tables : ReplaceRoute(n, t)
    BY <2>4, <2>8 DEF ReplaceRoute
  <2>9. CASE \E ip \in IPs : DropIP(n, ip) \/ AddIP(n, ip)
    BY <2>5, <2>6, <2>9 DEF DropIP, AddIP
  <2>10. CASE FaultInWork(n)
    BY <2>3, <2>4, <2>5, <2>6, <2>10 DEF FaultInWork
  <2> QED
    BY <2>1, <2>7, <2>8, <2>9, <2>10
<1> QED
  BY <1>3, <1>4

(***************************************************************************)
(* Every step starts a takeover or brings one closer to its end: a node    *)
(* has at most MaxScan + 8 steps to make, whatever the others do.  (That   *)
(* it makes them is fairness, and left to TLC: LossIsTransient.)           *)
(***************************************************************************)
THEOREM TakeoversEnd ==
  ASSUME Finite
  PROVE  Spec => /\ [](\A n \in Nodes : Left(n) \in 0..(MaxScan + 8) /\ (pc[n] # "idle" => Left(n) > 0))
                 /\ [][\E n \in Nodes : /\ Begin(n) \/ Left(n)' < Left(n)
                                      /\ \A m \in Nodes \ {n} : Left(m)' = Left(m)]_vars
<1>1. TypeOK => \A n \in Nodes : Left(n) \in 0..(MaxScan + 8) /\ (pc[n] # "idle" => Left(n) > 0)
  <2> SUFFICES ASSUME TypeOK, NEW n \in Nodes
               PROVE  Left(n) \in 0..(MaxScan + 8) /\ (pc[n] # "idle" => Left(n) > 0)
    OBVIOUS
  <2>1. MaxScan \in Nat
    BY LeftIsNat DEF MaxScan, MaxWork
  <2> HIDE DEF Left, MaxScan
  <2> QED
    BY <2>1, LeftIsNat
<1> DEFINE Headway == \E n \in Nodes : /\ Begin(n) \/ Left(n)' < Left(n)
                                      /\ \A m \in Nodes \ {n} : Left(m)' = Left(m)
<1>2. TypeOK /\ TypeOK' /\ [Next]_vars => [Headway]_vars
  <2> SUFFICES ASSUME TypeOK, TypeOK', Next PROVE Headway
    OBVIOUS
  <2>1. PICK n \in Nodes : Step(n) \/ FaultStep(n)
    BY DEF Next, FaultStep
  <2>2. \A m \in Nodes \ {n} : Left(m)' = Left(m)
    BY <2>1, LeftOthers
  <2>3. Begin(n) \/ Left(n)' < Left(n)
    BY <2>1, OthersStay, EarlyFalls, ScanFalls, WorkFalls
  <2> HIDE DEF Left
  <2> QED
    BY <2>2, <2>3
<1> HIDE DEF Headway
<1>3. Spec => [][Headway]_vars
  BY <1>2, TypeInit, TypeStep, PTL DEF Spec
<1> QED
  BY <1>1, <1>3, TypeCorrect, PTL DEF Headway
================================================================================
