----------------------------- MODULE ENITakeover -----------------------------
(***************************************************************************)
(* The failover actions of a node that becomes primary: executeFailover-   *)
(* Actions of pkg/failover/leader.go and the EC2 calls of pkg/failover/    *)
(* aws.go.  Several nodes may run them at once against one EC2 account.    *)
(* Each EC2 request is one step: it is answered, or it fails with or       *)
(* without having taken effect; a node may crash between two requests.     *)
(*                                                                         *)
(* EC2 itself is external and modelled from the calls made to it: an       *)
(* address is unassigned only from the interface that has it, and assigned *)
(* only when no other interface has it (AllowReassignment is never set).   *)
(***************************************************************************)
EXTENDS Naturals

CONSTANTS
  Nodes,           \* the instances that may take over
  ENIs,            \* the network interfaces of the account
  MyENI,           \* the first interface attached to each node
  ENIIP,           \* the address whose owner is the primary
  FloatingIPs,     \* the addresses that FilterFloatingIPs keeps
  Tables,          \* the route tables with a route to DestinationCIDR
  DestinationCIDR, \* whether one is configured
  Overlapping,     \* whether two nodes may take over at the same time
  MaxFaults,       \* bound on failed requests and crashes
  None

IPs == FloatingIPs \cup {ENIIP}

ASSUME NodeAssumption == MyENI \in [Nodes -> ENIs]
ASSUME InjectiveAssumption == \A m, n \in Nodes : MyENI[m] = MyENI[n] => m = n
ASSUME NoneAssumption == None \notin ENIs
ASSUME BoundAssumption ==
  MaxFaults \in Nat /\ Overlapping \in BOOLEAN /\ DestinationCIDR \in BOOLEAN

VARIABLES
  owner,    \* EC2: the interface that has each address, or None
  route,    \* EC2: the interface that each route table points to
  eip,      \* EC2: the interface the Elastic IP of ENIIP is bound to, or None
  faults,   \* failures so far
  pc,       \* where each node is in executeFailoverActions
  cur,      \* currentENI of TakeOverENI, then the binding MoveEIPToENI found
  new,      \* newENI
  unseen,   \* interfaces the loop has yet to look at
  old,      \* oldENI
  drop,     \* floating addresses still to unassign
  add,      \* floating addresses still to assign
  tablesPc, \* where UpdateRouteTables is
  tables,   \* route tables still to update
  failed,   \* an error was sent on errCh
  result    \* what executeFailoverActions returned last

ec2Vars  == <<owner, route, eip>>
moveVars == <<cur, new, unseen, old>>
workVars == <<drop, add, tablesPc, tables, failed>>
vars == <<ec2Vars, faults, pc, moveVars, workVars, result>>

Init ==
  \* Addresses and routes are on one interface: that of the last primary.
  /\ \E e \in ENIs :
       /\ owner = [ip \in IPs |-> e] /\ route = [t \in Tables |-> e]
       /\ eip \in {e, None}
  /\ faults = 0
  /\ pc = [n \in Nodes |-> "idle"]
  /\ cur = [n \in Nodes |-> None] /\ new = [n \in Nodes |-> None]
  /\ unseen = [n \in Nodes |-> {}] /\ old = [n \in Nodes |-> None]
  /\ drop = [n \in Nodes |-> {}] /\ add = [n \in Nodes |-> {}]
  /\ tablesPc = [n \in Nodes |-> "done"] /\ tables = [n \in Nodes |-> {}]
  /\ failed = [n \in Nodes |-> FALSE]
  /\ result = [n \in Nodes |-> "none"]

-----------------------------------------------------------------------------
(* EC2 requests: the effect of each one that is carried out *)

\* An address leaves an interface; its Elastic IP may or may not survive that.
Unassigned(ip, e) ==
  /\ owner[ip] = e /\ e # None
  /\ owner' = [owner EXCEPT ![ip] = None]
  /\ eip' \in IF ip = ENIIP THEN {eip, None} ELSE {eip}
  /\ UNCHANGED route

Assigned(ip, e) ==
  /\ owner[ip] \in {None, e}
  /\ owner' = [owner EXCEPT ![ip] = e]
  /\ UNCHANGED <<route, eip>>

\* EC2 refuses the request.
UnassignRefused(ip, e) == owner[ip] # e /\ UNCHANGED ec2Vars
AssignRefused(ip, e)   == owner[ip] \notin {None, e} /\ UNCHANGED ec2Vars

\* One more request fails: lost on the way, so nothing changes.
Fault == faults < MaxFaults /\ faults' = faults + 1
Lost  == Fault /\ UNCHANGED ec2Vars

Goto(n, label) == pc' = [pc EXCEPT ![n] = label]

\* executeFailoverActions returns.
Return(n, r) == Goto(n, "idle") /\ result' = [result EXCEPT ![n] = r]

\* A request whose failure ends executeFailoverActions.
Abort(n) == Return(n, "error") /\ UNCHANGED <<moveVars, workVars>>

-----------------------------------------------------------------------------
(* TakeOverENI *)

\* becomePrimary calls executeFailoverActions.
Begin(n) ==
  /\ pc[n] = "idle" /\ (Overlapping \/ \A m \in Nodes : pc[m] = "idle")
  /\ Goto(n, "locate")
  /\ result' = [result EXCEPT ![n] = "none"]
  /\ failed' = [failed EXCEPT ![n] = FALSE]
  /\ UNCHANGED <<ec2Vars, faults, moveVars, drop, add, tablesPc, tables>>

\* Mutant: an empty answer is not an error.
Locate_Unchecked(n) ==
  /\ pc[n] = "locate"
  /\ cur' = [cur EXCEPT ![n] = owner[ENIIP]]
  /\ Goto(n, IF owner[ENIIP] = MyENI[n] THEN "identify" ELSE "unassign")
  /\ UNCHANGED <<ec2Vars, faults, new, unseen, old, workVars, result>>

\* Mutant: the two interfaces are not compared.
Locate_Always(n) ==
  /\ pc[n] = "locate" /\ UNCHANGED <<ec2Vars, faults>>
  /\ \/ /\ owner[ENIIP] # None
        /\ cur' = [cur EXCEPT ![n] = owner[ENIIP]] /\ Goto(n, "unassign")
        /\ UNCHANGED <<new, unseen, old, workVars, result>>
     \/ owner[ENIIP] = None /\ Abort(n)

\* Find the owner of ENIIP and our own interface; nothing to do when equal.
Locate(n) ==
  /\ pc[n] = "locate" /\ UNCHANGED <<ec2Vars, faults>>
  /\ \/ /\ owner[ENIIP] # None
        /\ cur' = [cur EXCEPT ![n] = owner[ENIIP]]
        /\ Goto(n, IF owner[ENIIP] = MyENI[n] THEN "identify" ELSE "unassign")
        /\ UNCHANGED <<new, unseen, old, workVars, result>>
     \/ owner[ENIIP] = None /\ Abort(n)

\* Mutant: the address is not assigned after it was unassigned.
Unassign_Only(n) ==
  /\ pc[n] = "unassign" /\ UNCHANGED faults
  /\ \/ Unassigned(ENIIP, cur[n]) /\ Goto(n, "verify") /\ UNCHANGED <<moveVars, workVars, result>>
     \/ UnassignRefused(ENIIP, cur[n]) /\ Abort(n)

\* Mutant: the error of the unassign request is ignored, as later ones are.
Unassign_Ignored(n) ==
  /\ pc[n] = "unassign" /\ UNCHANGED faults /\ Goto(n, "assign")
  /\ Unassigned(ENIIP, cur[n]) \/ UnassignRefused(ENIIP, cur[n])
  /\ UNCHANGED <<moveVars, workVars, result>>

Unassign(n) ==
  /\ pc[n] = "unassign" /\ UNCHANGED faults
  /\ \/ Unassigned(ENIIP, cur[n]) /\ Goto(n, "assign") /\ UNCHANGED <<moveVars, workVars, result>>
     \/ UnassignRefused(ENIIP, cur[n]) /\ Abort(n)

Assign(n) ==
  /\ pc[n] = "assign" /\ UNCHANGED faults
  /\ \/ Assigned(ENIIP, MyENI[n]) /\ Goto(n, "verify") /\ UNCHANGED <<moveVars, workVars, result>>
     \/ AssignRefused(ENIIP, MyENI[n]) /\ Abort(n)

Verify(n) ==
  /\ pc[n] = "verify" /\ UNCHANGED <<ec2Vars, faults>>
  /\ \/ owner[ENIIP] = MyENI[n] /\ Goto(n, "findEIP") /\ UNCHANGED <<moveVars, workVars, result>>
     \/ owner[ENIIP] # MyENI[n] /\ Abort(n)

\* MoveEIPToENI, whose errors are logged and ignored: what the Elastic IP of
\* ENIIP is bound to, if anything.
FindEIP(n) ==
  /\ pc[n] = "findEIP"
  /\ cur' = [cur EXCEPT ![n] = eip]
  /\ Goto(n, IF eip = None THEN "identify" ELSE "dropEIP")
  /\ UNCHANGED <<ec2Vars, faults, new, unseen, old, workVars, result>>

\* The association found is dissolved; it fails when it is gone by now.
DropEIP(n) ==
  /\ pc[n] = "dropEIP"
  /\ IF eip = cur[n] THEN eip' = None /\ Goto(n, "bindEIP")
                     ELSE Goto(n, "identify") /\ UNCHANGED eip
  /\ UNCHANGED <<owner, route, faults, moveVars, workVars, result>>

\* The Elastic IP follows, from wherever it is, provided the address is ours.
BindEIP(n) ==
  /\ pc[n] = "bindEIP" /\ Goto(n, "identify")
  /\ eip' = IF owner[ENIIP] = MyENI[n] THEN MyENI[n] ELSE eip
  /\ UNCHANGED <<owner, route, faults, moveVars, workVars, result>>

-----------------------------------------------------------------------------
(* The rest of executeFailoverActions *)

\* The interface that has ENIIP by now.
Identify(n) ==
  /\ pc[n] = "identify" /\ UNCHANGED <<ec2Vars, faults>>
  /\ \/ /\ owner[ENIIP] # None
        /\ new' = [new EXCEPT ![n] = owner[ENIIP]] /\ Goto(n, "describe")
        /\ UNCHANGED <<cur, unseen, old, workVars, result>>
     \/ owner[ENIIP] = None /\ Abort(n)

\* All other interfaces, to be looked at one by one.
Describe(n) ==
  /\ pc[n] = "describe" /\ Goto(n, "scan")
  /\ unseen' = [unseen EXCEPT ![n] = ENIs \ {new[n]}]
  /\ UNCHANGED <<ec2Vars, faults, cur, new, old, workVars, result>>

FloatingOn(e) == {ip \in FloatingIPs : owner[ip] = e}

\* Both goroutines start: routes, and the addresses of oldENI if one was found.
StartWork(n, e, ips) ==
  /\ Goto(n, "work")
  /\ old' = [old EXCEPT ![n] = e]
  /\ drop' = [drop EXCEPT ![n] = ips] /\ add' = [add EXCEPT ![n] = ips]
  /\ tablesPc' = [tablesPc EXCEPT ![n] = IF DestinationCIDR THEN "describe" ELSE "done"]
  /\ UNCHANGED <<cur, new, tables, failed, result>>

\* The first interface with floating addresses ends the loop.
Scan(n) ==
  /\ pc[n] = "scan" /\ UNCHANGED <<ec2Vars, faults>>
  /\ \/ \E e \in unseen[n] :
          /\ unseen' = [unseen EXCEPT ![n] = @ \ {e}]
          /\ IF FloatingOn(e) # {}
             THEN StartWork(n, e, FloatingOn(e))
             ELSE UNCHANGED <<pc, cur, new, old, workVars, result>>
     \/ unseen[n] = {} /\ StartWork(n, None, {}) /\ UNCHANGED unseen

\* UpdateRouteTables: without a table it is an error.
DescribeTables(n) ==
  /\ pc[n] = "work" /\ tablesPc[n] = "describe"
  /\ tablesPc' = [tablesPc EXCEPT ![n] = "done"]
  /\ tables' = [tables EXCEPT ![n] = Tables]
  /\ failed' = [failed EXCEPT ![n] = @ \/ Tables = {}]
  /\ UNCHANGED <<ec2Vars, faults, pc, moveVars, drop, add, result>>

ReplaceRoute(n, t) ==
  /\ pc[n] = "work" /\ t \in tables[n]
  /\ route' = [route EXCEPT ![t] = new[n]]
  /\ tables' = [tables EXCEPT ![n] = @ \ {t}]
  /\ UNCHANGED <<owner, eip, faults, pc, moveVars, drop, add, tablesPc, failed, result>>

\* Mutant: source and destination are swapped.
DropIP_Swapped(n, ip) ==
  /\ pc[n] = "work" /\ ip \in drop[n]
  /\ drop' = [drop EXCEPT ![n] = @ \ {ip}]
  /\ \/ Unassigned(ip, new[n]) /\ UNCHANGED failed
     \/ UnassignRefused(ip, new[n]) /\ failed' = [failed EXCEPT ![n] = TRUE]
  /\ UNCHANGED <<faults, pc, moveVars, add, tablesPc, tables, result>>

\* ReassignFloatingIPs, in parallel: unassign every address ...
DropIP(n, ip) ==
  /\ pc[n] = "work" /\ ip \in drop[n]
  /\ drop' = [drop EXCEPT ![n] = @ \ {ip}]
  /\ \/ Unassigned(ip, old[n]) /\ UNCHANGED failed
     \/ UnassignRefused(ip, old[n]) /\ failed' = [failed EXCEPT ![n] = TRUE]
  /\ UNCHANGED <<faults, pc, moveVars, add, tablesPc, tables, result>>

\* ... and, once all are tried, assign every address, refused ones included.
AddIP(n, ip) ==
  /\ pc[n] = "work" /\ drop[n] = {} /\ ip \in add[n]
  /\ add' = [add EXCEPT ![n] = @ \ {ip}]
  /\ \/ Assigned(ip, new[n]) /\ UNCHANGED failed
     \/ AssignRefused(ip, new[n]) /\ failed' = [failed EXCEPT ![n] = TRUE]
  /\ UNCHANGED <<faults, pc, moveVars, drop, tablesPc, tables, result>>

\* Mutant: the errors of the goroutines are not looked at.
Finish_Unchecked(n) ==
  /\ pc[n] = "work" /\ tablesPc[n] = "done"
  /\ tables[n] = {} /\ drop[n] = {} /\ add[n] = {}
  /\ Return(n, "ok")
  /\ UNCHANGED <<ec2Vars, faults, moveVars, workVars>>

\* Both goroutines have reported.
Finish(n) ==
  /\ pc[n] = "work" /\ tablesPc[n] = "done"
  /\ tables[n] = {} /\ drop[n] = {} /\ add[n] = {}
  /\ Return(n, IF failed[n] THEN "error" ELSE "ok")
  /\ UNCHANGED <<ec2Vars, faults, moveVars, workVars>>

-----------------------------------------------------------------------------
(* Failures *)

\* A request that has to succeed fails; an Unassign or Assign may have taken
\* effect all the same.
FaultAborts(n) ==
  /\ pc[n] \in {"locate", "unassign", "assign", "verify", "identify"}
  /\ Fault /\ Abort(n)
  /\ \/ UNCHANGED ec2Vars
     \/ pc[n] = "unassign" /\ Unassigned(ENIIP, cur[n])
     \/ pc[n] = "assign" /\ Assigned(ENIIP, MyENI[n])

\* A failed request of MoveEIPToENI ends it and is logged only; the Disassociate
\* or Associate may have taken effect all the same.
FaultInEIP(n) ==
  /\ pc[n] \in {"findEIP", "dropEIP", "bindEIP"}
  /\ Fault /\ Goto(n, "identify")
  /\ \/ UNCHANGED eip
     \/ pc[n] = "dropEIP" /\ eip = cur[n] /\ eip' = None
     \/ pc[n] = "bindEIP" /\ owner[ENIIP] = MyENI[n] /\ eip' = MyENI[n]
  /\ UNCHANGED <<owner, route, moveVars, workVars, result>>

\* Other failures that are logged only: no interface is listed, or one is not
\* looked into.
FaultIgnored(n) ==
  /\ Lost
  /\ \/ pc[n] = "describe" /\ StartWork(n, None, {}) /\ UNCHANGED unseen
     \/ /\ pc[n] = "scan"
        /\ \E e \in unseen[n] : unseen' = [unseen EXCEPT ![n] = @ \ {e}]
        /\ UNCHANGED <<pc, cur, new, old, workVars, result>>

\* Failures in one of the goroutines, which the others do not notice; the request
\* may have taken effect.
FaultInWork(n) ==
  /\ pc[n] = "work" /\ Fault
  /\ failed' = [failed EXCEPT ![n] = TRUE]
  /\ UNCHANGED <<pc, moveVars, result>>
  /\ \/ /\ tablesPc[n] = "describe" /\ tablesPc' = [tablesPc EXCEPT ![n] = "done"]
        /\ UNCHANGED <<ec2Vars, tables, drop, add>>
     \/ \E t \in tables[n] :
          /\ tables' = [tables EXCEPT ![n] = @ \ {t}]
          /\ route' = [route EXCEPT ![t] = new[n]] \/ UNCHANGED route
          /\ UNCHANGED <<owner, eip, tablesPc, drop, add>>
     \/ \E ip \in drop[n] :
          /\ drop' = [drop EXCEPT ![n] = @ \ {ip}]
          /\ Unassigned(ip, old[n]) \/ UNCHANGED ec2Vars
          /\ UNCHANGED <<tablesPc, tables, add>>
     \/ \E ip \in add[n] :
          /\ drop[n] = {} /\ add' = [add EXCEPT ![n] = @ \ {ip}]
          /\ Assigned(ip, new[n]) \/ UNCHANGED ec2Vars
          /\ UNCHANGED <<tablesPc, tables, drop>>

\* The process dies between two requests, and starts anew.
Crash(n) ==
  /\ pc[n] # "idle" /\ Lost
  /\ Return(n, "none")
  /\ drop' = [drop EXCEPT ![n] = {}] /\ add' = [add EXCEPT ![n] = {}]
  /\ tables' = [tables EXCEPT ![n] = {}] /\ tablesPc' = [tablesPc EXCEPT ![n] = "done"]
  /\ UNCHANGED <<moveVars, failed>>

Step(n) ==
  \/ Begin(n) \/ Locate(n) \/ Unassign(n) \/ Assign(n) \/ Verify(n)
  \/ FindEIP(n) \/ DropEIP(n) \/ BindEIP(n)
  \/ Identify(n) \/ Describe(n) \/ Scan(n) \/ DescribeTables(n) \/ Finish(n)
  \/ \E t \in Tables : ReplaceRoute(n, t)
  \/ \E ip \in IPs : DropIP(n, ip) \/ AddIP(n, ip)

Next == \E n \in Nodes :
  Step(n) \/ FaultAborts(n) \/ FaultInEIP(n) \/ FaultIgnored(n) \/ FaultInWork(n) \/ Crash(n)

Spec == Init /\ [][Next]_vars

\* Every node keeps taking over and every request is answered in the end.
FairSpec == Spec /\ \A n \in Nodes : WF_vars(Step(n))

-----------------------------------------------------------------------------
(* Properties *)

MaybeENI == ENIs \cup {None}

\* Every variable holds a value the code and EC2 can give it; what a node uses as
\* an interface is one, its dereferenced answers were not empty.
TypeOK ==
  /\ owner \in [IPs -> MaybeENI] /\ route \in [Tables -> MaybeENI] /\ eip \in MaybeENI
  /\ faults \in 0..MaxFaults
  /\ pc \in [Nodes -> {"idle", "locate", "unassign", "assign", "verify", "findEIP", "dropEIP",
                       "bindEIP", "identify", "describe", "scan", "work"}]
  /\ cur \in [Nodes -> MaybeENI] /\ new \in [Nodes -> MaybeENI]
  /\ unseen \in [Nodes -> SUBSET ENIs] /\ old \in [Nodes -> MaybeENI]
  /\ drop \in [Nodes -> SUBSET FloatingIPs] /\ add \in [Nodes -> SUBSET FloatingIPs]
  /\ tablesPc \in [Nodes -> {"describe", "done"}] /\ tables \in [Nodes -> SUBSET Tables]
  /\ failed \in [Nodes -> BOOLEAN]
  /\ result \in [Nodes -> {"none", "ok", "error"}]
  /\ \A n \in Nodes : /\ pc[n] \in {"unassign", "dropEIP"} => cur[n] # None
                      /\ pc[n] \in {"describe", "scan", "work"} => new[n] # None

\* Node n is between the two halves of a move and will assign ip next.
WillAssign(n, ip) ==
  \/ ip = ENIIP /\ pc[n] = "assign"
  \/ pc[n] = "work" /\ ip \in add[n]

\* However many nodes take over at once, an address without an interface is
\* always in the hands of a node that is about to assign it: as long as no
\* request fails and nobody crashes, no interleaving of the unassign-then-assign
\* pairs of TakeOverENI and ReassignFloatingIPs drops an address.
NoLossWithoutFault ==
  \A ip \in IPs : (faults = 0 /\ owner[ip] = None) => \E n \in Nodes : WillAssign(n, ip)

\* ... and so it gets an interface again.
LossIsTransient ==
  \A ip \in IPs : owner[ip] = None ~> (owner[ip] # None \/ faults > 0)

\* Nothing in the code keeps two nodes from moving the address at the same time:
\* there is no lock, and AllowReassignment is not set.  The request that fails is
\* the lock: unassigning from an interface that has the address no longer is an
\* error that ends the takeover, so one node at a time is between the two halves
\* of a move, and it finds the address free.
OnlyOneMoves ==
  \A n \in Nodes : pc[n] = "assign" =>
    owner[ENIIP] = None /\ \A m \in Nodes \ {n} : pc[m] # "assign"

\* The step in which node n reports success.
Succeeds(n) == pc[n] = "work" /\ pc'[n] = "idle" /\ result'[n] = "ok"

\* When takeovers do not overlap, one that reports success has ENIIP and all
\* routes, whatever requests failed before; and if none failed in the history of
\* the pair it has all floating addresses too, and the Elastic IP is not left
\* on another interface.
SuccessMeansOwnership ==
  [][\A n \in Nodes : (Succeeds(n) /\ ~Overlapping) =>
       /\ owner[ENIIP] = MyENI[n]
       /\ DestinationCIDR => \A t \in Tables : route[t] = MyENI[n]
       /\ faults = 0 => /\ \A ip \in IPs : owner[ip] = MyENI[n]
                        /\ eip \in {None, MyENI[n]}]_vars

\* Without overlap and without faults a takeover does not fail.
SoloSucceeds ==
  (~Overlapping /\ faults = 0 /\ (DestinationCIDR => Tables # {}))
     => \A n \in Nodes : result[n] # "error"

-----------------------------------------------------------------------------
(* The refinement mapping to AddressMove *)

Move == INSTANCE AddressMove WITH
  Places <- ENIs,
  Home   <- MyENI,
  owner  <- owner[ENIIP],
  taking <- [n \in Nodes |-> pc[n] = "assign"]

\* TakeOverENI implements AddressMove: no other action of executeFailoverActions,
\* no failure, crash or other node moves the address in another way.  It has to be
\* none of the floating addresses, which ReassignFloatingIPs moves by other rules.
ImplementsMove == Move!MoveSpec

-----------------------------------------------------------------------------
(* What comments say and the code does not do: one run each finds it.        *)

\* leader.go:844 "take over the ENI IP if we don't already own it": an address
\* that nobody owns is taken by the nodes that keep taking over.
ENIIPRecovers == owner[ENIIP] = None ~> owner[ENIIP] # None

\* aws.go:327 "updates all route tables to point to the new ENI": when all nodes
\* have succeeded and are idle, routes point to the owner of ENIIP.
RoutesFollowENIIP ==
  (\A n \in Nodes : pc[n] = "idle" /\ result[n] = "ok") =>
     \A t \in Tables : route[t] = owner[ENIIP]
=============================================================================
