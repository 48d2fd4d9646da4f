----------------------------- MODULE RoleMachine -----------------------------
(***************************************************************************)
(* What a failover daemon promises the other nodes, whatever its           *)
(* goroutines do: how a role request becomes a role.  The requested role   *)
(* is taken from a queue of one, both ends of the old connection are given *)
(* up, the failover actions are tried, the new end is set up, and the role *)
(* is stored last.  roleManagementLoop, transitionToRole, becomePrimary,   *)
(* becomeSecondary and cleanup of pkg/failover/leader.go, seen from        *)
(* outside.  LeaderFailover implements it; FailoverPair composes it.       *)
(***************************************************************************)
CONSTANT Nodes

RolePrimary   == "primary"
RoleSecondary == "secondary"
RoleUnknown   == "unknown"
Roles == {RolePrimary, RoleSecondary}
Empty == "empty"

VARIABLES
  role,    \* the stored role of each node
  asked,   \* the role request it has queued, or Empty
  target,  \* the role it is in transition to, or Empty
  phase,   \* how far the transition is; "rest" outside of one
  server,  \* its fRPC server: "down", "created" or "up"
  client,  \* its fRPC client, connected or not: "none" or "made"
  live     \* whether it runs

roleVars == <<role, asked, target, phase, server, client, live>>

Init ==
  /\ role = [n \in Nodes |-> RoleUnknown] /\ asked = [n \in Nodes |-> Empty]
  /\ target = [n \in Nodes |-> Empty] /\ phase = [n \in Nodes |-> "rest"]
  /\ server = [n \in Nodes |-> "down"] /\ client = [n \in Nodes |-> "none"]
  /\ live = [n \in Nodes |-> TRUE]

Move(n, p) == phase' = [phase EXCEPT ![n] = p]

\* A request is queued, also one for the role that the node has by now.
Ask(n, r) ==
  /\ live[n] /\ asked[n] = Empty
  /\ asked' = [asked EXCEPT ![n] = r]
  /\ UNCHANGED <<role, target, phase, server, client, live>>

\* The transition starts by clearing up.
Begin(n) ==
  /\ phase[n] = "rest" /\ asked[n] # Empty
  /\ target' = [target EXCEPT ![n] = asked[n]] /\ asked' = [asked EXCEPT ![n] = Empty]
  /\ Move(n, "clearing")
  /\ UNCHANGED <<role, server, client, live>>

ShutServer(n) ==
  /\ phase[n] = "clearing" /\ server[n] # "down"
  /\ server' = [server EXCEPT ![n] = "down"]
  /\ UNCHANGED <<role, asked, target, phase, client, live>>

\* Mutant: the server is left running.
Cleared_Early(n) ==
  /\ phase[n] = "clearing"
  /\ client' = [client EXCEPT ![n] = "none"] /\ Move(n, "cleared")
  /\ UNCHANGED <<role, asked, target, server, live>>

\* The server is down; the client goes last.
Cleared(n) ==
  /\ phase[n] = "clearing" /\ server[n] = "down"
  /\ client' = [client EXCEPT ![n] = "none"] /\ Move(n, "cleared")
  /\ UNCHANGED <<role, asked, target, server, live>>

\* The failover actions are over, successful or not, and the server is made.
MakeServer(n) ==
  /\ phase[n] = "cleared" /\ target[n] = RolePrimary
  /\ server' = [server EXCEPT ![n] = "created"] /\ Move(n, "set")
  /\ UNCHANGED <<role, asked, target, client, live>>

\* The goroutine of the server gets to listen, at any later time.
ServerStarts(n) ==
  /\ server[n] = "created"
  /\ server' = [server EXCEPT ![n] = "up"]
  /\ UNCHANGED <<role, asked, target, phase, client, live>>

\* A secondary keeps its client also when that does not connect.
MakeClient(n) ==
  /\ phase[n] = "cleared" /\ target[n] = RoleSecondary
  /\ client' = [client EXCEPT ![n] = "made"] /\ Move(n, "set")
  /\ UNCHANGED <<role, asked, target, server, live>>

\* Mutant: the role is taken from the queue, not from the request in hand.
Assign_Queued(n) ==
  /\ phase[n] = "set"
  /\ role' = [role EXCEPT ![n] = asked[n]]
  /\ target' = [target EXCEPT ![n] = Empty] /\ Move(n, "rest")
  /\ UNCHANGED <<asked, server, client, live>>

\* The role is stored last.
Assign(n) ==
  /\ phase[n] = "set"
  /\ role' = [role EXCEPT ![n] = target[n]]
  /\ target' = [target EXCEPT ![n] = Empty] /\ Move(n, "rest")
  /\ UNCHANGED <<asked, server, client, live>>

\* The server or the client cannot be made: the old role stays, without its end.
Fail(n) ==
  /\ phase[n] = "cleared"
  /\ target' = [target EXCEPT ![n] = Empty] /\ Move(n, "rest")
  /\ UNCHANGED <<role, asked, server, client, live>>

\* The daemon stops, or is killed, at any moment; nothing of it is kept.
Halt(n) ==
  /\ live[n] /\ live' = [live EXCEPT ![n] = FALSE]
  /\ role' = [role EXCEPT ![n] = RoleUnknown] /\ asked' = [asked EXCEPT ![n] = Empty]
  /\ target' = [target EXCEPT ![n] = Empty] /\ Move(n, "rest")
  /\ server' = [server EXCEPT ![n] = "down"] /\ client' = [client EXCEPT ![n] = "none"]

\* It is started again, as it was the first time.
Boot(n) ==
  /\ ~live[n] /\ live' = [live EXCEPT ![n] = TRUE]
  /\ UNCHANGED <<role, asked, target, phase, server, client>>

Next == \E n \in Nodes :
  \/ \E r \in Roles : Ask(n, r)
  \/ Begin(n) \/ ShutServer(n) \/ Cleared(n)
  \/ MakeServer(n) \/ ServerStarts(n) \/ MakeClient(n)
  \/ Assign(n) \/ Fail(n) \/ Halt(n) \/ Boot(n)

Spec == Init /\ [][Next]_roleVars

-----------------------------------------------------------------------------
(* Properties *)

\* A node that answers fRPC requests, or is about to listen for them, is primary,
\* or has only to store that role; and it has no client.  SyncState (leader.go:650)
\* does not look at the role, and need not.
OnlyPrimaryServes ==
  \A n \in Nodes : server[n] # "down" =>
    /\ client[n] = "none"
    /\ role[n] = RolePrimary \/ (phase[n] = "set" /\ target[n] = RolePrimary)
=============================================================================
