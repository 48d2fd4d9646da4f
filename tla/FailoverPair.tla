---------------------------- MODULE FailoverPair ----------------------------
(***************************************************************************)
(* The daemons of all nodes together, around one ENI address.  Each one is *)
(* a RoleMachine; they never talk about roles, but                         *)
(*   - the election loop of a node that is not secondary asks EC2 who has  *)
(*     the address, compares the answer with the role it has by then, and  *)
(*     asks for another role later still;                                  *)
(*   - the heartbeat monitor of a secondary asks for promotion: no code    *)
(*     sends a heartbeat, so silence is all it ever hears;                 *)
(*   - a promotion takes the address from the node that has it;            *)
(*   - a secondary connects to whoever has the address and serves.         *)
(* The steps inside a daemon are those of LeaderFailover, the requests of  *)
(* a takeover those of ENITakeover; here both are as coarse as the nodes   *)
(* can tell: RoleMachine and AddressMove are what they are shown to do.    *)
(***************************************************************************)
EXTENDS RoleMachine, Naturals

CONSTANTS
  MaxWatch,  \* bound on monitors of one node
  None

ASSUME BoundsAssumption == MaxWatch \in Nat \ {0}
ASSUME NoneAssumption == None \notin Nodes

VARIABLES
  owner,    \* EC2: the node that has ENIIP, or None
  verdict,  \* what the election check in flight has answered, or Empty
  decided,  \* the role that the election loop is about to ask for, or Empty
  watch,    \* how many heartbeat monitors each node runs
  taking,   \* the node has unassigned the address and is about to assign it
  link      \* the node each connected client talks to, or None

pairVars == <<owner, verdict, decided, watch, taking, link>>
vars == <<roleVars, pairVars>>

PairInit ==
  /\ Init
  /\ owner \in Nodes
  /\ verdict = [n \in Nodes |-> Empty] /\ decided = [n \in Nodes |-> Empty]
  /\ watch = [n \in Nodes |-> 0]
  /\ taking = [n \in Nodes |-> FALSE] /\ link = [n \in Nodes |-> None]

-----------------------------------------------------------------------------
(* leaderElectionLoop and heartbeatMonitorLoop *)

\* CheckENIOwnership, as EC2 answers it at this moment.
CheckENIOwnership(n) == IF owner = n THEN RolePrimary ELSE RoleSecondary

\* Mutant: the check is skipped for a primary.
Check_SkipsPrimary(n) ==
  /\ live[n] /\ role[n] = RoleUnknown
  /\ verdict[n] = Empty /\ decided[n] = Empty
  /\ verdict' = [verdict EXCEPT ![n] = CheckENIOwnership(n)]
  /\ UNCHANGED <<roleVars, owner, decided, watch, taking, link>>

\* The ticker of a node that is not secondary fires, and EC2 answers.  A check
\* that fails changes nothing.
Check(n) ==
  /\ live[n] /\ role[n] # RoleSecondary
  /\ verdict[n] = Empty /\ decided[n] = Empty
  /\ verdict' = [verdict EXCEPT ![n] = CheckENIOwnership(n)]
  /\ UNCHANGED <<roleVars, owner, decided, watch, taking, link>>

\* A request that finds the queue full is dropped.
Offer(n, r) == IF asked[n] = Empty THEN Ask(n, r) ELSE UNCHANGED roleVars

\* The answer is compared with the role the node has by now ...
Compare(n) ==
  /\ verdict[n] # Empty /\ verdict' = [verdict EXCEPT ![n] = Empty]
  /\ decided' = [decided EXCEPT ![n] = IF verdict[n] # role[n] THEN verdict[n] ELSE Empty]
  /\ UNCHANGED <<roleVars, owner, watch, taking, link>>

\* ... and asked for when it may have another one, maybe this one.
Send(n) ==
  /\ decided[n] # Empty /\ decided' = [decided EXCEPT ![n] = Empty]
  /\ Offer(n, decided[n])
  /\ UNCHANGED <<owner, verdict, watch, taking, link>>

\* A monitor has missed enough heartbeats.
Silence(n) ==
  /\ watch[n] > 0 /\ watch' = [watch EXCEPT ![n] = @ - 1]
  /\ Offer(n, RolePrimary)
  /\ UNCHANGED <<owner, verdict, decided, taking, link>>

-----------------------------------------------------------------------------
(* Transitions *)

Start(n) == Begin(n) /\ UNCHANGED pairVars

\* Mutant: Shutdown closes the listener only.
Unlinked_Kept(n) == UNCHANGED link

\* The clients of the server lose their connection, for good: none reconnects.
Unlinked(n) == link' = [m \in Nodes |-> IF link[m] = n THEN None ELSE link[m]]

Shutdown(n) ==
  /\ ShutServer(n) /\ Unlinked(n)
  /\ UNCHANGED <<owner, verdict, decided, watch, taking>>

CleanedUp(n) ==
  /\ Cleared(n) /\ link' = [link EXCEPT ![n] = None]
  /\ UNCHANGED <<owner, verdict, decided, watch, taking>>

Promoting(n) == phase[n] = "cleared" /\ target[n] = RolePrimary

\* The address is at a node or nowhere.
Address == INSTANCE AddressMove WITH Places <- Nodes, Home <- [n \in Nodes |-> n]

\* TakeOverENI takes the address from the node that has it ...
Detach(n) ==
  /\ Promoting(n) /\ Address!Detach(n)
  /\ UNCHANGED <<roleVars, verdict, decided, watch, link>>

\* The server is made, and the monitors are told to stop: the ones that wait on
\* the channel do, the ones that are at work do not hear it.
Promoted(n) ==
  /\ MakeServer(n)
  /\ \E k \in 0..watch[n] : watch' = [watch EXCEPT ![n] = k]
  /\ UNCHANGED <<verdict, decided, link>>

\* ... and assigns it to its own interface.
Attach(n) == Address!Attach(n) /\ Promoted(n)

\* It has the address already, or finds it nowhere, which is an error that
\* becomePrimary logs.
TakeNothing(n) ==
  /\ ~taking[n] /\ owner \in {n, None}
  /\ Promoted(n) /\ UNCHANGED <<owner, taking>>

\* Any request fails, with or without having taken effect; that is logged, too.
TakeoverFails(n) ==
  /\ Promoted(n)
  /\ \/ Address!GiveUp(n) \/ Address!Lose(n)
     \/ ~taking[n] /\ UNCHANGED <<owner, taking>>

Listen(n) == ServerStarts(n) /\ UNCHANGED pairVars

\* Mutant: without a connection no monitor is started.
Demote_Unwatched(n) ==
  /\ MakeClient(n)
  /\ IF owner # None /\ server[owner] = "up"
     THEN link' = [link EXCEPT ![n] = owner] /\ watch' = [watch EXCEPT ![n] = 1]
     ELSE UNCHANGED <<link, watch>>
  /\ UNCHANGED <<owner, verdict, decided, taking>>

\* The client dials ENIIP, so it reaches the node that has it, if that one
\* listens; it stays unconnected otherwise.  One more monitor starts; past the
\* bound it is not followed.
Demote(n) ==
  /\ MakeClient(n)
  /\ watch' = [watch EXCEPT ![n] = IF @ < MaxWatch THEN @ + 1 ELSE @]
  /\ link' = IF owner # None /\ server[owner] = "up" THEN [link EXCEPT ![n] = owner] ELSE link
  /\ UNCHANGED <<owner, verdict, decided, taking>>

Store(n) == Assign(n) /\ UNCHANGED pairVars

-----------------------------------------------------------------------------
(* Crashes and restarts *)

Crash(n) ==
  /\ Halt(n)
  /\ verdict' = [verdict EXCEPT ![n] = Empty] /\ decided' = [decided EXCEPT ![n] = Empty]
  /\ watch' = [watch EXCEPT ![n] = 0]
  /\ taking' = [taking EXCEPT ![n] = FALSE]
  /\ link' = [m \in Nodes |-> IF n \in {m, link[m]} THEN None ELSE link[m]]
  /\ UNCHANGED owner

Restart(n) == Boot(n) /\ UNCHANGED pairVars

Election(n) == Check(n) \/ Compare(n) \/ Send(n)

Manager(n) ==
  \/ Start(n) \/ Shutdown(n) \/ CleanedUp(n)
  \/ Detach(n) \/ Attach(n) \/ TakeNothing(n) \/ Demote(n) \/ Store(n)

PairNext == \E n \in Nodes :
  \/ Check(n) \/ Compare(n) \/ Send(n) \/ Silence(n)
  \/ Start(n) \/ Shutdown(n) \/ CleanedUp(n)
  \/ Detach(n) \/ Attach(n) \/ TakeNothing(n) \/ TakeoverFails(n)
  \/ Listen(n) \/ Demote(n) \/ Store(n)
  \/ Crash(n) \/ Restart(n)

PairSpec == PairInit /\ [][PairNext]_vars

\* A node that runs does not for ever leave undone what asks for a role (its
\* election loop, its monitors), nor what carries a role out (its role manager, its
\* server goroutine).  A node that crashed need not come back.
NodeFairness(n) ==
  WF_vars(Election(n) \/ Silence(n)) /\ WF_vars(Manager(n) \/ Listen(n))

-----------------------------------------------------------------------------
(* Properties *)

PairTypeOK ==
  /\ role \in [Nodes -> Roles \cup {RoleUnknown}] /\ asked \in [Nodes -> Roles \cup {Empty}]
  /\ target \in [Nodes -> Roles \cup {Empty}]
  /\ phase \in [Nodes -> {"rest", "clearing", "cleared", "set"}]
  /\ server \in [Nodes -> {"down", "created", "up"}]
  /\ client \in [Nodes -> {"none", "made"}]
  /\ live \in [Nodes -> BOOLEAN]
  /\ owner \in Nodes \cup {None}
  /\ verdict \in [Nodes -> Roles \cup {Empty}] /\ decided \in [Nodes -> Roles \cup {Empty}]
  /\ watch \in [Nodes -> 0..MaxWatch] /\ taking \in [Nodes -> BOOLEAN]
  /\ link \in [Nodes -> Nodes \cup {None}]

\* A secondary pulls its state from another node, one that is primary or about
\* to be, however often the address has moved since it connected: never from
\* itself, never from a node that has become secondary.
PullsFromPrimary ==
  \A n, m \in Nodes : link[n] = m =>
    /\ m # n /\ server[m] = "up"
    /\ role[m] = RolePrimary \/ (phase[m] = "set" /\ target[m] = RolePrimary)

\* A primary that has lost the address learns of it and steps down, or gets it back:
\* it never stays so for good, though the answer it acts on may be older than the
\* role it had when it asked, and stale requests may have filled its queue.
OvertakenStepsDown(n) == []<>~(role[n] = RolePrimary /\ owner # n)

\* The node that has the address comes to serve it, or loses it or dies: also a
\* node that a stale answer has made secondary, and one that was started anew.
OwnerServes(n) == []<>~(owner = n /\ live[n] /\ server[n] # "up")

-----------------------------------------------------------------------------
(* What a comment says and the code does not do. *)

\* One node serves as primary and has the address, every other node is a
\* secondary connected to it, and nothing is under way.
Settled ==
  /\ \E p \in Nodes :
       /\ owner = p /\ role[p] = RolePrimary /\ server[p] = "up"
       /\ \A n \in Nodes \ {p} : role[n] = RoleSecondary /\ link[n] = p
  /\ \A n \in Nodes : /\ live[n] /\ phase[n] = "rest" /\ asked[n] = Empty
                      /\ verdict[n] = Empty /\ decided[n] = Empty

\* leader.go:413 "Primary sends heartbeats, doesn't monitor them": in a settled
\* pair nobody asks for another role.
SettledPairStays == [][Settled => \A n \in Nodes : asked'[n] = Empty]_vars
=============================================================================
