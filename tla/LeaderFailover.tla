---------------------------- MODULE LeaderFailover ----------------------------
(***************************************************************************)
(* One failover daemon: type LeaderFailover of pkg/failover/leader.go.     *)
(*                                                                         *)
(* The daemon is a handful of goroutines over shared fields, of which only *)
(* the heartbeat counters are guarded by a mutex:                          *)
(*   - main            Start, then the deferred Stop of cmd/failover;      *)
(*   - election        leaderElectionLoop, asks EC2 who owns the ENI IP;   *)
(*   - manager         roleManagementLoop, the only writer of currentRole; *)
(*   - monitor[m]      heartbeatMonitorLoop, one per becomeSecondary call; *)
(*   - sync[s]         secondarySyncLoop, one per becomeSecondary call;    *)
(*   - starters        the goroutines that call frpcServer.Start.          *)
(* A step is what a goroutine does between two points where another one    *)
(* can observe it: a channel operation, a blocking call, or a read or a    *)
(* write of a field that another goroutine uses.  Fields are one machine   *)
(* word each, so a racy read returns some value that was stored.           *)
(***************************************************************************)
EXTENDS LeaderConfig, FiniteSets

CONSTANTS
  Config,           \* the configuration the flags give
  Monitors,         \* slots for heartbeat monitor goroutines (a bound)
  Syncs,            \* slots for sync loop goroutines (a bound)
  MaxStarters,      \* bound on pending server goroutines
  MayInterrupt,     \* whether the process may receive an interrupt
  TransitionErrors  \* whether NewServer and NewClient may return an error

RolePrimary   == "primary"
RoleSecondary == "secondary"
RoleUnknown   == "unknown"
Roles  == {RolePrimary, RoleSecondary}
Empty  == "empty"
Blocked  == {"open", "orphan", "closed", "nil"}
Cleaners == {"manager", "main"}

\* NewLeaderFailover returns an error on any other configuration.
ASSUME ConfigAssumption == RawConfig(Config) /\ ~Refused(Config)
ASSUME BoundAssumption ==
  {MayInterrupt, TransitionErrors} \subseteq BOOLEAN /\ MaxStarters \in Nat

Threshold       == Completed(Config).HeartbeatMissThreshold
DisableENICheck == Completed(Config).DisableENICheck  \* test mode; awsClient is nil

VARIABLES
  role,      \* currentRole
  roleCh,    \* the one-slot channel of requested roles, or Empty
  election,  \* where leaderElectionLoop is, or the role it has decided to ask for
  manager,   \* where roleManagementLoop is
  target,    \* newRole of the transition in progress
  cleaning,  \* where each caller of cleanup is, "no" when not in it
  main,      \* where Start and the deferred Stop are
  ctxDone,   \* the context is cancelled
  stopCh,    \* the stop channel
  server,    \* the server frpcServer points to
  leaked,    \* a server still listens that no field points to
  starters,  \* goroutines about to call frpcServer.Start
  client,    \* the client frpcClient points to
  hbCh,      \* heartbeatStopCh: "nil", or a channel that is not closed
  hbAge,     \* heartbeat intervals since lastHeartbeat, up to Threshold
  missed,    \* missedHeartbeats
  monitor,   \* where each monitor is, and on which channel it waits: "open" is
             \* the current one, "orphan" one that is open as well but that
             \* heartbeatStopCh points to no longer, so nobody will close it
  due,       \* monitors whose ticker has fired
  sync,      \* where each sync loop is
  panic      \* what killed the process, or "none"

lifeVars  == <<main, ctxDone, stopCh>>
roleVars  == <<role, roleCh, election, manager, target>>
endVars   == <<cleaning, server, leaked, starters, client>>
beatVars  == <<hbCh, hbAge, missed, monitor, due>>
vars == <<lifeVars, roleVars, endVars, beatVars, sync, panic>>

\* A send inside a select with a default: dropped when the slot is taken.
Offer(r) == roleCh' = IF roleCh = Empty THEN r ELSE roleCh

\* Whether this process answers fRPC requests.
Serving == server = "serving" \/ leaked

Init ==
  /\ role = RoleUnknown /\ roleCh = Empty
  /\ election = "select" /\ manager = "select" /\ target = RoleSecondary
  /\ cleaning = [c \in Cleaners |-> "no"]
  /\ main = "wait" /\ ctxDone = FALSE /\ stopCh = "open"
  /\ server = "nil" /\ leaked = FALSE /\ starters = 0 /\ client = "nil"
  /\ hbCh = "nil" /\ hbAge = Threshold /\ missed = 0
  /\ monitor = [m \in Monitors |-> "off"] /\ due = {}
  /\ sync = [s \in Syncs |-> "off"]
  /\ panic = "none"

-----------------------------------------------------------------------------
(* leaderElectionLoop *)

\* The ticker fires; a secondary skips the check, any other node asks EC2.
ElectionTick ==
  /\ election = "select" /\ role # RoleSecondary
  /\ election' = "checking"
  /\ UNCHANGED <<role, roleCh, manager, target, lifeVars, endVars, beatVars, sync, panic>>

\* What the check may answer: in test mode the forced role, secondary when none
\* is; otherwise whatever EC2 says.
ForcedRole == IF Completed(Config).ForceRole = RoleStringPrimary THEN RolePrimary ELSE RoleSecondary
Verdicts   == IF DisableENICheck THEN {ForcedRole} ELSE Roles

\* The answer is compared with the role of that moment, not of the tick ...
ElectionCompare ==
  /\ election = "checking"
  /\ \E newRole \in Verdicts : election' = IF newRole # role THEN newRole ELSE "select"
  /\ UNCHANGED <<role, roleCh, manager, target, lifeVars, endVars, beatVars, sync, panic>>

\* ... and asked for when the role may be another one again.
ElectionSend ==
  /\ election \in Roles /\ election' = "select"
  /\ Offer(election)
  /\ UNCHANGED <<role, manager, target, lifeVars, endVars, beatVars, sync, panic>>

\* CheckENIOwnership fails; the loop waits for the next tick.
ElectionError ==
  /\ election = "checking" /\ ~DisableENICheck
  /\ election' = "select"
  /\ UNCHANGED <<role, roleCh, manager, target, lifeVars, endVars, beatVars, sync, panic>>

ElectionExit ==
  /\ election = "select" /\ ctxDone
  /\ election' = "exited"
  /\ UNCHANGED <<role, roleCh, manager, target, lifeVars, endVars, beatVars, sync, panic>>

-----------------------------------------------------------------------------
(* cleanup, called by the manager before a transition and by main at the end *)

\* Mutant: the server is kept.
CleanupServer_Skipped(c) ==
  /\ cleaning[c] = "server" /\ cleaning' = [cleaning EXCEPT ![c] = "client"]
  /\ UNCHANGED <<server, leaked, starters, client, lifeVars, roleVars, beatVars, sync, panic>>

\* The first nil test of cleanup.
CleanupServer(c) ==
  /\ cleaning[c] = "server"
  /\ cleaning' = [cleaning EXCEPT ![c] = IF server = "nil" THEN "client" ELSE "shutdown"]
  /\ UNCHANGED <<server, leaked, starters, client, lifeVars, roleVars, beatVars, sync, panic>>

\* Mutant: Shutdown is forgotten.
CleanupShutdown_Skipped(c) ==
  /\ cleaning[c] = "shutdown" /\ cleaning' = [cleaning EXCEPT ![c] = "serverNil"]
  /\ UNCHANGED <<server, leaked, starters, client, lifeVars, roleVars, beatVars, sync, panic>>

\* Shutdown is called on what the field holds by then, maybe nothing.
CleanupShutdown(c) ==
  /\ cleaning[c] = "shutdown"
  /\ IF server = "nil"
     THEN panic' = "nilServer" /\ UNCHANGED server
     ELSE server' = "shut" /\ UNCHANGED panic
  /\ cleaning' = [cleaning EXCEPT ![c] = "serverNil"]
  /\ UNCHANGED <<leaked, starters, client, lifeVars, roleVars, beatVars, sync>>

\* The pointer is cleared after Shutdown returns, whatever it points to by then.
CleanupServerNil(c) ==
  /\ cleaning[c] = "serverNil"
  /\ server' = "nil"
  /\ leaked' = (leaked \/ server = "serving")
  /\ cleaning' = [cleaning EXCEPT ![c] = "client"]
  /\ UNCHANGED <<starters, client, lifeVars, roleVars, beatVars, sync, panic>>

\* Close recovers from a panic of its own, a client that is gone included.  A
\* call under way is cut off: each is on this client, as the ones before are closed.
CleanupClient(c) ==
  /\ cleaning[c] = "client"
  /\ \/ /\ client = "nil" /\ cleaning' = [cleaning EXCEPT ![c] = "no"]
        /\ UNCHANGED <<client, sync>>
     \/ /\ client # "nil" /\ cleaning' = [cleaning EXCEPT ![c] = "clientNil"]
        /\ client' = "closed"
        /\ sync' = [s \in Syncs |-> IF sync[s] = "rpc" THEN "cut" ELSE sync[s]]
  /\ UNCHANGED <<server, leaked, starters, lifeVars, roleVars, beatVars, panic>>

CleanupClientNil(c) ==
  /\ cleaning[c] = "clientNil"
  /\ client' = "nil"
  /\ cleaning' = [cleaning EXCEPT ![c] = "no"]
  /\ UNCHANGED <<server, leaked, starters, lifeVars, roleVars, beatVars, sync, panic>>

Cleanup(c) ==
  \/ CleanupServer(c) \/ CleanupShutdown(c) \/ CleanupServerNil(c)
  \/ CleanupClient(c) \/ CleanupClientNil(c)

-----------------------------------------------------------------------------
(* roleManagementLoop, transitionToRole, becomePrimary, becomeSecondary *)

RecvRole ==
  /\ manager = "select" /\ roleCh # Empty
  /\ target' = roleCh /\ roleCh' = Empty
  /\ manager' = "cleanup" /\ cleaning' = [cleaning EXCEPT !["manager"] = "server"]
  /\ UNCHANGED <<role, election, server, leaked, starters, client,
                 lifeVars, beatVars, sync, panic>>

Cleaned(r) == manager = "cleanup" /\ cleaning["manager"] = "no" /\ target = r

\* Mutant: cleanup runs in the background.
FailoverActionsDone_Early ==
  /\ manager = "cleanup" /\ target = RolePrimary
  /\ manager' = "serve" /\ cleaning' = [cleaning EXCEPT !["manager"] = "no"]
  /\ UNCHANGED <<role, roleCh, election, target, server, leaked, starters, client,
                 lifeVars, beatVars, sync, panic>>

\* executeFailoverActions returns; its error is logged and ignored.
FailoverActionsDone ==
  /\ Cleaned(RolePrimary)
  /\ manager' = "serve"
  /\ UNCHANGED <<role, roleCh, election, target, lifeVars, endVars, beatVars, sync, panic>>

\* NewServer succeeds; the server is started by a goroutine of its own.
CreateServer ==
  /\ manager = "serve" /\ starters < MaxStarters
  /\ server' = "created" /\ starters' = starters + 1
  /\ manager' = "stopHeartbeat"
  /\ UNCHANGED <<role, roleCh, election, target, cleaning, leaked, client,
                 lifeVars, beatVars, sync, panic>>

\* Mutant: the channel is closed but not cleared.
StopHeartbeat_NotCleared ==
  /\ manager = "stopHeartbeat" /\ manager' = "assign"
  /\ monitor' = [m \in Monitors |-> IF monitor[m] = "open" THEN "closed" ELSE monitor[m]]
  /\ hbAge' = Threshold /\ missed' = 0
  /\ UNCHANGED <<role, roleCh, election, target, hbCh, due, lifeVars, endVars, sync, panic>>

\* Close heartbeatStopCh, clear it, and forget the last heartbeat.
StopHeartbeat ==
  /\ manager = "stopHeartbeat"
  /\ monitor' = [m \in Monitors |-> IF monitor[m] = "open" THEN "closed" ELSE monitor[m]]
  /\ hbCh' = "nil" /\ hbAge' = Threshold /\ missed' = 0
  /\ manager' = "assign"
  /\ UNCHANGED <<role, roleCh, election, target, due, lifeVars, endVars, sync, panic>>

\* One more sync loop; past the bound it is not followed.
SpawnSync ==
  IF \A s \in Syncs : sync[s] # "off"
  THEN UNCHANGED sync
  ELSE \E s \in Syncs : sync[s] = "off" /\ sync' = [sync EXCEPT ![s] = "select"]

\* NewClient, then Connect, whose failure is only logged.
ConnectClient ==
  /\ Cleaned(RoleSecondary)
  /\ client' \in {"connected", "unconnected"}
  /\ manager' = "watch"
  /\ UNCHANGED <<role, roleCh, election, target, cleaning, server, leaked, starters,
                 lifeVars, beatVars, sync, panic>>

\* A fresh heartbeat, a new stop channel in place of any old one, which stays
\* open, one more monitor and one more sync loop.
WatchPrimary ==
  /\ manager = "watch" /\ manager' = "assign"
  /\ hbAge' = 0 /\ missed' = 0 /\ hbCh' = "open"
  /\ \E m \in Monitors :
       /\ monitor[m] = "off"
       /\ monitor' = [k \in Monitors |->
            IF k = m THEN "enter" ELSE IF monitor[k] = "open" THEN "orphan" ELSE monitor[k]]
       /\ due' = due \ {m}
  /\ SpawnSync
  /\ UNCHANGED <<role, roleCh, election, target, lifeVars, endVars, panic>>

\* Mutant: the error is swallowed and the role stored.
TransitionFails_Ignored ==
  /\ TransitionErrors
  /\ (manager = "serve" \/ Cleaned(RoleSecondary))
  /\ manager' = "assign"
  /\ UNCHANGED <<role, roleCh, election, target, lifeVars, endVars, beatVars, sync, panic>>

\* NewServer or NewClient fails: the error is logged and the role stays.
TransitionFails ==
  /\ TransitionErrors
  /\ (manager = "serve" \/ Cleaned(RoleSecondary))
  /\ manager' = "select"
  /\ UNCHANGED <<role, roleCh, election, target, lifeVars, endVars, beatVars, sync, panic>>

AssignRole ==
  /\ manager = "assign"
  /\ role' = target /\ manager' = "select"
  /\ UNCHANGED <<roleCh, election, target, lifeVars, endVars, beatVars, sync, panic>>

ManagerExit ==
  /\ manager = "select" /\ ctxDone
  /\ manager' = "exited"
  /\ UNCHANGED <<role, roleCh, election, target, lifeVars, endVars, beatVars, sync, panic>>

ManagerStep ==
  \/ RecvRole \/ Cleanup("manager") \/ FailoverActionsDone \/ CreateServer
  \/ StopHeartbeat \/ ConnectClient \/ WatchPrimary \/ TransitionFails \/ AssignRole

\* The goroutine of becomePrimary runs.  It reads frpcServer only now: the
\* pointer may have been cleared or may point to a later server.  Start fails
\* when the port is taken or the server was started or shut down before.
StartServer ==
  /\ starters > 0 /\ starters' = starters - 1
  /\ IF server = "nil"
     THEN panic' = "nilServer" /\ UNCHANGED server
     ELSE /\ server' = IF server = "created" /\ ~leaked THEN "serving" ELSE server
          /\ UNCHANGED panic
  /\ UNCHANGED <<cleaning, leaked, client, lifeVars, roleVars, beatVars, sync>>

-----------------------------------------------------------------------------
(* heartbeatMonitorLoop *)

\* One HeartbeatInterval passes and every running ticker fires.
Beat ==
  /\ hbAge' = IF hbAge < Threshold THEN hbAge + 1 ELSE hbAge
  /\ due' = {m \in Monitors : monitor[m] # "off"}
  /\ UNCHANGED <<hbCh, missed, monitor, lifeVars, roleVars, endVars, sync, panic>>

\* The select statement reads heartbeatStopCh each time it is entered.
MonitorEnter(m) ==
  /\ monitor[m] = "enter"
  /\ monitor' = [monitor EXCEPT ![m] = hbCh]
  /\ UNCHANGED <<hbCh, hbAge, missed, due, lifeVars, roleVars, endVars, sync, panic>>

\* Mutant: no miss is counted while lastHeartbeat is zero, which becomePrimary
\* sets along with the channel.
MonitorTick_Unset(m) ==
  /\ monitor[m] \in Blocked /\ m \in due
  /\ due' = due \ {m}
  /\ LET late == hbAge > 0 /\ hbCh # "nil"
         over == late /\ missed + 1 >= Threshold
     IN  /\ missed' = IF over THEN 0 ELSE IF late THEN missed + 1 ELSE missed
         /\ monitor' = [monitor EXCEPT ![m] = IF over THEN "trigger" ELSE "enter"]
  /\ UNCHANGED <<hbCh, hbAge, lifeVars, roleVars, endVars, sync, panic>>

\* Mutant: the counter is not reset when it reaches the threshold.
MonitorTick_NoReset(m) ==
  /\ monitor[m] \in Blocked /\ m \in due
  /\ due' = due \ {m}
  /\ missed' = IF hbAge > 0 THEN missed + 1 ELSE missed
  /\ monitor' = [monitor EXCEPT ![m] = IF missed' >= Threshold THEN "trigger" ELSE "enter"]
  /\ UNCHANGED <<hbCh, hbAge, lifeVars, roleVars, endVars, sync, panic>>

\* The body of the ticker case, under heartbeatMutex.
MonitorTick(m) ==
  /\ monitor[m] \in Blocked /\ m \in due
  /\ due' = due \ {m}
  /\ LET late == hbAge > 0
         over == late /\ missed + 1 >= Threshold
     IN  /\ missed' = IF over THEN 0 ELSE IF late THEN missed + 1 ELSE missed
         /\ monitor' = [monitor EXCEPT ![m] = IF over THEN "trigger" ELSE "enter"]
  /\ UNCHANGED <<hbCh, hbAge, lifeVars, roleVars, endVars, sync, panic>>

\* Mutant: the monitor returns without a request.
MonitorTrigger_Silent(m) ==
  /\ monitor[m] = "trigger" /\ monitor' = [monitor EXCEPT ![m] = "off"]
  /\ UNCHANGED <<hbCh, hbAge, missed, due, lifeVars, roleVars, endVars, sync, panic>>

\* Ask for the primary role and return, also when the request was dropped.
MonitorTrigger(m) ==
  /\ monitor[m] = "trigger"
  /\ Offer(RolePrimary)
  /\ monitor' = [monitor EXCEPT ![m] = "off"]
  /\ UNCHANGED <<role, election, manager, target, hbCh, hbAge, missed, due,
                 lifeVars, endVars, sync, panic>>

MonitorExit(m) ==
  /\ monitor[m] = "closed" \/ (monitor[m] \in Blocked /\ ctxDone)
  /\ monitor' = [monitor EXCEPT ![m] = "off"]
  /\ UNCHANGED <<hbCh, hbAge, missed, due, lifeVars, roleVars, endVars, sync, panic>>

MonitorStep(m) == MonitorEnter(m) \/ MonitorTick(m) \/ MonitorTrigger(m) \/ MonitorExit(m)

-----------------------------------------------------------------------------
(* secondarySyncLoop and syncFromPrimary *)

\* The ticker fires: return when no longer secondary, else start a sync.
SyncTick(s) ==
  /\ sync[s] = "select"
  /\ sync' = [sync EXCEPT ![s] = IF role = RoleSecondary THEN "check" ELSE "off"]
  /\ UNCHANGED <<lifeVars, roleVars, endVars, beatVars, panic>>

\* The nil test of frpcClient.
SyncCheck(s) ==
  /\ sync[s] = "check"
  /\ sync' = [sync EXCEPT ![s] = IF client = "nil" THEN "select" ELSE "call"]
  /\ UNCHANGED <<lifeVars, roleVars, endVars, beatVars, panic>>

\* The field is read again for the call.
SyncCall(s) ==
  /\ sync[s] = "call"
  /\ panic' = IF client = "nil" THEN "nilClient" ELSE panic
  /\ sync' = [sync EXCEPT ![s] = IF client = "connected" THEN "rpc" ELSE "select"]
  /\ UNCHANGED <<lifeVars, roleVars, endVars, beatVars>>

\* SyncState returns a state to apply, or an error or an unsuccessful answer.
SyncReply(s) ==
  /\ sync[s] \in {"rpc", "cut"}
  /\ \E next \in {"apply", "select"} : sync' = [sync EXCEPT ![s] = next]
  /\ UNCHANGED <<lifeVars, roleVars, endVars, beatVars, panic>>

\* A call cut off by Close may return neither a response nor an error, since
\* Error() of a client closed by its own side is nil: response.Success is read
\* through a nil pointer.
SyncReplyNil(s) ==
  /\ sync[s] = "cut"
  /\ panic' = "nilResponse" /\ sync' = [sync EXCEPT ![s] = "select"]
  /\ UNCHANGED <<lifeVars, roleVars, endVars, beatVars>>

\* The local conduit replaces its NAT state by the received one.
SyncApply(s) ==
  /\ sync[s] = "apply"
  /\ sync' = [sync EXCEPT ![s] = "select"]
  /\ UNCHANGED <<lifeVars, roleVars, endVars, beatVars, panic>>

SyncExit(s) ==
  /\ sync[s] = "select" /\ ctxDone
  /\ sync' = [sync EXCEPT ![s] = "off"]
  /\ UNCHANGED <<lifeVars, roleVars, endVars, beatVars, panic>>

SyncStep(s) ==
  \/ SyncTick(s) \/ SyncCheck(s) \/ SyncCall(s)
  \/ SyncReply(s) \/ SyncReplyNil(s) \/ SyncApply(s) \/ SyncExit(s)

-----------------------------------------------------------------------------
(* The fRPC handlers that touch the state of the daemon *)

\* Mutant: only the time is updated.
Heartbeat_KeepsMissed ==
  /\ Serving /\ role = RoleSecondary
  /\ hbAge' = 0
  /\ UNCHANGED <<hbCh, missed, monitor, due, lifeVars, roleVars, endVars, sync, panic>>

\* Heartbeat: refused unless secondary.  Its time is rounded down to a tick.
Heartbeat ==
  /\ Serving /\ role = RoleSecondary
  /\ hbAge' = 0 /\ missed' = 0
  /\ UNCHANGED <<hbCh, monitor, due, lifeVars, roleVars, endVars, sync, panic>>

\* HealthCheck reads the instance id through awsClient, nil in test mode.
HealthCheck ==
  /\ Serving /\ DisableENICheck
  /\ panic' = "nilAWSClient"
  /\ UNCHANGED <<lifeVars, roleVars, endVars, beatVars, sync>>

-----------------------------------------------------------------------------
(* Start after the context ends, and the Stop that cmd/failover defers *)

Interrupt ==
  /\ MayInterrupt /\ ~ctxDone
  /\ ctxDone' = TRUE
  /\ UNCHANGED <<main, stopCh, roleVars, endVars, beatVars, sync, panic>>

StartReturns ==
  /\ main = "wait" /\ ctxDone
  /\ stopCh' = "closed" /\ main' = "cleanup"
  /\ cleaning' = [cleaning EXCEPT !["main"] = "server"]
  /\ UNCHANGED <<ctxDone, server, leaked, starters, client, roleVars, beatVars, sync, panic>>

\* close(stopCh) panics when the channel is closed already.
Stop ==
  /\ main = "cleanup" /\ cleaning["main"] = "no"
  /\ panic' = IF stopCh = "closed" THEN "closedStopCh" ELSE panic
  /\ stopCh' = "closed" /\ main' = "stopped"
  /\ UNCHANGED <<ctxDone, roleVars, endVars, beatVars, sync>>

\* A process that has panicked does nothing more.
Alive(A) == panic = "none" /\ A
Dead == panic # "none" /\ UNCHANGED vars

Next ==
  \/ Alive(ElectionTick) \/ Alive(ElectionCompare) \/ Alive(ElectionSend)
  \/ Alive(ElectionError) \/ Alive(ElectionExit)
  \/ Alive(RecvRole) \/ Alive(FailoverActionsDone) \/ Alive(CreateServer)
  \/ Alive(StopHeartbeat) \/ Alive(ConnectClient) \/ Alive(WatchPrimary)
  \/ Alive(TransitionFails) \/ Alive(AssignRole) \/ Alive(ManagerExit) \/ Alive(StartServer)
  \/ \E c \in Cleaners :
       \/ Alive(CleanupServer(c)) \/ Alive(CleanupShutdown(c)) \/ Alive(CleanupServerNil(c))
       \/ Alive(CleanupClient(c)) \/ Alive(CleanupClientNil(c))
  \/ Alive(Beat)
  \/ \E m \in Monitors :
       Alive(MonitorEnter(m)) \/ Alive(MonitorTick(m)) \/ Alive(MonitorTrigger(m)) \/ Alive(MonitorExit(m))
  \/ \E s \in Syncs :
       \/ Alive(SyncTick(s)) \/ Alive(SyncCheck(s)) \/ Alive(SyncCall(s))
       \/ Alive(SyncReply(s)) \/ Alive(SyncReplyNil(s)) \/ Alive(SyncApply(s)) \/ Alive(SyncExit(s))
  \/ Alive(Heartbeat) \/ Alive(HealthCheck)
  \/ Alive(Interrupt) \/ Alive(StartReturns) \/ Alive(Stop)
  \/ Dead

Spec == Init /\ [][Next]_vars

\* The Go scheduler runs every goroutine that can run and tickers keep firing.
\* Nothing is assumed of the election, of EC2, of the callers of the handlers.
Fairness ==
  /\ WF_vars(Alive(ManagerStep))
  /\ WF_vars(Alive(Beat))
  /\ \A m \in Monitors : WF_vars(Alive(MonitorStep(m)))
  /\ WF_vars(Alive(StartServer))

FairSpec == Spec /\ Fairness

-----------------------------------------------------------------------------
(* Properties *)

\* Every variable holds a value the code can give it; in particular the miss
\* counter is reset before it can be seen at the threshold.
TypeOK ==
  /\ role \in Roles \cup {RoleUnknown} /\ roleCh \in Roles \cup {Empty}
  /\ election \in {"select", "checking", "exited"} \cup Roles
  /\ manager \in {"select", "cleanup", "serve", "stopHeartbeat", "watch", "assign", "exited"}
  /\ target \in Roles
  /\ cleaning \in [Cleaners -> {"no", "server", "shutdown", "serverNil", "client", "clientNil"}]
  /\ main \in {"wait", "cleanup", "stopped"}
  /\ ctxDone \in BOOLEAN /\ stopCh \in {"open", "closed"}
  /\ server \in {"nil", "created", "serving", "shut"} /\ leaked \in BOOLEAN
  /\ starters \in 0..MaxStarters
  /\ client \in {"nil", "connected", "unconnected", "closed"}
  /\ hbCh \in {"nil", "open"} /\ hbAge \in 0..Threshold
  /\ missed \in 0..(Threshold - 1)
  /\ monitor \in [Monitors -> Blocked \cup {"off", "enter", "trigger"}]
  /\ due \subseteq Monitors
  /\ sync \in [Syncs -> {"off", "select", "check", "call", "rpc", "cut", "apply"}]
  /\ panic \in {"none", "nilServer", "nilClient", "nilResponse", "nilAWSClient", "closedStopCh"}

\* Outside a transition and before shutdown.
AtRest == manager = "select" /\ ~ctxDone

\* A daemon never holds both ends of the connection: the fRPC server of a
\* primary and the fRPC client of a secondary are never there together, not
\* even during transitions or while shutdown races one (cleanup comes first in
\* transitionToRole, and only the manager creates either end).
OneEndOnly == server = "nil" \/ client = "nil"

\* Between transitions the role tells which resources are held: a primary has a
\* server and no stop channel, a secondary a client and an open stop channel,
\* a node without a role nothing (becomePrimary, becomeSecondary, cleanup).
RoleHasResources ==
  AtRest =>
    /\ role = RolePrimary   => server \in {"created", "serving"} /\ client = "nil" /\ hbCh = "nil"
    /\ role = RoleSecondary => server = "nil" /\ client \in {"connected", "unconnected"} /\ hbCh = "open"
    /\ role = RoleUnknown   => server = "nil" /\ client = "nil" /\ hbCh = "nil"

\* The election loop leaves a secondary alone because its heartbeat monitor is
\* at work (leader.go:263).  So a secondary always has a monitor running, a
\* role request queued or a transition under way: even a failover request
\* dropped because the channel was full is covered by the request that filled it.
SecondaryIsMonitored ==
  (role = RoleSecondary /\ ~ctxDone) =>
    \/ \E m \in Monitors : monitor[m] # "off"
    \/ roleCh # Empty
    \/ manager # "select"

\* A heartbeat can be accepted only in the gap of a promotion between starting
\* the server and storing the new role: the server that carries heartbeats
\* exists on a primary only, and Heartbeat refuses unless secondary.
HeartbeatOnlyDuringPromotion ==
  (Serving /\ role = RoleSecondary /\ ~ctxDone) => manager \in {"stopHeartbeat", "assign"}

\* The counter that decides a failover, which all monitors share, never runs
\* ahead of the silence by more than the number of monitors: one running
\* monitor asks for failover only after Threshold silent intervals, and n of
\* them after Threshold / n.  Every reset of the one goes with one of the other.
MissesFollowSilence == missed <= hbAge * Cardinality(Monitors)

\* A secondary that is left alone eventually becomes primary (or the process
\* dies): the monitor's request is not lost for good, whatever stale requests
\* the election loop has queued before it.
SilenceLeadsToTakeover == role = RoleSecondary ~> (role = RolePrimary \/ panic # "none")

\* Closing heartbeatStopCh does not stop every monitor (leader.go:407): it misses
\* one that is between two waits and one that waits on the channel of an earlier
\* term, and such a monitor goes on counting on a primary.  It does so once only:
\* it asks for the role the node has and returns, or leaves with the role.
StrayMonitorsEnd ==
  \A m \in Monitors :
    (role = RolePrimary /\ monitor[m] # "off")
      ~> (monitor[m] = "off" \/ role # RolePrimary \/ panic # "none")

\* A role is stored only once its resources are set up, also when NewServer or
\* NewClient may fail: an error of the transition never ends in a new role.
\* (Shutdown is excluded: there main releases what the manager sets up.)
StoredRoleIsSetUp ==
  [][(role' # role /\ ~ctxDone) =>
       IF role' = RolePrimary
       THEN server \in {"created", "serving"} /\ hbCh = "nil"
       ELSE client \in {"connected", "unconnected"} /\ hbCh = "open"]_vars

\* A server is left listening with no field pointing to it only by the race of
\* the two cleanups during shutdown: until then frpcServer is always the one
\* server of the process, so its port is free again after each cleanup.
NoServerLeaked == leaked => ctxDone

\* To the other nodes the daemon is a RoleMachine of one node, for as long as it
\* runs: the steps of cleanup by the manager, of the transition and of the
\* server's goroutine are its steps, and everything else is not seen.
Up == ~ctxDone /\ panic = "none"
Self == {"self"}
Seen(value, else) == [n \in Self |-> IF Up THEN value ELSE else]

PhaseOfManager ==
  IF manager \in {"select", "exited"} THEN "rest"
  ELSE IF manager = "cleanup" /\ cleaning["manager"] # "no" THEN "clearing"
  ELSE IF manager \in {"cleanup", "serve"} THEN "cleared" ELSE "set"

ServerSeen == CASE server = "serving" -> "up" [] server = "created" -> "created" [] OTHER -> "down"

RM == INSTANCE RoleMachine WITH
  Nodes  <- Self,
  role   <- Seen(role, RoleUnknown),
  asked  <- Seen(roleCh, Empty),
  target <- Seen(IF manager = "select" THEN Empty ELSE target, Empty),
  phase  <- Seen(PhaseOfManager, "rest"),
  server <- Seen(ServerSeen, "down"),
  client <- Seen(IF client = "nil" THEN "none" ELSE "made", "none"),
  live   <- Seen(TRUE, FALSE)

\* The daemon implements RoleMachine: roleManagementLoop, the goroutines that
\* race with it and shutdown never show a role, a server or a client in an order
\* that transitionToRole does not promise.
ImplementsRoleMachine == RM!Spec

-----------------------------------------------------------------------------
(* What comments and documents say and the code does not do.  Each is         *)
(* checked by a run of its own that finds a counterexample.                  *)

\* leader.go:231 "Stop gracefully shuts down the failover system".
StopIsGraceful == panic # "closedStopCh"

\* leader.go:67 "Interval for syncing NAT state (when acting as secondary)": a
\* received state is applied only by a secondary.
AppliedBySecondaryOnly ==
  [][\A s \in Syncs : (sync[s] = "apply" /\ sync'[s] # "apply") => role = RoleSecondary]_vars
=============================================================================
