------------------------ MODULE LeaderFailover_proofs ------------------------
(* Theorems about LeaderFailover, for any Threshold and any number of monitors, *)
(* sync loops and server goroutines.                                            *)
EXTENDS LeaderFailover, FiniteSetTheorems, TLAPS

(***************************************************************************)
(* A configuration that Validate accepts comes out with all intervals and  *)
(* the threshold positive and a port, and stays as it is when it is        *)
(* validated again, as it is: by the command and by NewLeaderFailover.     *)
(***************************************************************************)
THEOREM ValidatedConfigIsUsable ==
  ASSUME NEW c, RawConfig(c), ~Refused(c)
  PROVE  LET d == Completed(c)
         IN  /\ RawConfig(d) /\ ~Refused(d) /\ Completed(d) = d
             /\ d.HeartbeatMissThreshold > 0 /\ d.Port > 0
             /\ d.HeartbeatInterval > 0 /\ d.SyncInterval > 0 /\ d.LeaderCheckInterval > 0
<1> DEFINE d == Completed(c)
<1>1. Names(c) /\ Times(c) /\ c.DisableENICheck \in BOOLEAN /\ c.Port \in Nat
  BY DEF RawConfig
<1>2. /\ d.LeaderCheckInterval = OrDefault(c.LeaderCheckInterval, 30000)
      /\ d.SyncInterval = OrDefault(c.SyncInterval, 10000)
      /\ d.HeartbeatInterval = OrDefault(c.HeartbeatInterval, 40)
      /\ d.HeartbeatMissThreshold = OrDefault(c.HeartbeatMissThreshold, 3)
  BY DEF Completed
<1>3. d.Port = IF c.Port = 0 THEN 1022 ELSE c.Port
  BY DEF Completed
<1>4. /\ d.ENIIP = c.ENIIP /\ d.LocalSocket = c.LocalSocket /\ d.ForceRole = c.ForceRole
      /\ d.DisableENICheck = c.DisableENICheck
  BY DEF Completed
<1>5. d = [ENIIP |-> d.ENIIP, Port |-> d.Port, LocalSocket |-> d.LocalSocket,
           LeaderCheckInterval |-> d.LeaderCheckInterval, SyncInterval |-> d.SyncInterval,
           HeartbeatInterval |-> d.HeartbeatInterval,
           HeartbeatMissThreshold |-> d.HeartbeatMissThreshold,
           DisableENICheck |-> d.DisableENICheck, ForceRole |-> d.ForceRole]
  BY DEF Completed
<1> HIDE DEF d
<1>6. /\ c.LeaderCheckInterval \in Int /\ c.SyncInterval \in Int
      /\ c.HeartbeatInterval \in Int /\ c.HeartbeatMissThreshold \in Int
  BY <1>1 DEF Times
<1>7. /\ d.LeaderCheckInterval \in Int /\ d.LeaderCheckInterval > 0
      /\ d.SyncInterval \in Int /\ d.SyncInterval > 0
      /\ d.HeartbeatInterval \in Int /\ d.HeartbeatInterval > 0
      /\ d.HeartbeatMissThreshold \in Int /\ d.HeartbeatMissThreshold > 0
  BY <1>2, <1>6 DEF OrDefault
<1>8. d.Port \in Nat /\ d.Port > 0
  BY <1>1, <1>3
<1>9. RawConfig(d)
  BY <1>1, <1>4, <1>7, <1>8 DEF RawConfig, Names, Times
<1>10. ~Refused(d)
  BY <1>4 DEF Refused
<1>11. Completed(d) = d
  <2>1. /\ OrDefault(d.LeaderCheckInterval, 30000) = d.LeaderCheckInterval
        /\ OrDefault(d.SyncInterval, 10000) = d.SyncInterval
        /\ OrDefault(d.HeartbeatInterval, 40) = d.HeartbeatInterval
        /\ OrDefault(d.HeartbeatMissThreshold, 3) = d.HeartbeatMissThreshold
    BY <1>7 DEF OrDefault
  <2>2. (IF d.Port = 0 THEN 1022 ELSE d.Port) = d.Port
    BY <1>8
  <2>3. Completed(d) =
          [ENIIP |-> d.ENIIP, Port |-> d.Port, LocalSocket |-> d.LocalSocket,
           LeaderCheckInterval |-> d.LeaderCheckInterval, SyncInterval |-> d.SyncInterval,
           HeartbeatInterval |-> d.HeartbeatInterval,
           HeartbeatMissThreshold |-> d.HeartbeatMissThreshold,
           DisableENICheck |-> d.DisableENICheck, ForceRole |-> d.ForceRole]
    BY <2>1, <2>2, SMTT(20) DEF Completed
  <2> QED
    BY <2>3, <1>5, Zenon
<1> QED
  BY <1>7, <1>8, <1>9, <1>10, <1>11 DEF d

(***************************************************************************)
(* What the assumptions say of the numbers.                                *)
(***************************************************************************)
LEMMA Constants == Threshold \in Nat /\ Threshold > 0 /\ MaxStarters \in Nat
<1>1. RawConfig(Config) /\ ~Refused(Config)
  BY ConfigAssumption
<1>2. RawConfig(Completed(Config)) /\ Completed(Config).HeartbeatMissThreshold > 0
  BY <1>1, ValidatedConfigIsUsable
<1> QED
  BY <1>2, BoundAssumption DEF Threshold, RawConfig, Times

ElectionStep ==
  ElectionTick \/ ElectionCompare \/ ElectionSend \/ ElectionError \/ ElectionExit

(***************************************************************************)
(* Every step of the daemon is a step of one of its goroutines.            *)
(***************************************************************************)
LEMMA StepCases ==
  ASSUME [Next]_vars
  PROVE  \/ ElectionStep
         \/ \E c \in Cleaners : Cleanup(c)
         \/ RecvRole \/ FailoverActionsDone \/ CreateServer \/ StopHeartbeat
         \/ ConnectClient \/ WatchPrimary \/ TransitionFails \/ AssignRole \/ ManagerExit
         \/ StartServer \/ Beat
         \/ \E m \in Monitors : MonitorStep(m)
         \/ \E s \in Syncs : SyncStep(s)
         \/ Heartbeat \/ HealthCheck \/ Interrupt \/ StartReturns \/ Stop
         \/ UNCHANGED vars
  BY Zenon DEF Next, Alive, Dead, ElectionStep, Cleanup, MonitorStep, SyncStep

(***************************************************************************)
(* The type invariant (TypeOK): it is inductive as it stands.              *)
(***************************************************************************)
LEMMA TypeInit == Init => TypeOK
<1> SUFFICES ASSUME Init PROVE TypeOK
  OBVIOUS
<1> USE Constants DEF Init
<1>1. /\ role \in Roles \cup {RoleUnknown} /\ roleCh \in Roles \cup {Empty} /\ target \in Roles
  BY DEF Roles
<1>2. /\ cleaning \in [Cleaners -> {"no", "server", "shutdown", "serverNil", "client", "clientNil"}]
      /\ monitor \in [Monitors -> Blocked \cup {"off", "enter", "trigger"}] /\ due \subseteq Monitors
      /\ sync \in [Syncs -> {"off", "select", "check", "call", "rpc", "cut", "apply"}]
  OBVIOUS
<1>3. starters \in 0..MaxStarters /\ hbAge \in 0..Threshold /\ missed \in 0..(Threshold - 1)
  OBVIOUS
<1> QED
  BY <1>1, <1>2, <1>3 DEF TypeOK

\* Every step keeps TypeOK.
LEMMA TypeStep == TypeOK /\ [Next]_vars => TypeOK'
<1> SUFFICES ASSUME TypeOK, [Next]_vars PROVE TypeOK'
  OBVIOUS
<1> USE DEF Roles, RolePrimary, RoleSecondary, RoleUnknown, Empty, Cleaners, Blocked,
            lifeVars, roleVars, endVars, beatVars
<1>1. CASE ElectionStep
  <2>1. CASE ElectionCompare
    <3>1. election' \in Roles \cup {"select"}
      BY <2>1 DEF ElectionCompare, Verdicts, ForcedRole
    <3> QED
      BY <2>1, <3>1 DEF TypeOK, ElectionCompare
  <2>3. CASE ElectionSend
    BY <2>3 DEF TypeOK, ElectionSend, Offer
  <2>2. CASE ElectionTick \/ ElectionError \/ ElectionExit
    BY <2>2 DEF TypeOK, ElectionTick, ElectionError, ElectionExit
  <2> QED
    BY <1>1, <2>1, <2>2, <2>3 DEF ElectionStep
<1>2. ASSUME NEW c \in Cleaners, Cleanup(c) PROVE TypeOK'
  <2>1. CASE CleanupServer(c)
    BY <2>1 DEF TypeOK, CleanupServer
  <2>4. CASE CleanupServerNil(c)
    <3>1. leaked' \in BOOLEAN
      BY <2>4, Zenon DEF CleanupServerNil
    <3>2. server' = "nil" /\ cleaning' = [cleaning EXCEPT ![c] = "client"]
      BY <2>4 DEF CleanupServerNil
    <3>3. UNCHANGED <<starters, client, lifeVars, roleVars, beatVars, sync, panic>>
      BY <2>4 DEF CleanupServerNil
    <3> QED
      BY <3>1, <3>2, <3>3 DEF TypeOK
  <2>2. CASE CleanupShutdown(c)
    BY <2>2 DEF TypeOK, CleanupShutdown
  <2>3. CASE CleanupClient(c) \/ CleanupClientNil(c)
    BY <2>3 DEF TypeOK, CleanupClient, CleanupClientNil
  <2> QED
    BY <1>2, <2>1, <2>2, <2>3, <2>4 DEF Cleanup
<1>3. CASE RecvRole \/ FailoverActionsDone \/ CreateServer \/ StopHeartbeat
  BY <1>3, Constants DEF TypeOK, RecvRole, Cleaned, FailoverActionsDone, CreateServer, StopHeartbeat
<1>4. CASE ConnectClient \/ TransitionFails \/ AssignRole \/ ManagerExit
  BY <1>4 DEF TypeOK, ConnectClient, Cleaned, TransitionFails, AssignRole, ManagerExit
<1>5. CASE WatchPrimary
  BY <1>5, Constants DEF TypeOK, WatchPrimary, SpawnSync
<1>6. CASE StartServer \/ Beat
  BY <1>6, Constants DEF TypeOK, StartServer, Beat
<1>7. ASSUME NEW m \in Monitors, MonitorStep(m) PROVE TypeOK'
  <2>1. CASE MonitorTick(m)
    BY <2>1, Constants DEF TypeOK, MonitorTick
  <2>2. CASE MonitorTrigger(m)
    BY <2>2 DEF TypeOK, MonitorTrigger, Offer
  <2>3. CASE MonitorEnter(m) \/ MonitorExit(m)
    BY <2>3 DEF TypeOK, MonitorEnter, MonitorExit
  <2> QED
    BY <1>7, <2>1, <2>2, <2>3 DEF MonitorStep
<1>8. ASSUME NEW s \in Syncs, SyncStep(s) PROVE TypeOK'
  BY <1>8 DEF TypeOK, SyncStep, SyncTick, SyncCheck, SyncCall, SyncReply, SyncReplyNil,
     SyncApply, SyncExit
<1>9. CASE Heartbeat
  BY <1>9, Constants DEF TypeOK, Heartbeat
<1>11. CASE HealthCheck \/ Interrupt
  BY <1>11 DEF TypeOK, HealthCheck, Interrupt
<1>12. CASE StartReturns \/ Stop
  BY <1>12 DEF TypeOK, StartReturns, Stop
<1>10. CASE UNCHANGED vars
  BY <1>10 DEF TypeOK, vars
<1> QED
  BY StepCases, <1>1, <1>2, <1>3, <1>4, <1>5, <1>6, <1>7, <1>8, <1>9, <1>10, <1>11, <1>12

\* Every variable keeps its type, and the miss counter stays below the threshold (TypeOK).
THEOREM TypeCorrect == Spec => []TypeOK
  BY TypeInit, TypeStep, PTL DEF Spec

(***************************************************************************)
(* OneEndOnly.  It is not inductive: that the manager finds no other end   *)
(* when it creates one rests on where it is in cleanup.  EndsInv adds it.  *)
(***************************************************************************)
EndsInv ==
  /\ OneEndOnly
  /\ manager # "cleanup" => cleaning["manager"] = "no"
  /\ (manager = "cleanup" /\ cleaning["manager"] \in {"client", "clientNil", "no"}) => server = "nil"
  /\ (manager = "cleanup" /\ cleaning["manager"] = "no") => client = "nil"
  /\ manager = "serve" => (server = "nil" /\ client = "nil")

\* The initial states satisfy the invariant of the two ends.
LEMMA EndsInit == Init => EndsInv
  BY DEF Init, EndsInv, OneEndOnly, Cleaners

\* Every step keeps it.
LEMMA EndsStep == TypeOK /\ EndsInv /\ [Next]_vars => EndsInv'
<1> SUFFICES ASSUME TypeOK, EndsInv, [Next]_vars PROVE EndsInv'
  OBVIOUS
<1> USE DEF EndsInv, OneEndOnly, lifeVars, roleVars, endVars, beatVars
<1>1. CASE ElectionStep
  BY <1>1 DEF ElectionStep, ElectionTick, ElectionCompare, ElectionSend, ElectionError, ElectionExit
<1>2. ASSUME NEW c \in Cleaners, Cleanup(c) PROVE EndsInv'
  <2> USE DEF TypeOK, Cleaners
  <2>1. CASE CleanupServer(c)
    BY <2>1 DEF CleanupServer
  <2>2. CASE CleanupShutdown(c)
    BY <2>2 DEF CleanupShutdown
  <2>3. CASE CleanupServerNil(c)
    BY <2>3 DEF CleanupServerNil
  <2>4. CASE CleanupClient(c)
    BY <2>4 DEF CleanupClient
  <2>5. CASE CleanupClientNil(c)
    BY <2>5 DEF CleanupClientNil
  <2> QED
    BY <1>2, <2>1, <2>2, <2>3, <2>4, <2>5 DEF Cleanup
<1>3. CASE RecvRole
  BY <1>3 DEF RecvRole, TypeOK, Cleaners
<1>4. CASE FailoverActionsDone \/ CreateServer \/ StopHeartbeat
  BY <1>4 DEF FailoverActionsDone, Cleaned, CreateServer, StopHeartbeat
<1>5. CASE ConnectClient \/ WatchPrimary
  BY <1>5 DEF ConnectClient, WatchPrimary, Cleaned
<1>6. CASE TransitionFails \/ AssignRole \/ ManagerExit
  BY <1>6 DEF TransitionFails, Cleaned, AssignRole, ManagerExit
<1>7. CASE StartServer
  BY <1>7 DEF StartServer
<1>8. CASE Beat
  BY <1>8 DEF Beat
<1>9. ASSUME NEW m \in Monitors, MonitorStep(m) PROVE EndsInv'
  BY <1>9 DEF MonitorStep, MonitorEnter, MonitorTick, MonitorTrigger, MonitorExit
<1>10. ASSUME NEW s \in Syncs, SyncStep(s) PROVE EndsInv'
  BY <1>10 DEF SyncStep, SyncTick, SyncCheck, SyncCall, SyncReply, SyncReplyNil, SyncApply, SyncExit
<1>11. CASE Heartbeat \/ HealthCheck \/ Interrupt
  BY <1>11 DEF Heartbeat, HealthCheck, Interrupt
<1>12. CASE StartReturns
  BY <1>12 DEF StartReturns, TypeOK, Cleaners
<1>13. CASE Stop \/ UNCHANGED vars
  BY <1>13 DEF Stop, vars
<1> QED
  BY StepCases, <1>1, <1>2, <1>3, <1>4, <1>5, <1>6, <1>7, <1>8, <1>9, <1>10, <1>11, <1>12, <1>13

(***************************************************************************)
(* A daemon never holds both ends of the connection (OneEndOnly).          *)
(***************************************************************************)
THEOREM NeverBothEnds == Spec => []OneEndOnly
<1>1. EndsInv => OneEndOnly
  BY DEF EndsInv
<1> QED
  BY <1>1, TypeInit, TypeStep, EndsInit, EndsStep, PTL DEF Spec

(***************************************************************************)
(* What the manager has set up at each point of a transition, as long as   *)
(* the process is not shutting down and main stays out of cleanup.         *)
(***************************************************************************)
SetUp(r) ==
  IF r = RolePrimary
  THEN server \in {"created", "serving"} /\ hbCh = "nil"
  ELSE client \in {"connected", "unconnected"} /\ hbCh = "open"

RunInv ==
  ~ctxDone =>
    /\ main = "wait" /\ cleaning["main"] = "no" /\ ~leaked /\ manager # "exited"
    /\ cleaning["manager"] = "shutdown" => server # "nil"
    /\ cleaning["manager"] = "serverNil" => server = "shut"
    /\ manager = "serve" => target = RolePrimary
    /\ manager = "stopHeartbeat" => (target = RolePrimary /\ server \in {"created", "serving"})
    /\ manager = "watch" => (target = RoleSecondary /\ client \in {"connected", "unconnected"})
    /\ manager = "assign" => SetUp(target)

\* The initial states satisfy the invariant of the running daemon.
LEMMA RunInit == Init => RunInv
  BY DEF Init, RunInv, Cleaners

\* Every step keeps it until shutdown.
LEMMA RunStep == TypeOK /\ EndsInv /\ RunInv /\ [Next]_vars => RunInv'
<1> SUFFICES ASSUME TypeOK, EndsInv, RunInv, [Next]_vars PROVE RunInv'
  OBVIOUS
<1> USE DEF RunInv, SetUp, RolePrimary, RoleSecondary, lifeVars, roleVars, endVars, beatVars
<1>1. CASE ElectionStep
  BY <1>1 DEF ElectionStep, ElectionTick, ElectionCompare, ElectionSend, ElectionError, ElectionExit
<1>2. ASSUME NEW c \in Cleaners, Cleanup(c) PROVE RunInv'
  <2> USE DEF TypeOK, Cleaners, EndsInv
  <2>1. CASE CleanupServer(c)
    BY <2>1 DEF CleanupServer
  <2>2. CASE CleanupShutdown(c)
    BY <2>2 DEF CleanupShutdown
  <2>3. CASE CleanupServerNil(c)
    BY <2>3 DEF CleanupServerNil
  <2>4. CASE CleanupClient(c)
    BY <2>4 DEF CleanupClient
  <2>5. CASE CleanupClientNil(c)
    BY <2>5 DEF CleanupClientNil
  <2> QED
    BY <1>2, <2>1, <2>2, <2>3, <2>4, <2>5 DEF Cleanup
<1>3. CASE RecvRole
  BY <1>3 DEF RecvRole, TypeOK, Cleaners
<1>4. CASE FailoverActionsDone \/ CreateServer
  BY <1>4 DEF EndsInv, FailoverActionsDone, Cleaned, CreateServer
<1>14. CASE StopHeartbeat
  BY <1>14 DEF StopHeartbeat
<1>5. CASE ConnectClient \/ WatchPrimary
  BY <1>5 DEF ConnectClient, WatchPrimary, Cleaned
<1>6. CASE TransitionFails \/ AssignRole \/ ManagerExit
  BY <1>6 DEF TransitionFails, Cleaned, AssignRole, ManagerExit
<1>7. CASE StartServer
  BY <1>7 DEF StartServer
<1>8. CASE Beat
  BY <1>8 DEF Beat
<1>9. ASSUME NEW m \in Monitors, MonitorStep(m) PROVE RunInv'
  BY <1>9 DEF MonitorStep, MonitorEnter, MonitorTick, MonitorTrigger, MonitorExit
<1>10. ASSUME NEW s \in Syncs, SyncStep(s) PROVE RunInv'
  BY <1>10 DEF SyncStep, SyncTick, SyncCheck, SyncCall, SyncReply, SyncReplyNil, SyncApply, SyncExit
<1>11. CASE Heartbeat \/ HealthCheck \/ Interrupt
  BY <1>11 DEF Heartbeat, HealthCheck, Interrupt
<1>12. CASE StartReturns \/ Stop
  BY <1>12 DEF StartReturns, Stop
<1>13. CASE UNCHANGED vars
  BY <1>13 DEF vars
<1> QED
  BY StepCases, <1>1, <1>2, <1>3, <1>4, <1>5, <1>6, <1>7, <1>8, <1>9, <1>10, <1>11, <1>12, <1>13,
     <1>14

(***************************************************************************)
(* No server is leaked before shutdown (NoServerLeaked).                   *)
(***************************************************************************)
THEOREM NoLeakWhileRunning == Spec => []NoServerLeaked
<1>1. TypeOK /\ RunInv => NoServerLeaked
  BY DEF TypeOK, RunInv, NoServerLeaked
<1> QED
  BY <1>1, TypeInit, TypeStep, EndsInit, EndsStep, RunInit, RunStep, PTL DEF Spec

(***************************************************************************)
(* What the stored role promises, when no transition fails: its resources, *)
(* and for a secondary a monitor that nobody has told to stop.             *)
(***************************************************************************)
Watching == (\E m \in Monitors : monitor[m] \notin {"off", "closed"}) \/ roleCh # Empty

RestInv ==
  /\ RoleHasResources
  /\ (~ctxDone /\ role = RoleSecondary /\ manager \in {"cleanup", "serve", "watch"}) => server = "nil"
  /\ (~ctxDone /\ role = RoleSecondary /\ manager = "select") => Watching
  /\ (~ctxDone /\ target = RoleSecondary /\ manager = "assign") => Watching

\* The initial states satisfy the invariant of the roles.
LEMMA RestInit == Init => RestInv
  BY DEF Init, RestInv, RoleHasResources, AtRest, RolePrimary, RoleSecondary, RoleUnknown

\* Every step keeps it if transitions do not fail.
LEMMA RestStep ==
  ASSUME ~TransitionErrors, TypeOK, EndsInv, RunInv, RestInv, [Next]_vars
  PROVE  RestInv'
<1> USE DEF RestInv, RoleHasResources, AtRest, Watching, Roles, RolePrimary, RoleSecondary,
            RoleUnknown, Empty, lifeVars, roleVars, endVars, beatVars
<1>1. CASE ElectionStep
  <2>1. CASE ElectionSend
    <3>1. roleCh # Empty => roleCh' # Empty
      BY <2>1 DEF ElectionSend, Offer
    <3> QED
      BY <2>1, <3>1 DEF ElectionSend
  <2>2. CASE ElectionTick \/ ElectionCompare \/ ElectionError \/ ElectionExit
    BY <2>2 DEF ElectionTick, ElectionCompare, ElectionError, ElectionExit
  <2> QED
    BY <1>1, <2>1, <2>2 DEF ElectionStep
<1>2. ASSUME NEW c \in Cleaners, Cleanup(c) PROVE RestInv'
  <2>1. manager = "cleanup" \/ ctxDone
    BY <1>2 DEF EndsInv, RunInv, Cleaners, Cleanup, CleanupServer, CleanupShutdown,
                CleanupServerNil, CleanupClient, CleanupClientNil
  <2>2. UNCHANGED <<ctxDone, manager, role, target>>
    BY <1>2 DEF Cleanup, CleanupServer, CleanupShutdown, CleanupServerNil, CleanupClient,
                CleanupClientNil
  <2>3. server = "nil" => server' = "nil"
    BY <1>2 DEF Cleanup, CleanupServer, CleanupShutdown, CleanupServerNil, CleanupClient,
                CleanupClientNil
  <2> QED
    BY <2>1, <2>2, <2>3
<1>3. CASE RecvRole
  BY <1>3 DEF RecvRole
<1>4. CASE FailoverActionsDone \/ CreateServer
  BY <1>4 DEF FailoverActionsDone, Cleaned, CreateServer
<1>5. CASE StopHeartbeat
  BY <1>5 DEF StopHeartbeat, RunInv
<1>6. CASE ConnectClient
  BY <1>6 DEF ConnectClient, Cleaned
<1>7. CASE WatchPrimary
  <2>1. \E m \in Monitors : monitor'[m] \notin {"off", "closed"}
    BY <1>7 DEF WatchPrimary
  <2> QED
    BY <1>7, <2>1 DEF WatchPrimary
<1>8. CASE TransitionFails \/ ManagerExit
  BY <1>8 DEF TransitionFails, ManagerExit
<1>9. CASE AssignRole
  BY <1>9 DEF AssignRole, EndsInv, OneEndOnly, RunInv, SetUp, TypeOK
<1>10. CASE StartServer
  BY <1>10 DEF StartServer, RunInv
<1>11. CASE Beat
  BY <1>11 DEF Beat
<1>12. ASSUME NEW m \in Monitors, MonitorStep(m) PROVE RestInv'
  <2>1. Watching => Watching' \/ ctxDone
    <3>1. CASE MonitorEnter(m)
      BY <3>1 DEF MonitorEnter, TypeOK
    <3>2. CASE MonitorTick(m)
      BY <3>2 DEF MonitorTick, TypeOK
    <3>3. CASE MonitorTrigger(m)
      BY <3>3 DEF MonitorTrigger, Offer
    <3>4. CASE MonitorExit(m)
      BY <3>4 DEF MonitorExit, TypeOK
    <3> QED
      BY <1>12, <3>1, <3>2, <3>3, <3>4 DEF MonitorStep
  <2>2. UNCHANGED <<ctxDone, manager, role, target, server, client, hbCh>>
    BY <1>12 DEF MonitorStep, MonitorEnter, MonitorTick, MonitorTrigger, MonitorExit
  <2> QED
    BY <2>1, <2>2
<1>13. ASSUME NEW s \in Syncs, SyncStep(s) PROVE RestInv'
  BY <1>13 DEF SyncStep, SyncTick, SyncCheck, SyncCall, SyncReply, SyncReplyNil, SyncApply, SyncExit
<1>14. CASE Heartbeat \/ HealthCheck
  BY <1>14 DEF Heartbeat, HealthCheck
<1>15. CASE Interrupt
  BY <1>15 DEF Interrupt
<1>16. CASE StartReturns \/ Stop
  BY <1>16 DEF StartReturns, Stop
<1>17. CASE UNCHANGED vars
  BY <1>17 DEF vars
<1> QED
  BY StepCases, <1>1, <1>2, <1>3, <1>4, <1>5, <1>6, <1>7, <1>8, <1>9, <1>10, <1>11, <1>12,
     <1>13, <1>14, <1>15, <1>16, <1>17

\* All four invariants together, if transitions do not fail.
LEMMA RestAlways ==
  ASSUME ~TransitionErrors
  PROVE  Spec => [](TypeOK /\ RunInv /\ RestInv)
<1>1. TypeOK /\ EndsInv /\ RunInv /\ RestInv /\ [Next]_vars => RestInv'
  BY RestStep
<1> QED
  BY <1>1, TypeInit, TypeStep, EndsInit, EndsStep, RunInit, RunStep, RestInit, PTL DEF Spec

(***************************************************************************)
(* When no transition fails, the stored role tells which resources the     *)
(* daemon holds between transitions (RoleHasResources).                    *)
(***************************************************************************)
THEOREM RoleTellsResources ==
  ASSUME ~TransitionErrors
  PROVE  Spec => []RoleHasResources
<1>1. RestInv => RoleHasResources
  BY DEF RestInv
<1> QED
  BY <1>1, RestAlways, PTL

(***************************************************************************)
(* When no transition fails, a secondary has a monitor at work, a role     *)
(* request queued or a transition under way (SecondaryIsMonitored), however *)
(* many monitors were started and however many requests were dropped.      *)
(***************************************************************************)
THEOREM SecondaryIsWatched ==
  ASSUME ~TransitionErrors
  PROVE  Spec => []SecondaryIsMonitored
<1>1. RestInv => SecondaryIsMonitored
  BY DEF RestInv, Watching, SecondaryIsMonitored
<1> QED
  BY <1>1, RestAlways, PTL

(***************************************************************************)
(* A secondary accepts heartbeats only in the middle of its promotion      *)
(* (HeartbeatOnlyDuringPromotion), also when transitions fail.  Without a  *)
(* primary there is no server at all, outside of these two steps.          *)
(***************************************************************************)
GapInv ==
  (~ctxDone /\ role # RolePrimary /\ manager \notin {"stopHeartbeat", "assign"}) => server = "nil"

\* The initial states satisfy it.
LEMMA GapInit == Init => GapInv
  BY DEF Init, GapInv

\* Every step keeps it: a transition that fails has not made a server.
LEMMA GapStep == TypeOK /\ EndsInv /\ RunInv /\ GapInv /\ [Next]_vars => GapInv'
<1> SUFFICES ASSUME TypeOK, EndsInv, RunInv, GapInv, [Next]_vars PROVE GapInv'
  OBVIOUS
<1> USE DEF GapInv, lifeVars, roleVars, endVars, beatVars
<1>1. CASE ElectionStep
  BY <1>1 DEF ElectionStep, ElectionTick, ElectionCompare, ElectionSend, ElectionError, ElectionExit
<1>2. ASSUME NEW c \in Cleaners, Cleanup(c) PROVE GapInv'
  <2>1. UNCHANGED <<role, manager, ctxDone>> /\ (server = "nil" => server' = "nil")
    BY <1>2 DEF Cleanup, CleanupServer, CleanupShutdown, CleanupServerNil, CleanupClient,
       CleanupClientNil
  <2> QED
    BY <2>1
<1>3. CASE RecvRole \/ FailoverActionsDone \/ CreateServer
  BY <1>3 DEF RecvRole, FailoverActionsDone, Cleaned, CreateServer
<1>4. CASE StopHeartbeat \/ ConnectClient \/ WatchPrimary
  BY <1>4 DEF StopHeartbeat, ConnectClient, Cleaned, WatchPrimary
<1>5. CASE TransitionFails
  BY <1>5 DEF TransitionFails, Cleaned, EndsInv
<1>6. CASE AssignRole
  BY <1>6 DEF AssignRole, RunInv, SetUp, EndsInv, OneEndOnly
<1>7. CASE ManagerExit
  BY <1>7 DEF ManagerExit
<1>8. CASE StartServer \/ Beat
  BY <1>8 DEF StartServer, Beat
<1>9. ASSUME NEW m \in Monitors, MonitorStep(m) PROVE GapInv'
  BY <1>9 DEF MonitorStep, MonitorEnter, MonitorTick, MonitorTrigger, MonitorExit
<1>10. ASSUME NEW s \in Syncs, SyncStep(s) PROVE GapInv'
  BY <1>10 DEF SyncStep, SyncTick, SyncCheck, SyncCall, SyncReply, SyncReplyNil, SyncApply, SyncExit
<1>11. CASE Heartbeat \/ HealthCheck
  BY <1>11 DEF Heartbeat, HealthCheck
<1>12. CASE Interrupt \/ StartReturns \/ Stop \/ UNCHANGED vars
  BY <1>12 DEF Interrupt, StartReturns, Stop, vars
<1> QED
  BY StepCases, <1>1, <1>2, <1>3, <1>4, <1>5, <1>6, <1>7, <1>8, <1>9, <1>10, <1>11, <1>12

\* The theorem itself, from GapInv.
THEOREM HeartbeatsOnlyInTheGap == Spec => []HeartbeatOnlyDuringPromotion
<1>1. RunInv /\ GapInv => HeartbeatOnlyDuringPromotion
  BY DEF RunInv, GapInv, HeartbeatOnlyDuringPromotion, Serving, RolePrimary, RoleSecondary
<1> QED
  BY <1>1, TypeInit, TypeStep, EndsInit, EndsStep, RunInit, RunStep, GapInit, GapStep, PTL DEF Spec

(***************************************************************************)
(* A role is stored only when it is set up (StoredRoleIsSetUp): only       *)
(* AssignRole writes it.                                                   *)
(***************************************************************************)
LEMMA AssignStep ==
  ASSUME TypeOK, RunInv, [Next]_vars, role' # role, ~ctxDone
  PROVE  IF role' = RolePrimary
         THEN server \in {"created", "serving"} /\ hbCh = "nil"
         ELSE client \in {"connected", "unconnected"} /\ hbCh = "open"
<1> USE DEF lifeVars, roleVars, endVars, beatVars
<1>1. AssignRole
  <2>1. ElectionStep => UNCHANGED role
    BY DEF ElectionStep, ElectionTick, ElectionCompare, ElectionSend, ElectionError, ElectionExit
  <2>2. \A c \in Cleaners : Cleanup(c) => UNCHANGED role
    BY DEF Cleanup, CleanupServer, CleanupShutdown, CleanupServerNil, CleanupClient,
           CleanupClientNil
  <2>3. RecvRole \/ FailoverActionsDone \/ CreateServer \/ StopHeartbeat => UNCHANGED role
    BY DEF RecvRole, FailoverActionsDone, CreateServer, StopHeartbeat
  <2>4. ConnectClient \/ WatchPrimary \/ TransitionFails \/ ManagerExit => UNCHANGED role
    BY DEF ConnectClient, WatchPrimary, TransitionFails, ManagerExit
  <2>5. StartServer \/ Beat => UNCHANGED role
    BY DEF StartServer, Beat
  <2>6. \A m \in Monitors : MonitorStep(m) => UNCHANGED role
    BY DEF MonitorStep, MonitorEnter, MonitorTick, MonitorTrigger, MonitorExit
  <2>7. \A s \in Syncs : SyncStep(s) => UNCHANGED role
    BY DEF SyncStep, SyncTick, SyncCheck, SyncCall, SyncReply, SyncReplyNil, SyncApply, SyncExit
  <2>8. Heartbeat \/ HealthCheck \/ Interrupt \/ StartReturns \/ Stop => UNCHANGED role
    BY DEF Heartbeat, HealthCheck, Interrupt, StartReturns, Stop
  <2> QED
    BY StepCases, <2>1, <2>2, <2>3, <2>4, <2>5, <2>6, <2>7, <2>8 DEF vars
<1> QED
  BY <1>1 DEF AssignRole, RunInv, SetUp

\* A role is stored only when its resources are set up (StoredRoleIsSetUp).
THEOREM RoleStoredWhenSetUp == Spec => StoredRoleIsSetUp
<1>1. TypeOK /\ EndsInv /\ RunInv /\ [Next]_vars =>
        ((role' # role /\ ~ctxDone) =>
           IF role' = RolePrimary
           THEN server \in {"created", "serving"} /\ hbCh = "nil"
           ELSE client \in {"connected", "unconnected"} /\ hbCh = "open")
  BY AssignStep
<1> QED
  BY <1>1, TypeInit, TypeStep, EndsInit, EndsStep, RunInit, RunStep, PTL
     DEF Spec, StoredRoleIsSetUp

(***************************************************************************)
(* MissesFollowSilence.  It is not inductive: the ticks that the monitors  *)
(* have yet to notice will be counted, too, so MissInv adds them.          *)
(***************************************************************************)
MissInv ==
  /\ hbAge = 0 => missed = 0
  /\ hbAge > 0 => missed + Cardinality(due) <= hbAge * Cardinality(Monitors)

\* The arithmetic of a bound that grows by size at every age up to top.
LEMMA MultipleGrows ==
  ASSUME NEW size \in Nat, NEW top \in Nat, top > 0
  PROVE  /\ size <= top * size
         /\ \A k \in Nat : (k + 1) * size = k * size + size
         /\ size > 0 => top - 1 + size <= top * size
         /\ size = 0 => top * size = 0
<1>1. \A k \in Nat : (k + 1) * size = k * size + size
  OBVIOUS
<1>2. PICK low \in Nat : top = low + 1
  <2>1. top - 1 \in Nat /\ top = (top - 1) + 1
    OBVIOUS
  <2> QED
    BY <2>1
<1>3. top * size = low * size + size /\ low * size \in Nat
  BY <1>1, <1>2
<1>4. size > 0 => low <= low * size
  <2>1. SUFFICES ASSUME size > 0 PROVE low <= low * size
    OBVIOUS
  <2>2. PICK less \in Nat : size = less + 1
    <3>1. size - 1 \in Nat /\ size = (size - 1) + 1
      BY <2>1
    <3> QED
      BY <3>1
  <2>3. low * size = low * less + low /\ low * less \in Nat
    BY <2>2
  <2> QED
    BY <2>3
<1>5. size = 0 => top * size = 0
  OBVIOUS
<1> QED
  BY <1>1, <1>2, <1>3, <1>4, <1>5

\* Every step keeps MissInv, and with it MissesFollowSilence.
LEMMA MissStep ==
  ASSUME IsFiniteSet(Monitors), TypeOK, MissInv, [Next]_vars
  PROVE  MissInv'
<1> DEFINE size == Cardinality(Monitors)
<1>0. size \in Nat /\ \A S \in SUBSET Monitors : Cardinality(S) \in Nat /\ Cardinality(S) <= size
  BY FS_CardinalityType, FS_Subset
<1> USE DEF MissInv, lifeVars, roleVars, endVars, beatVars
<1>1. CASE UNCHANGED <<missed, hbAge, due>>
  BY <1>1
<1>2. CASE StopHeartbeat
  <2>1. hbAge' = Threshold /\ missed' = 0 /\ due' \subseteq Monitors
    BY <1>2 DEF StopHeartbeat, TypeOK
  <2>2. size <= Threshold * size
    BY <1>0, Constants, MultipleGrows
  <2> HIDE DEF size
  <2>3. Cardinality(due') \in Nat /\ Cardinality(due') <= size
    BY <1>0, <2>1
  <2>4. 0 + Cardinality(due') <= Threshold * size
    BY <1>0, <2>2, <2>3, Constants
  <2> QED
    BY <2>1, <2>4, Constants DEF size
<1>3. CASE WatchPrimary \/ Heartbeat
  BY <1>3 DEF WatchPrimary, Heartbeat
<1>4. CASE Beat
  <2>1. /\ hbAge \in 0..Threshold /\ missed \in 0..(Threshold - 1) /\ missed' = missed
        /\ hbAge' = IF hbAge < Threshold THEN hbAge + 1 ELSE hbAge
        /\ due \subseteq Monitors /\ due' \subseteq Monitors
    BY <1>4 DEF Beat, TypeOK
  <2>2. /\ Cardinality(due) \in Nat /\ Cardinality(due') \in Nat /\ Cardinality(due') <= size
    BY <1>0, <2>1
  <2>3. /\ \A k \in Nat : (k + 1) * size = k * size + size
        /\ size > 0 => Threshold - 1 + size <= Threshold * size
        /\ size = 0 => Threshold * size = 0
    BY <1>0, Constants, MultipleGrows
  <2>4. hbAge > 0 => missed + Cardinality(due) <= hbAge * size
    OBVIOUS
  <2>5. hbAge * size \in Nat /\ Threshold * size \in Nat
    BY <1>0, <2>1, Constants
  <2>6. hbAge = 0 => missed = 0
    OBVIOUS
  <2> HIDE DEF size, MissInv
  <2>7. CASE hbAge = 0
    <3>1. hbAge' = 1 /\ missed' = 0
      BY <2>1, <2>6, <2>7, Constants
    <3>2. 1 * size = size
      BY <1>0
    <3>3. missed' + Cardinality(due') <= hbAge' * size
      BY <1>0, <2>2, <3>1, <3>2
    <3> QED
      BY <3>1, <3>3 DEF MissInv, size
  <2>8. CASE hbAge > 0 /\ hbAge < Threshold
    <3>1. hbAge' = hbAge + 1 /\ hbAge \in Nat
      BY <2>1, <2>8, Constants
    <3>2. hbAge' * size = hbAge * size + size
      BY <2>3, <3>1
    <3>3. missed' + Cardinality(due') <= hbAge' * size
      BY <1>0, <2>1, <2>2, <2>4, <2>5, <2>8, <3>2, Constants
    <3> QED
      BY <3>1, <3>3, <2>8 DEF MissInv, size
  <2>9. CASE hbAge = Threshold
    <3>1. hbAge' = Threshold
      BY <2>1, <2>9, Constants
    <3>2. CASE size > 0
      <4>1. missed' + Cardinality(due') <= Threshold * size
        BY <1>0, <2>1, <2>2, <2>3, <2>5, <3>2, Constants
      <4> QED
        BY <3>1, <4>1, Constants DEF MissInv, size
    <3>3. CASE size = 0
      <4>1. missed + Cardinality(due) <= 0
        BY <2>3, <2>4, <2>9, <3>3, Constants
      <4>2. missed' + Cardinality(due') <= Threshold * size
        BY <1>0, <2>1, <2>2, <2>3, <3>3, <4>1, Constants
      <4> QED
        BY <3>1, <4>2, Constants DEF MissInv, size
    <3> QED
      BY <1>0, <3>2, <3>3
  <2> QED
    BY <2>1, <2>7, <2>8, <2>9, Constants
<1>5. ASSUME NEW m \in Monitors, MonitorTick(m) PROVE MissInv'
  <2>1. /\ m \in due /\ due \subseteq Monitors /\ due' = due \ {m} /\ hbAge' = hbAge
        /\ missed \in Nat /\ hbAge \in Nat
        /\ hbAge = 0 => missed' = missed
        /\ missed' \in {0, missed, missed + 1}
    BY <1>5, Constants DEF MonitorTick, TypeOK
  <2>2. Cardinality(due') = Cardinality(due) - 1 /\ Cardinality(due) \in Nat
    BY <1>0, <2>1, FS_RemoveElement, FS_Subset
  <2>3. hbAge * size \in Nat
    BY <1>0, <2>1
  <2> QED
    BY <2>1, <2>2, <2>3
<1>6. ASSUME NEW m \in Monitors, MonitorEnter(m) \/ MonitorTrigger(m) \/ MonitorExit(m) PROVE MissInv'
  BY <1>1, <1>6 DEF MonitorEnter, MonitorTrigger, MonitorExit
<1>7. CASE /\ ~StopHeartbeat /\ ~WatchPrimary /\ ~Heartbeat /\ ~Beat
           /\ \A m \in Monitors : ~MonitorStep(m)
  <2>1. ElectionStep => UNCHANGED <<missed, hbAge, due>>
    BY DEF ElectionStep, ElectionTick, ElectionCompare, ElectionSend, ElectionError, ElectionExit
  <2>2. \A c \in Cleaners : Cleanup(c) => UNCHANGED <<missed, hbAge, due>>
    BY DEF Cleanup, CleanupServer, CleanupShutdown, CleanupServerNil, CleanupClient,
           CleanupClientNil
  <2>3. RecvRole \/ FailoverActionsDone \/ CreateServer => UNCHANGED <<missed, hbAge, due>>
    BY DEF RecvRole, FailoverActionsDone, CreateServer
  <2>4. ConnectClient \/ TransitionFails \/ AssignRole \/ ManagerExit => UNCHANGED <<missed, hbAge, due>>
    BY DEF ConnectClient, TransitionFails, AssignRole, ManagerExit
  <2>5. StartServer => UNCHANGED <<missed, hbAge, due>>
    BY DEF StartServer
  <2>6. \A s \in Syncs : SyncStep(s) => UNCHANGED <<missed, hbAge, due>>
    BY DEF SyncStep, SyncTick, SyncCheck, SyncCall, SyncReply, SyncReplyNil, SyncApply, SyncExit
  <2>7. HealthCheck \/ Interrupt \/ StartReturns \/ Stop => UNCHANGED <<missed, hbAge, due>>
    BY DEF HealthCheck, Interrupt, StartReturns, Stop
  <2> QED
    BY StepCases, <1>1, <1>7, <2>1, <2>2, <2>3, <2>4, <2>5, <2>6, <2>7 DEF vars
<1> QED
  BY <1>2, <1>3, <1>4, <1>5, <1>6, <1>7 DEF MonitorStep

(***************************************************************************)
(* With n monitors the shared counter is at most n times the length of the *)
(* silence, for any finite number n (MissesFollowSilence).                 *)
(***************************************************************************)
THEOREM MissesAreBounded ==
  ASSUME IsFiniteSet(Monitors)
  PROVE  Spec => []MissesFollowSilence
<1>1. Init => MissInv
  <2>1. SUFFICES ASSUME Init PROVE MissInv
    OBVIOUS
  <2>2. hbAge = Threshold /\ missed = 0 /\ due = {}
    BY <2>1 DEF Init
  <2>3. Cardinality(Monitors) \in Nat /\ Cardinality({}) = 0
    BY FS_CardinalityType, FS_EmptySet
  <2>4. Threshold * Cardinality(Monitors) \in Nat
    BY <2>3, Constants
  <2> QED
    BY <2>2, <2>3, <2>4, Constants DEF MissInv
<1>2. TypeOK /\ MissInv /\ [Next]_vars => MissInv'
  BY MissStep
<1>3. TypeOK /\ MissInv => MissesFollowSilence
  <2>1. SUFFICES ASSUME TypeOK, MissInv PROVE missed <= hbAge * Cardinality(Monitors)
    BY DEF MissesFollowSilence
  <2>2. Cardinality(Monitors) \in Nat /\ Cardinality(due) \in Nat
    BY <2>1, FS_CardinalityType, FS_Subset DEF TypeOK
  <2>3. missed \in Nat /\ hbAge \in Nat
    BY <2>1, Constants DEF TypeOK
  <2>4. hbAge * Cardinality(Monitors) \in Nat
    BY <2>2, <2>3
  <2> QED
    BY <2>1, <2>2, <2>3, <2>4 DEF MissInv
<1> QED
  BY <1>1, <1>2, <1>3, TypeInit, TypeStep, PTL DEF Spec

(***************************************************************************)
(* The daemon implements RoleMachine.  A process that is stopping or dead  *)
(* stays so, and is seen as halted.                                        *)
(***************************************************************************)
LEMMA DownStaysDown ==
  ASSUME ~Up, [Next]_vars
  PROVE  ~Up'
<1> USE DEF Up, lifeVars, roleVars, endVars, beatVars
<1>1. CASE panic # "none"
  BY <1>1 DEF Next, Alive, Dead, vars
<1>2. CASE ctxDone
  <2>1. ElectionStep => UNCHANGED ctxDone
    BY DEF ElectionStep, ElectionTick, ElectionCompare, ElectionSend, ElectionError, ElectionExit
  <2>2. \A c \in Cleaners : Cleanup(c) => UNCHANGED ctxDone
    BY DEF Cleanup, CleanupServer, CleanupShutdown, CleanupServerNil, CleanupClient,
           CleanupClientNil
  <2>3. RecvRole \/ FailoverActionsDone \/ CreateServer \/ StopHeartbeat => UNCHANGED ctxDone
    BY DEF RecvRole, FailoverActionsDone, CreateServer, StopHeartbeat
  <2>4. ConnectClient \/ WatchPrimary \/ TransitionFails \/ AssignRole \/ ManagerExit => UNCHANGED ctxDone
    BY DEF ConnectClient, WatchPrimary, TransitionFails, AssignRole, ManagerExit
  <2>5. StartServer \/ Beat => UNCHANGED ctxDone
    BY DEF StartServer, Beat
  <2>6. \A m \in Monitors : MonitorStep(m) => UNCHANGED ctxDone
    BY DEF MonitorStep, MonitorEnter, MonitorTick, MonitorTrigger, MonitorExit
  <2>7. \A s \in Syncs : SyncStep(s) => UNCHANGED ctxDone
    BY DEF SyncStep, SyncTick, SyncCheck, SyncCall, SyncReply, SyncReplyNil, SyncApply, SyncExit
  <2>8. Heartbeat \/ HealthCheck \/ StartReturns \/ Stop => UNCHANGED ctxDone
    BY DEF Heartbeat, HealthCheck, StartReturns, Stop
  <2>9. Interrupt => FALSE
    BY <1>2 DEF Interrupt
  <2> QED
    BY <1>2, StepCases, <2>1, <2>2, <2>3, <2>4, <2>5, <2>6, <2>7, <2>8, <2>9 DEF vars
<1> QED
  BY <1>1, <1>2

(***************************************************************************)
(* What is seen depends on these fields only, and only while it runs.      *)
(***************************************************************************)
LEMMA Unseen ==
  ASSUME Up => Up', Up' => Up,
         Up => UNCHANGED <<role, roleCh, manager, target, server, client>>,
         Up => (cleaning'["manager"] = "no") = (cleaning["manager"] = "no")
  PROVE  UNCHANGED RM!roleVars
  BY DEF RM!roleVars, Seen, Self, PhaseOfManager, ServerSeen

(***************************************************************************)
(* A step that ends in shutdown or a panic is Halt, and a step of a        *)
(* running daemon is the step of the same name, or nothing.                *)
(***************************************************************************)
LEMMA DaemonStep ==
  ASSUME TypeOK, EndsInv, RunInv, [Next]_vars
  PROVE  [RM!Next]_(RM!roleVars)
<1> USE DEF lifeVars, roleVars, endVars, beatVars
<1> DEFINE N == "self"
<1>0. N \in Self
  BY DEF Self
<1>1. CASE ~Up
  BY <1>1, DownStaysDown, Unseen
<1>2. CASE Up /\ ~Up'
  <2>1. RM!Halt(N)
    BY <1>2 DEF RM!Halt, RM!Move, Seen, Self, RM!RoleUnknown, RoleUnknown, RM!Empty, Empty
  <2> QED
    BY <1>0, <2>1 DEF RM!Next
<1>3. CASE Up /\ Up'
  <2> USE <1>3
  <2>1. CASE ElectionStep
    <3>1. CASE UNCHANGED roleCh
      BY <2>1, <3>1, Unseen DEF ElectionStep, ElectionTick, ElectionCompare, ElectionSend,
         ElectionError, ElectionExit
    <3>2. CASE roleCh' # roleCh
      <4>1. PICK r \in Roles : roleCh = Empty /\ roleCh' = r
        BY <2>1, <3>2
           DEF ElectionStep, ElectionTick, ElectionCompare, ElectionSend, ElectionError,
               ElectionExit, Offer
      <4>2. UNCHANGED <<role, manager, target, server, client, cleaning>>
        BY <2>1 DEF ElectionStep, ElectionTick, ElectionCompare, ElectionSend, ElectionError,
           ElectionExit
      <4>3. RM!Ask(N, r)
        BY <4>1, <4>2 DEF RM!Ask, Seen, Self, RM!Empty, Empty, RM!RoleSecondary, PhaseOfManager,
           ServerSeen
      <4> QED
        BY <1>0, <4>1, <4>3 DEF RM!Next, RM!Roles, Roles, RM!RolePrimary, RolePrimary,
           RM!RoleSecondary, RoleSecondary
    <3> QED
      BY <3>1, <3>2
  <2>2. ASSUME NEW c \in Cleaners, Cleanup(c) PROVE [RM!Next]_(RM!roleVars)
    <3>1. c = "manager" /\ manager = "cleanup" /\ cleaning["manager"] # "no" /\ ~leaked
      BY <2>2 DEF Up, EndsInv, RunInv, Cleaners, Cleanup, CleanupServer, CleanupShutdown,
         CleanupServerNil, CleanupClient, CleanupClientNil
    <3>2. cleaning \in [Cleaners -> {"no", "server", "shutdown", "serverNil", "client", "clientNil"}]
      BY DEF TypeOK
    <3>3. CASE CleanupServer(c)
      BY <3>1, <3>2, <3>3, Unseen DEF CleanupServer, Cleaners
    <3>4. CASE CleanupShutdown(c)
      <4>1. server # "nil" /\ server' = "shut" /\ cleaning'["manager"] = "serverNil"
        BY <3>1, <3>2, <3>4 DEF CleanupShutdown, RunInv, Up
      <4>2. UNCHANGED <<role, roleCh, manager, target, client>>
        BY <3>4 DEF CleanupShutdown
      <4>3. CASE server = "shut"
        BY <3>1, <4>1, <4>2, <4>3, Unseen
      <4>4. CASE server # "shut"
        <5>1. RM!ShutServer(N)
          BY <3>1, <4>1, <4>2, <4>4 DEF RM!ShutServer, Seen, Self, PhaseOfManager, ServerSeen,
             TypeOK
        <5> QED
          BY <1>0, <5>1 DEF RM!Next
      <4> QED
        BY <4>3, <4>4
    <3>5. CASE CleanupServerNil(c)
      <4>1. server = "shut" /\ server' = "nil" /\ cleaning'["manager"] = "client"
        BY <3>1, <3>2, <3>5 DEF CleanupServerNil, RunInv, Up
      <4>2. UNCHANGED <<role, roleCh, manager, target, client>>
        BY <3>5 DEF CleanupServerNil
      <4> QED
        BY <3>1, <4>1, <4>2 DEF RM!roleVars, Seen, Self, PhaseOfManager, ServerSeen
    <3>6. CASE cleaning'["manager"] = "no" /\ (CleanupClient(c) \/ CleanupClientNil(c))
      <4>1. server = "nil" /\ client' = "nil"
        BY <3>1, <3>2, <3>6 DEF CleanupClient, CleanupClientNil, EndsInv
      <4>2. UNCHANGED <<role, roleCh, manager, target, server>>
        BY <3>6 DEF CleanupClient, CleanupClientNil
      <4>3. RM!Cleared(N)
        BY <3>1, <3>6, <4>1, <4>2 DEF RM!Cleared, RM!Move, Seen, Self, PhaseOfManager, ServerSeen
      <4> QED
        BY <1>0, <4>3 DEF RM!Next
    <3>7. CASE cleaning'["manager"] # "no" /\ (CleanupClient(c) \/ CleanupClientNil(c))
      <4>1. client # "nil" /\ client' = "closed"
        BY <3>1, <3>2, <3>7 DEF CleanupClient, CleanupClientNil
      <4>2. UNCHANGED <<role, roleCh, manager, target, server>>
        BY <3>7 DEF CleanupClient, CleanupClientNil
      <4> QED
        BY <3>1, <3>7, <4>1, <4>2 DEF RM!roleVars, Seen, Self, PhaseOfManager, ServerSeen
    <3> QED
      BY <2>2, <3>3, <3>4, <3>5, <3>6, <3>7 DEF Cleanup
  <2>3. CASE RecvRole
    <3>1. RM!Begin(N)
      BY <2>3 DEF RecvRole, RM!Begin, RM!Move, Seen, Self, PhaseOfManager, ServerSeen, RM!Empty,
         Empty, TypeOK, Cleaners
    <3> QED
      BY <1>0, <3>1 DEF RM!Next
  <2>4. CASE FailoverActionsDone
    BY <2>4 DEF FailoverActionsDone, Cleaned, RM!roleVars, Seen, Self, PhaseOfManager, ServerSeen
  <2>5. CASE CreateServer
    <3>1. target = RolePrimary /\ server = "nil"
      BY <2>5 DEF CreateServer, RunInv, EndsInv, Up
    <3>2. RM!MakeServer(N)
      BY <2>5, <3>1 DEF CreateServer, RM!MakeServer, RM!Move, Seen, Self, PhaseOfManager,
         ServerSeen,
         RM!RolePrimary, RolePrimary
    <3> QED
      BY <1>0, <3>2 DEF RM!Next
  <2>6. CASE StopHeartbeat \/ WatchPrimary
    BY <2>6 DEF StopHeartbeat, WatchPrimary, RM!roleVars, Seen, Self, PhaseOfManager, ServerSeen
  <2>7. CASE ConnectClient
    <3>1. RM!MakeClient(N)
      BY <2>7 DEF ConnectClient, Cleaned, RM!MakeClient, RM!Move, Seen, Self, PhaseOfManager,
         ServerSeen, RM!RoleSecondary, RoleSecondary
    <3> QED
      BY <1>0, <3>1 DEF RM!Next
  <2>8. CASE TransitionFails
    <3>1. RM!Fail(N)
      BY <2>8 DEF TransitionFails, Cleaned, RM!Fail, RM!Move, Seen, Self, PhaseOfManager,
         ServerSeen, RM!Empty, Empty
    <3> QED
      BY <1>0, <3>1 DEF RM!Next
  <2>9. CASE AssignRole
    <3>1. RM!Assign(N)
      BY <2>9 DEF AssignRole, RM!Assign, RM!Move, Seen, Self, PhaseOfManager, ServerSeen,
         RM!Empty, Empty
    <3> QED
      BY <1>0, <3>1 DEF RM!Next
  <2>10. CASE StartServer
    <3>1. CASE UNCHANGED server
      BY <2>10, <3>1, Unseen DEF StartServer
    <3>2. CASE server' # server
      <4>1. server = "created" /\ server' = "serving"
        BY <2>10, <3>2 DEF StartServer
      <4>2. RM!ServerStarts(N)
        BY <2>10, <4>1 DEF StartServer, RM!ServerStarts, Seen, Self, PhaseOfManager, ServerSeen
      <4> QED
        BY <1>0, <4>2 DEF RM!Next
    <3> QED
      BY <3>1, <3>2
  <2>11. CASE Beat \/ Heartbeat \/ HealthCheck
    BY <2>11, Unseen DEF Beat, Heartbeat, HealthCheck
  <2>12. ASSUME NEW m \in Monitors, MonitorStep(m) PROVE [RM!Next]_(RM!roleVars)
    <3>1. UNCHANGED <<role, manager, target, server, client, cleaning>>
      BY <2>12 DEF MonitorStep, MonitorEnter, MonitorTick, MonitorTrigger, MonitorExit
    <3>2. CASE UNCHANGED roleCh
      BY <3>1, <3>2, Unseen
    <3>3. CASE roleCh' # roleCh
      <4>1. roleCh = Empty /\ roleCh' = RolePrimary
        BY <2>12, <3>3 DEF MonitorStep, MonitorEnter, MonitorTick, MonitorTrigger, MonitorExit,
           Offer
      <4>2. RM!Ask(N, RolePrimary)
        BY <3>1, <4>1 DEF RM!Ask, Seen, Self, RM!Empty, Empty, RM!RoleSecondary, RolePrimary,
           PhaseOfManager, ServerSeen
      <4> QED
        BY <1>0, <4>2 DEF RM!Next, RM!Roles, RM!RolePrimary, RolePrimary
    <3> QED
      BY <3>2, <3>3
  <2>13. ASSUME NEW s \in Syncs, SyncStep(s) PROVE [RM!Next]_(RM!roleVars)
    BY <2>13, Unseen DEF SyncStep, SyncTick, SyncCheck, SyncCall, SyncReply, SyncReplyNil,
       SyncApply, SyncExit
  <2>14. CASE ManagerExit \/ Interrupt \/ StartReturns \/ Stop
    <3>1. CASE ManagerExit \/ StartReturns
      BY <3>1 DEF ManagerExit, StartReturns, Up
    <3>2. CASE Interrupt
      BY <3>2 DEF Interrupt, Up
    <3>3. CASE Stop
      BY <3>3 DEF Stop, RunInv, Up
    <3> QED
      BY <2>14, <3>1, <3>2, <3>3
  <2>15. CASE UNCHANGED vars
    BY <2>15, Unseen DEF vars
  <2> QED
    BY StepCases, <2>1, <2>2, <2>3, <2>4, <2>5, <2>6, <2>7, <2>8, <2>9, <2>10, <2>11, <2>12, <2>13,
       <2>14, <2>15
<1> QED
  BY <1>1, <1>2, <1>3

(***************************************************************************)
(* Seen from outside, the daemon is a RoleMachine (ImplementsRoleMachine), *)
(* also when transitions fail and while it shuts down.                     *)
(***************************************************************************)
THEOREM DaemonIsRoleMachine == Spec => ImplementsRoleMachine
<1>1. Init => RM!Init
  BY DEF Init, RM!Init, Seen, Self, Up, PhaseOfManager, ServerSeen, RM!RoleUnknown, RoleUnknown,
     RM!Empty, Empty
<1>2. TypeOK /\ EndsInv /\ RunInv /\ [Next]_vars => [RM!Next]_(RM!roleVars)
  BY DaemonStep
<1> QED
  BY <1>1, <1>2, TypeInit, TypeStep, EndsInit, EndsStep, RunInit, RunStep, PTL
     DEF Spec, ImplementsRoleMachine, RM!Spec

(***************************************************************************)
(* What holds of every RoleMachine holds of the daemon: what it shows to   *)
(* the other nodes keeps OnlyPrimaryServes, also when transitions fail,    *)
(* while it shuts down and when it dies.                                   *)
(***************************************************************************)
RMP == INSTANCE RoleMachine_proofs WITH
  Nodes  <- Self,
  role   <- Seen(role, RoleUnknown),
  asked  <- Seen(roleCh, Empty),
  target <- Seen(IF manager = "select" THEN Empty ELSE target, Empty),
  phase  <- Seen(PhaseOfManager, "rest"),
  server <- Seen(ServerSeen, "down"),
  client <- Seen(IF client = "nil" THEN "none" ELSE "made", "none"),
  live   <- Seen(TRUE, FALSE)

\* By the theorem about RoleMachine: RMP is RM with its theorems.
THEOREM DaemonServesAsPrimary == Spec => []RM!OnlyPrimaryServes
<1>1. RMP!Spec => []RMP!OnlyPrimaryServes
  BY RMP!MachineServesAsPrimary
<1>2. RM!Init => RMP!Init
  BY DEF RM!Init, RMP!Init, RM!Empty, RMP!Empty, RM!RoleUnknown, RMP!RoleUnknown
<1>3. [RM!Next]_(RM!roleVars) => [RMP!Next]_(RMP!roleVars)
  BY DEF RM!Next, RM!roleVars, RM!Ask, RM!Begin, RM!ShutServer, RM!Cleared, RM!MakeServer,
     RM!ServerStarts, RM!MakeClient, RM!Assign, RM!Fail, RM!Halt, RM!Boot, RM!Move,
     RM!Empty, RM!RoleUnknown, RM!RolePrimary, RM!RoleSecondary, RM!Roles,
     RMP!Next, RMP!roleVars, RMP!Ask, RMP!Begin, RMP!ShutServer, RMP!Cleared, RMP!MakeServer,
     RMP!ServerStarts, RMP!MakeClient, RMP!Assign, RMP!Fail, RMP!Halt, RMP!Boot, RMP!Move,
     RMP!Empty, RMP!RoleUnknown, RMP!RolePrimary, RMP!RoleSecondary, RMP!Roles
<1>4. RMP!OnlyPrimaryServes => RM!OnlyPrimaryServes
  BY DEF RM!OnlyPrimaryServes, RMP!OnlyPrimaryServes, RM!RolePrimary, RMP!RolePrimary
<1> QED
  BY <1>1, <1>2, <1>3, <1>4, DaemonIsRoleMachine, PTL DEF ImplementsRoleMachine, RM!Spec, RMP!Spec

(***************************************************************************)
(* Every shutdown that gets to its end is a panic: Start has closed stopCh *)
(* before the deferred Stop closes it.  LeaderStopTwice shows one; there   *)
(* is no other.                                                            *)
(***************************************************************************)
StopPanics == main = "stopped" => panic = "closedStopCh"

\* main is past Start only when Start has closed the channel.
ClosedInv == StopPanics /\ (main = "cleanup" => stopCh = "closed")

\* Every step keeps that; a process that has panicked does nothing more.
LEMMA ClosedStep == ClosedInv /\ [Next]_vars => ClosedInv'
<1> SUFFICES ASSUME ClosedInv, [Next]_vars PROVE ClosedInv'
  OBVIOUS
<1> USE DEF ClosedInv, StopPanics, lifeVars, roleVars, endVars, beatVars
<1>1. CASE main = "stopped"
  <2>1. UNCHANGED vars
    BY <1>1 DEF Next, Alive, Dead
  <2> QED
    BY <2>1 DEF vars
<1>2. CASE main # "stopped"
  <2>1. CASE UNCHANGED <<main, stopCh>>
    BY <1>2, <2>1
  <2>2. CASE StartReturns \/ Stop
    BY <1>2, <2>2 DEF StartReturns, Stop
  <2>3. ElectionStep => UNCHANGED <<main, stopCh>>
    BY DEF ElectionStep, ElectionTick, ElectionCompare, ElectionSend, ElectionError, ElectionExit
  <2>4. \A c \in Cleaners : Cleanup(c) => UNCHANGED <<main, stopCh>>
    BY DEF Cleanup, CleanupServer, CleanupShutdown, CleanupServerNil, CleanupClient,
           CleanupClientNil
  <2>5. RecvRole \/ FailoverActionsDone \/ CreateServer \/ StopHeartbeat => UNCHANGED <<main, stopCh>>
    BY DEF RecvRole, FailoverActionsDone, CreateServer, StopHeartbeat
  <2>6. ConnectClient \/ WatchPrimary \/ TransitionFails \/ AssignRole \/ ManagerExit => UNCHANGED <<main, stopCh>>
    BY DEF ConnectClient, WatchPrimary, TransitionFails, AssignRole, ManagerExit
  <2>7. StartServer \/ Beat \/ Heartbeat \/ HealthCheck \/ Interrupt => UNCHANGED <<main, stopCh>>
    BY DEF StartServer, Beat, Heartbeat, HealthCheck, Interrupt
  <2>8. \A m \in Monitors : MonitorStep(m) => UNCHANGED <<main, stopCh>>
    BY DEF MonitorStep, MonitorEnter, MonitorTick, MonitorTrigger, MonitorExit
  <2>9. \A s \in Syncs : SyncStep(s) => UNCHANGED <<main, stopCh>>
    BY DEF SyncStep, SyncTick, SyncCheck, SyncCall, SyncReply, SyncReplyNil, SyncApply, SyncExit
  <2> QED
    BY StepCases, <2>1, <2>2, <2>3, <2>4, <2>5, <2>6, <2>7, <2>8, <2>9 DEF vars
<1> QED
  BY <1>1, <1>2

\* So no process stops gracefully.
THEOREM EveryStopPanics == Spec => []StopPanics
<1>1. Init => ClosedInv
  BY DEF Init, ClosedInv, StopPanics
<1>2. ClosedInv => StopPanics
  BY DEF ClosedInv
<1> QED
  BY <1>1, <1>2, ClosedStep, PTL DEF Spec

(***************************************************************************)
(* What may kill a daemon that nobody stops.  There are four ways and no   *)
(* fifth: the goroutine of becomePrimary comes to frpcServer after it was  *)
(* cleared, a sync loop comes to frpcClient after it was cleared, a call   *)
(* that cleanup cut off answers with neither a response nor an error, or   *)
(* HealthCheck is called in test mode.  The nil tests of cleanup do hold   *)
(* while the manager is the only one that cleans up.  All but the last     *)
(* need a transition: if none fails, a pointer is nil only for a role that *)
(* was left or is being left, and only the cleanup that begins one cuts a  *)
(* call.  Outside of test mode a daemon that stays what it is survives.    *)
(***************************************************************************)
Leaving(r) == role # r \/ manager # "select"

LateStarter == server = "nil" /\ starters > 0 /\ (TransitionErrors \/ Leaving(RolePrimary))

LateSync ==
  /\ client = "nil" /\ (\E s \in Syncs : sync[s] = "call")
  /\ TransitionErrors \/ Leaving(RoleSecondary)

\* The step cuts calls off.
Cuts == \E s \in Syncs : sync[s] # "cut" /\ sync'[s] = "cut"

WayToDie ==
  \/ panic' = "nilServer" /\ LateStarter
  \/ panic' = "nilClient" /\ LateSync
  \/ panic' = "nilResponse" /\ \E s \in Syncs : sync[s] = "cut"
  \/ panic' = "nilAWSClient" /\ DisableENICheck /\ Serving

KilledWhileRunning ==
  [][~ctxDone => /\ panic' # panic => WayToDie
                 /\ Cuts => manager = "cleanup" /\ client' = "closed"]_vars

\* A step that kills.
LEMMA KilledStep ==
  ASSUME TypeOK, RunInv, ~TransitionErrors => RestInv, [Next]_vars, ~ctxDone, panic' # panic
  PROVE  WayToDie
<1> USE DEF WayToDie
<1>0. /\ main = "wait" /\ cleaning["main"] = "no"
      /\ cleaning["manager"] = "shutdown" => server # "nil"
  BY DEF RunInv
<1>1. server = "nil" => TransitionErrors \/ Leaving(RolePrimary)
  BY DEF RestInv, RoleHasResources, AtRest, Leaving
<1>2. client = "nil" => TransitionErrors \/ Leaving(RoleSecondary)
  BY DEF RestInv, RoleHasResources, AtRest, Leaving
<1>3. CASE StartServer
  BY <1>1, <1>3 DEF StartServer, LateStarter
<1>4. ASSUME NEW s \in Syncs, SyncStep(s) PROVE WayToDie
  BY <1>2, <1>4 DEF SyncStep, SyncTick, SyncCheck, SyncCall, SyncReply, SyncReplyNil, SyncApply,
     SyncExit, LateSync
<1>5. CASE HealthCheck
  BY <1>5 DEF HealthCheck
<1>6. ASSUME NEW c \in Cleaners, Cleanup(c) PROVE FALSE
  BY <1>0, <1>6 DEF Cleanup, CleanupServer, CleanupShutdown, CleanupServerNil, CleanupClient,
     CleanupClientNil, Cleaners
<1>7. Stop => FALSE
  BY <1>0 DEF Stop
<1>8. ElectionStep => panic' = panic
  BY DEF ElectionStep, ElectionTick, ElectionCompare, ElectionSend, ElectionError, ElectionExit
<1>9. RecvRole \/ FailoverActionsDone \/ CreateServer \/ StopHeartbeat => panic' = panic
  BY DEF RecvRole, FailoverActionsDone, CreateServer, StopHeartbeat
<1>10. ConnectClient \/ WatchPrimary \/ TransitionFails \/ AssignRole \/ ManagerExit => panic' = panic
  BY DEF ConnectClient, WatchPrimary, TransitionFails, AssignRole, ManagerExit
<1>11. Beat \/ Heartbeat \/ Interrupt \/ StartReturns => panic' = panic
  BY DEF Beat, Heartbeat, Interrupt, StartReturns
<1>12. \A m \in Monitors : MonitorStep(m) => panic' = panic
  BY DEF MonitorStep, MonitorEnter, MonitorTick, MonitorTrigger, MonitorExit
<1>13. UNCHANGED vars => panic' = panic
  BY DEF vars
<1> QED
  BY StepCases, <1>3, <1>4, <1>5, <1>6, <1>7, <1>8, <1>9, <1>10, <1>11, <1>12, <1>13

\* A step that cuts calls off: only cleanup does, and nobody but the manager runs it.
LEMMA CutStep ==
  ASSUME TypeOK, EndsInv, RunInv, [Next]_vars, ~ctxDone, Cuts
  PROVE  manager = "cleanup" /\ client' = "closed"
<1> USE DEF Cuts, lifeVars, roleVars, endVars, beatVars
<1>1. ASSUME NEW c \in Cleaners, Cleanup(c) PROVE manager = "cleanup" /\ client' = "closed"
  <2>1. cleaning[c] = "client" /\ client' = "closed"
    BY <1>1 DEF Cleanup, CleanupServer, CleanupShutdown, CleanupServerNil, CleanupClient,
       CleanupClientNil
  <2> QED
    BY <2>1 DEF EndsInv, RunInv, Cleaners
<1>2. ASSUME NEW s \in Syncs, SyncStep(s) PROVE FALSE
  BY <1>2 DEF SyncStep, SyncTick, SyncCheck, SyncCall, SyncReply, SyncReplyNil, SyncApply,
     SyncExit, TypeOK
<1>3. WatchPrimary => FALSE
  BY DEF WatchPrimary, SpawnSync, TypeOK
<1>4. ElectionStep => UNCHANGED sync
  BY DEF ElectionStep, ElectionTick, ElectionCompare, ElectionSend, ElectionError, ElectionExit
<1>5. RecvRole \/ FailoverActionsDone \/ CreateServer \/ StopHeartbeat => UNCHANGED sync
  BY DEF RecvRole, FailoverActionsDone, CreateServer, StopHeartbeat
<1>6. ConnectClient \/ TransitionFails \/ AssignRole \/ ManagerExit => UNCHANGED sync
  BY DEF ConnectClient, TransitionFails, AssignRole, ManagerExit
<1>7. StartServer \/ Beat \/ Heartbeat \/ HealthCheck => UNCHANGED sync
  BY DEF StartServer, Beat, Heartbeat, HealthCheck
<1>8. Interrupt \/ StartReturns \/ Stop \/ UNCHANGED vars => UNCHANGED sync
  BY DEF Interrupt, StartReturns, Stop, vars
<1>9. \A m \in Monitors : MonitorStep(m) => UNCHANGED sync
  BY DEF MonitorStep, MonitorEnter, MonitorTick, MonitorTrigger, MonitorExit
<1> QED
  BY StepCases, <1>1, <1>2, <1>3, <1>4, <1>5, <1>6, <1>7, <1>8, <1>9

\* The theorem itself, from RunInv and, if transitions do not fail, RestInv.
THEOREM OnlyTheseKill == Spec => KilledWhileRunning
<1> DEFINE Known == ~TransitionErrors => RestInv
           Killed == ~ctxDone => /\ panic' # panic => WayToDie
                                 /\ Cuts => manager = "cleanup" /\ client' = "closed"
<1>1. TypeOK /\ EndsInv /\ RunInv /\ Known /\ [Next]_vars => Killed
  BY KilledStep, CutStep
<1>2. TypeOK /\ EndsInv /\ RunInv /\ Known /\ [Next]_vars => Known'
  <2>1. CASE TransitionErrors
    BY <2>1
  <2>2. CASE ~TransitionErrors
    BY <2>2, RestStep
  <2> QED
    BY <2>1, <2>2
<1>3. Init => Known
  BY RestInit
<1> HIDE DEF Known
<1>4. Spec => [][Killed]_vars
  BY <1>1, <1>2, <1>3, TypeInit, TypeStep, EndsInit, EndsStep, RunInit, RunStep, PTL DEF Spec
<1> QED
  BY <1>4 DEF KilledWhileRunning

(***************************************************************************)
(* How far LeaderLateApply can go.  While the node is not secondary no     *)
(* loop begins a sync, and one that applies has none under way afterwards: *)
(* each loop that was in a sync when the role changed applies at most one  *)
(* more state, however long the node stays what it is.                     *)
(***************************************************************************)
Overdue == {s \in Syncs : sync[s] \in {"check", "call", "rpc", "cut", "apply"}}

LateAppliesAreFew ==
  [][role # RoleSecondary =>
       /\ Overdue' \subseteq Overdue
       /\ \A s \in Syncs : (sync[s] = "apply" /\ sync'[s] # "apply") => s \notin Overdue']_vars

\* A step of a loop: only SyncTick begins a sync, and it tests the role.
LEMMA SyncStays ==
  ASSUME TypeOK, NEW s \in Syncs, SyncStep(s), role # RoleSecondary
  PROVE  /\ s \notin Overdue => sync'[s] \in {"off", "select"}
         /\ sync[s] = "apply" => sync'[s] \in {"off", "select"}
         /\ \A k \in Syncs \ {s} : sync'[k] = sync[k]
<1>1. sync \in [Syncs -> {"off", "select", "check", "call", "rpc", "cut", "apply"}]
  BY DEF TypeOK
<1>2. CASE SyncTick(s) \/ SyncCheck(s) \/ SyncCall(s) \/ SyncExit(s)
  BY <1>1, <1>2 DEF SyncTick, SyncCheck, SyncCall, SyncExit, Overdue
<1>3. CASE SyncReply(s) \/ SyncReplyNil(s) \/ SyncApply(s)
  BY <1>1, <1>3 DEF SyncReply, SyncReplyNil, SyncApply, Overdue
<1> QED
  BY <1>2, <1>3 DEF SyncStep

\* WatchPrimary starts a loop, which waits for its first tick.
LEMMA SpawnedWaits ==
  ASSUME TypeOK, SpawnSync, NEW k \in Syncs
  PROVE  sync'[k] = sync[k] \/ sync'[k] = "select"
  BY DEF SpawnSync, TypeOK

\* One step of it.
LEMMA LateStep ==
  ASSUME TypeOK, [Next]_vars, role # RoleSecondary
  PROVE  /\ Overdue' \subseteq Overdue
         /\ \A s \in Syncs : (sync[s] = "apply" /\ sync'[s] # "apply") => s \notin Overdue'
<1> USE DEF Overdue, lifeVars, roleVars, endVars, beatVars
<1>1. CASE UNCHANGED sync
  BY <1>1
<1>2. ASSUME NEW s \in Syncs, SyncStep(s)
      PROVE  /\ Overdue' \subseteq Overdue
             /\ \A k \in Syncs : (sync[k] = "apply" /\ sync'[k] # "apply") => k \notin Overdue'
  BY <1>2, SyncStays
<1>3. ASSUME WatchPrimary
      PROVE  /\ Overdue' \subseteq Overdue
             /\ \A k \in Syncs : (sync[k] = "apply" /\ sync'[k] # "apply") => k \notin Overdue'
  BY <1>3, SpawnedWaits DEF WatchPrimary
<1>4. ElectionStep => UNCHANGED sync
  BY DEF ElectionStep, ElectionTick, ElectionCompare, ElectionSend, ElectionError, ElectionExit
<1>5. ASSUME NEW c \in Cleaners, Cleanup(c), sync' # sync
      PROVE  /\ Overdue' \subseteq Overdue
             /\ \A k \in Syncs : (sync[k] = "apply" /\ sync'[k] # "apply") => k \notin Overdue'
  <2>1. sync' = [k \in Syncs |-> IF sync[k] = "rpc" THEN "cut" ELSE sync[k]]
    BY <1>5 DEF Cleanup, CleanupServer, CleanupShutdown, CleanupServerNil, CleanupClient,
       CleanupClientNil
  <2> QED
    BY <2>1
<1>6. RecvRole \/ FailoverActionsDone \/ CreateServer \/ StopHeartbeat => UNCHANGED sync
  BY DEF RecvRole, FailoverActionsDone, CreateServer, StopHeartbeat
<1>7. ConnectClient \/ TransitionFails \/ AssignRole \/ ManagerExit => UNCHANGED sync
  BY DEF ConnectClient, TransitionFails, AssignRole, ManagerExit
<1>8. StartServer \/ Beat \/ Heartbeat \/ HealthCheck => UNCHANGED sync
  BY DEF StartServer, Beat, Heartbeat, HealthCheck
<1>9. Interrupt \/ StartReturns \/ Stop \/ UNCHANGED vars => UNCHANGED sync
  BY DEF Interrupt, StartReturns, Stop, vars
<1>10. \A m \in Monitors : MonitorStep(m) => UNCHANGED sync
  BY DEF MonitorStep, MonitorEnter, MonitorTick, MonitorTrigger, MonitorExit
<1> QED
  BY StepCases, <1>1, <1>2, <1>3, <1>4, <1>5, <1>6, <1>7, <1>8, <1>9, <1>10

\* The theorem itself.
THEOREM LateAppliesEnd == Spec => LateAppliesAreFew
<1>1. TypeOK /\ [Next]_vars =>
        (role # RoleSecondary =>
           /\ Overdue' \subseteq Overdue
           /\ \A s \in Syncs : (sync[s] = "apply" /\ sync'[s] # "apply") => s \notin Overdue')
  BY LateStep
<1> QED
  BY <1>1, TypeCorrect, PTL DEF Spec, LateAppliesAreFew

(***************************************************************************)
(* A transition ends: what the manager has left to do never grows but by   *)
(* a new request, also while main cleans up against it, and each step of   *)
(* the manager lowers it: nine at most follow a request.  (That the        *)
(* manager makes its steps is fairness.)                                   *)
(***************************************************************************)
CleaningLeft ==
  CASE cleaning["manager"] = "server"    -> 5
    [] cleaning["manager"] = "shutdown"  -> 4
    [] cleaning["manager"] = "serverNil" -> 3
    [] cleaning["manager"] = "client"    -> 2
    [] cleaning["manager"] = "clientNil" -> 1
    [] cleaning["manager"] = "no"        -> 0

TransitionLeft ==
  CASE manager = "cleanup"       -> 4 + CleaningLeft
    [] manager = "serve"         -> 3
    [] manager = "stopHeartbeat" -> 2
    [] manager = "watch"         -> 2
    [] manager = "assign"        -> 1
    [] manager = "select"        -> 0
    [] manager = "exited"        -> 0

ManagerProgresses ==
  [][\/ RecvRole
     \/ ManagerStep /\ TransitionLeft' < TransitionLeft
     \/ ~ManagerStep /\ TransitionLeft' = TransitionLeft]_vars

\* The rank is a small number.
LEMMA LeftIsSmall == TypeOK => TransitionLeft \in 0..9 /\ CleaningLeft \in 0..5
<1> SUFFICES ASSUME TypeOK PROVE TransitionLeft \in 0..9 /\ CleaningLeft \in 0..5
  OBVIOUS
<1>1. CleaningLeft \in 0..5
  BY DEF TypeOK, CleaningLeft, Cleaners
<1> HIDE DEF CleaningLeft
<1>2. TransitionLeft \in 0..9
  BY <1>1 DEF TypeOK, TransitionLeft
<1> QED
  BY <1>1, <1>2

\* A step of the manager, but for the one that begins a transition.
LEMMA ManagerLowers ==
  ASSUME TypeOK, EndsInv, ManagerStep, ~RecvRole
  PROVE  TransitionLeft' < TransitionLeft
<1>0. /\ cleaning \in [Cleaners -> {"no", "server", "shutdown", "serverNil", "client", "clientNil"}]
      /\ "manager" \in Cleaners
  BY DEF TypeOK, Cleaners
<1>1. CASE Cleanup("manager")
  <2>1. manager = "cleanup" /\ manager' = "cleanup"
    <3>1. manager' = manager /\ cleaning["manager"] # "no"
      BY <1>1 DEF Cleanup, CleanupServer, CleanupShutdown, CleanupServerNil, CleanupClient,
         CleanupClientNil, roleVars
    <3> QED
      BY <3>1 DEF EndsInv
  <2>2. \/ cleaning["manager"] = "server" /\ cleaning'["manager"] \in {"client", "shutdown"}
        \/ cleaning["manager"] = "shutdown" /\ cleaning'["manager"] = "serverNil"
        \/ cleaning["manager"] = "serverNil" /\ cleaning'["manager"] = "client"
        \/ cleaning["manager"] = "client" /\ cleaning'["manager"] \in {"no", "clientNil"}
        \/ cleaning["manager"] = "clientNil" /\ cleaning'["manager"] = "no"
    BY <1>0, <1>1 DEF Cleanup, CleanupServer, CleanupShutdown, CleanupServerNil, CleanupClient,
       CleanupClientNil
  <2> QED
    BY <2>1, <2>2 DEF TransitionLeft, CleaningLeft
<1>2. CASE FailoverActionsDone \/ ConnectClient \/ TransitionFails
  <2>1. \/ manager = "cleanup" /\ cleaning["manager"] = "no" /\ manager' \in {"serve", "watch", "select"}
        \/ manager = "serve" /\ manager' = "select"
    BY <1>2 DEF FailoverActionsDone, ConnectClient, TransitionFails, Cleaned
  <2> QED
    BY <2>1 DEF TransitionLeft, CleaningLeft
<1>3. CASE CreateServer \/ StopHeartbeat \/ WatchPrimary \/ AssignRole
  <2>1. \/ manager = "serve" /\ manager' = "stopHeartbeat"
        \/ manager \in {"stopHeartbeat", "watch"} /\ manager' = "assign"
        \/ manager = "assign" /\ manager' = "select"
    BY <1>3 DEF CreateServer, StopHeartbeat, WatchPrimary, AssignRole
  <2> QED
    BY <2>1 DEF TransitionLeft
<1> QED
  BY <1>1, <1>2, <1>3 DEF ManagerStep

\* Nobody else moves the manager.
LEMMA OthersLeaveManager ==
  ASSUME TypeOK, [Next]_vars, ~ManagerStep
  PROVE  TransitionLeft' = TransitionLeft
<1> USE DEF lifeVars, roleVars, endVars, beatVars
<1>0. /\ cleaning \in [Cleaners -> {"no", "server", "shutdown", "serverNil", "client", "clientNil"}]
      /\ "manager" \in Cleaners
  BY DEF TypeOK, Cleaners
<1>1. (manager' = manager /\ cleaning'["manager"] = cleaning["manager"]) => TransitionLeft' = TransitionLeft
  BY DEF TransitionLeft, CleaningLeft
<1>2. ManagerExit => TransitionLeft' = TransitionLeft
  BY DEF ManagerExit, TransitionLeft
<1>3. ElectionStep => UNCHANGED <<manager, cleaning>>
  BY DEF ElectionStep, ElectionTick, ElectionCompare, ElectionSend, ElectionError, ElectionExit
<1>4. ASSUME NEW c \in Cleaners, Cleanup(c)
      PROVE  manager' = manager /\ cleaning'["manager"] = cleaning["manager"]
  <2>1. c # "manager"
    BY <1>4 DEF ManagerStep
  <2> QED
    BY <1>0, <1>4, <2>1 DEF Cleanup, CleanupServer, CleanupShutdown, CleanupServerNil,
       CleanupClient,
       CleanupClientNil
<1>5. StartServer \/ Beat \/ Heartbeat \/ HealthCheck => UNCHANGED <<manager, cleaning>>
  BY DEF StartServer, Beat, Heartbeat, HealthCheck
<1>6. Interrupt \/ Stop \/ UNCHANGED vars => UNCHANGED <<manager, cleaning>>
  BY DEF Interrupt, Stop, vars
<1>7. StartReturns => manager' = manager /\ cleaning'["manager"] = cleaning["manager"]
  BY <1>0 DEF StartReturns
<1>8. \A m \in Monitors : MonitorStep(m) => UNCHANGED <<manager, cleaning>>
  BY DEF MonitorStep, MonitorEnter, MonitorTick, MonitorTrigger, MonitorExit
<1>9. \A s \in Syncs : SyncStep(s) => UNCHANGED <<manager, cleaning>>
  BY DEF SyncStep, SyncTick, SyncCheck, SyncCall, SyncReply, SyncReplyNil, SyncApply, SyncExit
<1> QED
  BY StepCases, <1>1, <1>2, <1>3, <1>4, <1>5, <1>6, <1>7, <1>8, <1>9 DEF ManagerStep

\* The theorem itself: at most nine steps from the request to the end of its transition.
THEOREM TransitionsEnd == Spec => [](TransitionLeft \in 0..9) /\ ManagerProgresses
<1>1. TypeOK => TransitionLeft \in 0..9
  BY LeftIsSmall
<1>2. TypeOK /\ EndsInv /\ [Next]_vars =>
        [\/ RecvRole
         \/ ManagerStep /\ TransitionLeft' < TransitionLeft
         \/ ~ManagerStep /\ TransitionLeft' = TransitionLeft]_vars
  BY ManagerLowers, OthersLeaveManager
<1> QED
  BY <1>1, <1>2, TypeInit, TypeStep, EndsInit, EndsStep, PTL DEF Spec, ManagerProgresses
=============================================================================
