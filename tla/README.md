# Verification of the arc-net failover daemon

This directory holds TLA+ models of `arc-net failover`, the daemon that makes one of two NAT
instances on EC2 the primary and the other one the secondary, together with the configurations
that TLC checks and the proofs that TLAPS checks. All paths are relative to the root of the
repository. The repository has no tests; what the code promises is taken from its comments, its
log messages and `pkg/failover/failover.proto`.

## 1. The system

| Component | Source | State it keeps | Operations | Module |
|---|---|---|---|---|
| LeaderFailover daemon | `pkg/failover/leader.go` | role, one-slot role channel, fRPC server and client pointers, heartbeat channel and counters | `Start`, `Stop`, `leaderElectionLoop`, `roleManagementLoop`, `transitionToRole`, `becomePrimary`, `becomeSecondary`, `cleanup`, `heartbeatMonitorLoop`, `secondarySyncLoop`, `Heartbeat`, `HealthCheck` | `LeaderFailover`; seen from outside: `RoleMachine` |
| pair of daemons | `leader.go`, `CheckENIOwnership` in `aws.go` | the address in EC2, the connections | election, silence, takeover, crash, restart | `FailoverPair` |
| EC2 takeover | `executeFailoverActions` in `leader.go`, `pkg/failover/aws.go` | none of its own; the addresses, routes and Elastic IP of the EC2 account | `TakeOverENI`, `MoveEIPToENI`, `GetENIFloatingIPs`, `ReassignFloatingIPs`, `UpdateRouteTables` | `ENITakeover` |
| NAT state exchange | `SyncState`, `syncFromPrimary`, `applySyncedState` in `leader.go` | the NAT tables of the local conduit process, behind HTTP | read, convert, send, convert back, replace | `NATState`, `StateSync` |
| socket failover | `pkg/failover/failover.go` | none | `New`, `Start`, `Stop`, `syncNATState` | `StateSync` |
| fRPC service | `pkg/failover/failover.frpc.go` (generated) | in-flight tables, packet ids, the connection | calls, handlers, answers, `Close`; `Encode` and `Decode` of every message | `FrpcClient`, `FrpcCodec` |
| configuration | `LeaderConfig` in `leader.go`, `internal/config/config.go` | none after the start | `Validate` | `LeaderConfig` |
| failover command | `cmd/failover/failover.go` | the context that an interrupt cancels | `runLeaderFailoverCmd` | part of `LeaderFailover` |
| conduit HTTP client | `pkg/client/client.go` (generated) | none | requests | its types in `NATState` |
| infrastructure, examples, conduit documents | `terraform/`, `examples/`, `doc/conduit/` | | | not modelled |

How they interact. `Start` spawns the election loop and the role management loop and waits for
the context. The election loop asks EC2 who has the ENI address and offers a role on `roleCh`, a
channel with one slot; an offer that finds the slot taken is dropped. The role management loop
takes a role, runs `cleanup`, then `becomePrimary` (EC2 takeover, fRPC server, stop the heartbeat
monitor) or `becomeSecondary` (fRPC client, heartbeat monitor, sync loop), and stores the role at
the end. A heartbeat monitor that counts enough missed intervals offers the primary role and
returns. A sync loop fetches the NAT state of the primary and applies it locally. The fRPC
handlers run on goroutines of the server. All of these share the fields of one struct, and only
the two heartbeat counters have a mutex.

What is hard here, and what makes each part correct:

- *Daemon*: unsynchronised fields read and written by five kinds of goroutine; pointers cleared
  between a test and a use; requests dropped by a full channel; goroutines of an earlier role that
  outlive it; a transition that fails half-way; shutdown in the middle of a transition. It is
  correct when a role is backed by its resources, when no old goroutine acts for a role the node no
  longer has, and when a silent primary is replaced in the end.
- *Takeover*: dozens of EC2 requests that are not a transaction, run by two nodes that do not
  know of each other, with failures and crashes in between. It is correct when no address is lost
  and a reported success means that everything points to the node that reports it.
- *State exchange*: a snapshot that is old by the time it is applied, converted and encoded twice on
  the way, by several loops, with calls that time out and take effect after all. It is correct when
  what is applied is a state the primary had, undamaged, and the newest one wins in the end.
- *fRPC client*: packet ids that wrap, answers that come out of order or after the call has gone, one
  handler for all calls. It is correct when a call gets its own answer, the table does not grow and
  nothing blocks the handler.
- *Pair*: two daemons that never talk about roles and act on what EC2 said a while ago. It is correct
  when only a primary serves state, an overtaken primary steps down and the owner of the address
  comes to serve.

`PROJECT.json` lists the individual hazards with the line at which each one bites.

## 2. Modules

| Layer | Modules |
|---|---|
| what a daemon promises | `RoleMachine`, implemented by `LeaderFailover` (`ImplementsRoleMachine`) and composed by `FailoverPair` |
| one daemon | `LeaderFailover`, parameterised by a configuration of `LeaderConfig` |
| all daemons | `FailoverPair` |
| what a promotion does to EC2 | `ENITakeover` |
| what it does to the address | `AddressMove`, implemented by `ENITakeover` (`ImplementsMove`) and composed by `FailoverPair` |
| what a sync does to the tables | `StateSync` over `NATState` over `FrpcCodec` |
| one connection | `FrpcClient` over `FrpcCodec` |

### LeaderFailover

One process. The atomic step is what a goroutine does between two points at which another
goroutine can observe it: a channel operation, a blocking call, an access to a shared field.

| Variable | Code |
|---|---|
| `role`, `roleCh`, `hbCh`, `missed`, `server`, `client`, `stopCh` | the fields `currentRole`, `roleCh`, `heartbeatStopCh`, `missedHeartbeats`, `frpcServer`, `frpcClient`, `stopCh` |
| `hbAge` | heartbeat intervals since `lastHeartbeat`, saturated at the threshold |
| `election`, `manager`, `target`, `main` | the program points of the loops and of `Start`/`Stop` (for the election loop also the role it has decided to ask for), and the argument of `transitionToRole` |
| `cleaning` | the program point inside `cleanup` of each of its two callers |
| `starters` | goroutines of `becomePrimary` that have yet to call `frpcServer.Start` |
| `leaked` | a server listens that `frpcServer` no longer points to |
| `monitor`, `due` | heartbeat monitors: where each is, on which channel it waits, whether its ticker has fired |
| `sync` | sync loops: before the tick, before each of the two reads of `frpcClient`, in the call, in a call that `cleanup` has cut off, before applying |
| `panic` | the run-time panic that ended the process |

`cleanup` is five actions because main and the role manager may run it at the same time and each of
its reads and writes of `frpcServer` and `frpcClient` is separate in the code. A monitor re-reads
`heartbeatStopCh` each time round its loop, so `MonitorEnter` remembers which channel it found. A
monitor on an "orphan" channel waits on one that is as open as the current one, but that a second
`becomeSecondary` has overwritten (leader.go:462), so that nobody will ever close it; one on a channel
that `becomePrimary` has closed is "closed". The election loop reads `currentRole` (line 300) and sends
on `roleCh` (line 307) in two steps, `ElectionCompare` and `ElectionSend`: the role manager may store a
role in between, so a node may be asked for the role it has. `Close` cuts off the calls on the client
(`CleanupClient`), and a call that was cut off may return neither a response nor an error, which
`syncFromPrimary` does not survive (`SyncReplyNil`). A panic ends the process; what systemd starts
afterwards is a new instance.

`RM` is the refinement mapping: one node, "self"; the phase is read off the role manager's program
point and that of its `cleanup`; a server counts as down once `cleanup` has shut it down, whether or
not the field is cleared yet; a process that has panicked or been interrupted counts as halted, since
main and the role manager then clean up against each other and no order is promised.

### LeaderConfig

`Refused` and `Completed` are the two halves of `LeaderConfig.Validate`. `LeaderFailover` has the raw
configuration as its constant `Config`, assumes only that it is not refused, and takes threshold,
test mode and forced role from the completed one.

### RoleMachine

| Variable | Meaning |
|---|---|
| `role`, `asked`, `target` | the stored role, the queued request, the role in transition |
| `phase` | how far the transition is: at rest, clearing up, cleared, set up |
| `server`, `client`, `live` | the ends of the connection, and whether the process runs |

Its actions are what others can tell of `roleManagementLoop`: a request is queued, the transition
begins, the old server goes, then the old client, the new end is made or the transition fails, the
role is stored last. A daemon may halt at any moment, and then starts with nothing.

### FailoverPair

Any number of nodes, each a `RoleMachine`, around one address that moves as `AddressMove` says.

| Variable | Code |
|---|---|
| `owner` | the node whose interface has `ENIIP`, or none |
| `verdict`, `decided` | what `CheckENIOwnership` has answered and `leaderElectionLoop` has not compared yet; the role it has decided to ask for and not sent yet (`Compare`, `Send`) |
| `watch` | how many heartbeat monitors a node runs, counted up to `MaxWatch` |
| `taking` | the node is between the unassign and the assign of `TakeOverENI` |
| `link` | the server that a connected client talks to |

A takeover has two halves between which others act, and may fail in each; nodes crash and restart at
any time and without bound, and a crash between the halves leaves the address unowned. A check that
fails changes nothing and is no action. That `NewServer` or `NewClient` fails is left to
`LeaderFaults`. Nobody sends heartbeats (`Heartbeat` has no caller), so silence is always possible.

### AddressMove

What `TakeOverENI` does to the address, whoever else runs it: it is taken from the place that has it
(`Detach`, or `Lose` when the answer to that is lost) and put to the node's own unless another node
was first (`Attach`), or nowhere (`GiveUp`: a request fails or the process dies). `FailoverPair` uses
it as the address of the pair; `ENITakeover` implements it, with `owner[ENIIP]` as the place and
`pc[n] = "assign"` as the half-way mark. That requires that the address is not one of those
`FilterFloatingIPs` keeps, by its last number, because `ReassignFloatingIPs` moves these by other
rules; `TakeoverRace` has an instance where it is one of them.

### ENITakeover

Any number of nodes, each of which may run `executeFailoverActions` against one EC2 account. Each
EC2 request is one action; it is answered, or it fails with or without having taken effect
(`FaultAborts`, `FaultInEIP`, `FaultInWork`; requests that only read: `FaultIgnored`), and a node may
crash between two requests. Route updates and the per-address goroutines of
`ReassignFloatingIPs` run in any order; the assign phase starts when the unassign phase is over.
`Locate` to `Verify` are `TakeOverENI`, `FindEIP` to `BindEIP` are `MoveEIPToENI` (whose errors are
ignored), `Identify` to `Finish` the rest of `executeFailoverActions`. Two requests in a row that
read facts no modelled action changes (the interface of an instance, the description of an
interface) are one action.

### FrpcCodec, NATState and StateSync

`FrpcCodec` has every message of `failover.frpc.go` with its `Encode` and `Decode`: an encoded message
is the list of items that `Encode` writes, nil and an error have forms of their own. What polyglot
makes of one item is left out, and so is the flags byte, which no code sets.

`NATState` holds the Go form of a NAT state, `client.NATState`, and the two conversions between it and
`FailoverNATState` field by field: `ToWire` is the second half of `SyncState`, `FromWire` that of
`syncFromPrimary`. A slice is a sequence; addresses, times and bitmaps are opaque texts; ports are
numbers, because `portUint32ToUint16` compares them; the nil pointer and the empty text are apart,
because the wire form cannot tell them apart.

`StateSync` copies the state of one conduit process to another one, the way either daemon does it.

| Variable | Code |
|---|---|
| `daemon`, `stopping` | `leader`: the sync loops of a secondary against the `SyncState` handler; `socket`: the one goroutine of type `Failover`; whether the context is cancelled |
| `version`, `copy` | which state of `History` the primary's conduit is in; the state of the secondary's |
| `applied`, `taken`, `asked` | which state `copy` is, which one the handler read, which one was current at the call: they let the properties speak of age |
| `connected` | whether the fRPC client has a connection |
| `pc`, `answer`, `pending` | where each loop is ("cut": in a call that its connection has left without an answer), the encoded response on its way, the converted state |
| `late`, `faults` | states whose call was given up after the 30 seconds of `createUnixSocketClient` and may still take effect; failed calls, bounded |

The fRPC client is dialled once for each term as a secondary (leader.go:437). A connection that was not
made or that broke (`Disconnect`) stays so, and every later call fails, until the node becomes
secondary anew (`Redial`). The log message at leader.go:440 and the comment at leader.go:441 promise
otherwise, "will retry during sync": no code does that.

There are several loops because `LeaderFailover` reaches states in which a daemon runs several
(`secondarySyncLoop` tests the role at its next tick only). What happens when the role changes during
a sync is a matter of `LeaderFailover` (`LeaderLateApply`).

### FrpcClient

One connection and one of the three methods, whose code differs in the messages only.

| Variable | Code |
|---|---|
| `next`, `inflight` | `nextX` and `inflightX` of the client, each under its mutex |
| `pc`, `id`, `channel`, `result` | where each call is, its packet id, its one-slot channel, what it returns |
| `ctxDone` | the context of the calls |
| `conn`, `cause` | the connection, and what `Error()` says of its end |
| `requests`, `answers`, `reading` | packets under way, and what the handler is about to put into a channel |

A step is what happens between two points where another goroutine can see it: the two mutexes, the
write, the select statement. The server answers each request at any later time or never; answers
come in any order. The `CLOSE` action is not apart from `Break`: no code sends it.

### Proof modules

Eight modules extend the module they are named after and hold the theorems: `RoleMachine_proofs`,
`AddressMove_proofs`, `LeaderFailover_proofs`, `FailoverPair_proofs`, `ENITakeover_proofs`,
`FrpcCodec_proofs`, `FrpcClient_proofs` and `StateSync_proofs`. What is proved of the two abstract
modules is proved once and carried over: `FailoverPair_proofs` extends `RoleMachine_proofs` and
instantiates `AddressMove_proofs` (`AP`), `LeaderFailover_proofs` instantiates the former (`RMP`) and
`ENITakeover_proofs` the latter (`MoveP`), each under its refinement mapping. The `MC` modules define
configurations, the two-node account, NAT states and symmetry sets for TLC. No module declares a
RECURSIVE operator.

## 3. What is assumed of the outside

- Every field is one machine word: a racy read returns a value that was stored.
- frisbee (external): a client that is unconnected or closed answers a call with an error; a
  connection that ends closes `Closed()`, and `Error()` is nil when it was closed on purpose; packets
  arrive whole; the client handles them one at a time, the server each on its own; `Start` on a server
  that was shut down, or on a port in use, returns an error; a panic in a handler is not recovered.
- EC2: an address is unassigned only from the interface that has it and assigned only when no
  other one has it (the code never sets `AllowReassignment`); an Elastic IP may or may not survive
  the removal of its private address. The ENI address is a secondary address. A request of a
  process that crashed is not answered later.
- conduit: a state that is set replaces the one before it as a whole; on a secondary, nothing else
  changes it. A failed call to set it may or may not have taken effect, and may take effect later.
- The time of a heartbeat is rounded down to a tick of `HeartbeatInterval`.

## 4. Runs

| Run | Bounds | What it shows |
|---|---|---|
| `LeaderLoops` | production mode with threshold 2, two monitors, two pending server goroutines; 386 thousand states | in production mode, a role is backed by its resources between transitions (`RoleHasResources`); a secondary is watched over even when failover requests are dropped (`SecondaryIsMonitored`); a heartbeat is accepted only within a promotion (`HeartbeatOnlyDuringPromotion`); the shared miss counter is never ahead of the silence by more than the number of monitors (`MissesFollowSilence`); a secondary that hears nothing takes over (`SilenceLeadsToTakeover`); a monitor that outlives its term ends, or the term as primary does (`StrayMonitorsEnd`) |
| `LeaderFaults` | test mode (threshold 2), one monitor, one sync loop, one server goroutine, interrupts and failing transitions; 3.2 million states | types; server and client are never held together (`OneEndOnly`); a listening server is forgotten only by a race during shutdown (`NoServerLeaked`); a role is stored only when set up (`StoredRoleIsSetUp`); in spite of all that the daemon is a role machine (`ImplementsRoleMachine`) |
| `FailoverPair` | two nodes, one of them fair; one monitor each is followed; crashes, restarts and failed takeovers without bound; 760 thousand states | only a primary, or a node about to store that role, serves (`OnlyPrimaryServes`); a secondary pulls from such a node and never from itself (`PullsFromPrimary`); a primary that lost the address steps down (`SomeOvertakenStepsDown`); the owner of the address comes to serve (`SomeOwnerServes`) |
| `TakeoverTurns` | two nodes, three interfaces, two floating addresses, two tables, two faults, one takeover at a time | a success means ownership of the address and the routes, without faults of everything (`SuccessMeansOwnership`); without faults there is no failure (`SoloSucceeds`); the address moves as in `AddressMove` (`ImplementsMove`); 879 thousand states |
| `TakeoverRace` | two nodes, three interfaces, the ENI address among two floating ones, no tables, no faults, any overlap; 387 thousand states | an address without interface is always about to be assigned (`NoLossWithoutFault`) and gets one (`LossIsTransient`); one node at a time is between unassign and assign and finds the address free, though nothing but the refusal of EC2 keeps them apart (`OnlyOneMoves`) |
| `StateSync` | two loops of the leader or the one socket loop, three states that differ in every field and reach both ends of the port range, two changes, two failures (of a call or of the connection), one late effect; 76 thousand states | a secondary that has synced holds one complete state of the primary, unharmed by encoding and conversions (`CopyIsPrimaryState`); no loop applies a state older than its call (`NothingOlderThanCall`); once the primary is quiet, the secondary has its state for good, as long as its connection lasts (`CatchesUp`); after `Stop` every loop ends (`StopEnds`) |
| `FrpcCalls` | three calls, two packet ids, so that ids wrap; 126 thousand states | a call gets its own answer, unless the counter has wrapped (`OwnAnswer`); an entry is left behind only by a connection that ends (`NoStaleEntry`); a waiting call is found in the table (`WaitingIsRegistered`); the handler never waits (`ReaderIsFree`); an answered call returns (`AnsweredCallReturns`), and every call ends with its connection or context (`EveryCallEnds`) |
| `LeaderStopTwice`, `LeaderLateApply`, `TakeoverUnowned`, `TakeoverSplit`, `PairPingPong` | smallest instances | the findings of section 6 |

Why the bounds are enough. Two monitors are the first number at which one can be orphaned and share the
counter with another; the proofs cover any number. A threshold of 2 is the first at which a miss is
neither none nor all, and the first at which two monitors reach it by one miss each. Two server
goroutines are the first number at which one may start the server of a later promotion. When all slots
for monitors or server goroutines are used, the role manager waits for one, so that no transition is cut
short; a sync loop beyond its slots is not followed. In `FailoverPair` a monitor beyond `MaxWatch` is
not counted, and the pair's role manager never waits for one to end. For takeovers, two nodes are what
the product has; the third interface is one that belongs to neither; in `TakeoverRace` it lets both
nodes start from an address that neither has. Two faults allow a fault while recovering from one. Two
sync loops are the first number at which one overtakes another, two changes the first at which an
overtaken loop holds neither the first nor the current state, two failures the first at which both loops
have met one; the proofs cover any number of both and every NAT state. Three calls and two ids are the
least at which a call gets the id of one that is still waiting while a third one is between them; where
the wrap changes a property, the property names it, and the proofs cover 2^16 ids and any number of
calls. In `FailoverPair`, a second monitor would only add requests that are dropped or have the effect
of the first; the safety properties are proved for any number. Its liveness properties are checked of
one node, because the nodes are interchangeable and the property of the other is the same under a
permutation of the model; that node alone is assumed to be fair.

Monitors that outlive their term. "Stop any existing heartbeat monitoring" (leader.go:407) is more than
the code does. The close reaches only a monitor that waits on the current channel: one that is between
two waits finds the field nil the next time round, and one from an earlier term whose channel was
overwritten waits on a channel that stays open for good. Both are in the model and both go on counting
misses on a primary. What holds, and is checked, is that each of them ends after at most one request
(`StrayMonitorsEnd`) and that the shared counter stays bounded all the same (`MissesFollowSilence`).

Deadlock is checked in every run: a process that panicked stutters, and tickers never stop.

## 5. Fairness

`LeaderFailover!FairSpec`: the Go scheduler runs the role manager, each monitor and the server
goroutines whenever they can run, and tickers keep firing. Nothing is assumed of the election
loop, of EC2's answers, or of the callers of the handlers. `ENITakeover!FairSpec`: a node that can
take a fault-free step takes one in the end: requests are answered, and nodes keep taking over,
as the election and monitor loops make them. `MCFailoverPair!FairPairSpec`: of the one node that
the property is about, something of its election loop and its monitors that can go on does in the end, EC2's
answer included, and something of its role manager and its server goroutine; that is less than the
scheduler and the tickers give. Nothing is assumed of the other node, which may stop anywhere, nor of
crashes, and a node that crashed need not come back. `FrpcClient!FairSpec`: goroutines
that can run do, and packets that have arrived are handled; nothing makes the server answer, a context
end or the connection close.

`StateSync!FairSpec`: the ticker of a loop keeps firing. As long as nobody stops the daemon, conduit and
the primary answer on a connection that is there; that calls succeed in the end follows from the bound
on failures alone. Once the daemon is stopped nobody is assumed to answer: a call returns because its
context has ended (or its connection has), which is all that `StopEnds` rests on, and without the
context in the call it fails (`CallFails_NoContext`). Leaving is strongly fair, since a select statement
chooses at random among what is ready and does not overlook a context that is done for ever. Nothing
makes the primary change, and nothing makes a connection that is gone come back, so `CatchesUp` claims
nothing of a secondary without one.

## 6. Findings

Each has a run that finds the counterexample.

- `LeaderStopTwice`: `Start` closes `stopCh` when the context ends and the deferred `Stop` closes it
  again: a graceful shutdown cleans up once, in `Start`, and then ends in a panic.
- `LeaderLateApply`: a NAT state requested as secondary is applied after the node became primary.
- `TakeoverUnowned`: when the assign after the unassign fails, the ENI address is on no interface and
  the first call of every later takeover fails.
- `TakeoverSplit`: of two overlapping takeovers, the one that lost the address may update the routes
  last; both report success.
- `PairPingPong`: no primary sends heartbeats and none would accept one (`Heartbeat` has no caller and
  is refused by a primary), so in a settled pair the secondary asks for promotion, the primary steps
  down, and so on in turn. With the default configuration the silence of 3 x 40 ms is over long
  before the first sync tick at 10 s.

Four more outcomes are part of the model without a run that refutes a claim. They are hazards of
`PROJECT.json`.

- `syncFromPrimary` tests `frpcClient` and reads it again for the call, while `cleanup` clears it
  (`panic = "nilClient"`).
- `cleanup` closes the client under a call, which may then return neither a response nor an error
  (failover.frpc.go:1124), and leader.go:516 reads the response (`panic = "nilResponse"`). Whether it does
  depends on frisbee's `Error()` after `Close`.
- A promotion that fails in `NewServer` leaves a secondary without monitor, which the election loop skips
  (`TransitionFails`).
- The connection to the primary is not retried, although leader.go:441 says "we'll retry connection
  during sync attempts". After a failed dial or a broken connection the secondary keeps the tables it has,
  however old, until its role changes. `CatchesUp` would be false without its exception for that case:
  with `connected` false from the start, as `Init` allows, no loop ever gets an answer.

## 7. Proofs

For every value of the constants (any threshold, any set of monitors, sync loops, nodes,
interfaces, addresses and tables; any bounds):

| Theorem | States | Argument |
|---|---|---|
| `RoleMachine_proofs!MachineServesAsPrimary` | `OnlyPrimaryServes` of any role machine | `RoleInv`: what each phase has cleared and set up |
| `AddressMove_proofs!LostForGood` | an address that is nowhere, in nobody's hands, stays there | no action assigns what no node has taken away |
| `MoveIsExclusive` | one node at a time has the address in its hands, and then it is nowhere else | `HandInv`: `Detach` needs an owner, and there is none while somebody holds it |
| `LeaderFailover_proofs!ValidatedConfigIsUsable` | a configuration that `Validate` accepts comes out usable, is accepted again and unchanged | field by field |
| `TypeCorrect` | `TypeOK` | inductive as it stands |
| `NeverBothEnds` | `OneEndOnly` | `EndsInv` adds where the manager is: it is inside `cleanup` only while it cleans, the client is gone before a server is created, the server before a client |
| `NoLeakWhileRunning` | `NoServerLeaked` | `RunInv`: before shutdown only the manager cleans up, so what it clears it has shut down |
| `RoleTellsResources`, `SecondaryIsWatched` | two invariants of `LeaderLoops`, provided transitions do not fail | `RestInv` ties role, server, client, stop channel and monitors together at each point of a transition |
| `HeartbeatsOnlyInTheGap` | `HeartbeatOnlyDuringPromotion`, also when transitions fail | `GapInv`: a node that is not primary has no server but in the last two steps of a promotion |
| `MissesAreBounded` | `MissesFollowSilence`, for finitely many monitors | `MissInv` counts the ticks not noticed yet as misses |
| `RoleStoredWhenSetUp` | `StoredRoleIsSetUp` | `RunInv` at the program point before the assignment |
| `DaemonIsRoleMachine` | `ImplementsRoleMachine`, with the comparison and the request of the election as separate steps | `DaemonStep`: each step is a step of `RoleMachine` or none that shows; `DownStaysDown` and `Unseen` for a process that is going down |
| `DaemonServesAsPrimary` | `OnlyPrimaryServes` of the daemon, under the mapping | `MachineServesAsPrimary` through the refinement |
| `OnlyTheseKill` | before shutdown a panic is one of four: a server goroutine or a sync loop that finds a pointer cleared, a sync loop whose call was cut off, `HealthCheck` in test mode; if transitions do not fail, the first two need a role that was left or is being left; a call is cut off only while a transition cleans up | `RunInv` for the nil tests of `cleanup`, `RestInv` for what a node at rest holds, `CutStep` for the calls |
| `EveryStopPanics` | a shutdown that gets to its end has panicked | `ClosedInv`: `Start` has closed the channel before `Stop` does |
| `LateAppliesEnd` | while the node is not a secondary, the loops inside a sync only become fewer, and one that applies a state is done: each applies at most one more | only `SyncTick` begins a sync, and it tests the role (`SyncStays`) |
| `TransitionsEnd` | a request is followed by at most nine steps of its transition: each step of the manager lowers `TransitionLeft`, and nobody else changes it | `EndsInv`: the manager is inside `cleanup` only while it cleans |
| `FailoverPair_proofs!PairTypeCorrect` | `PairTypeOK` | inductive |
| `ServersArePrimary` | `OnlyPrimaryServes` | `MachineServesAsPrimary`, since the steps of the pair are built from those of `RoleMachine` (lemma `PairIsRoleMachine`) |
| `StateComesFromPrimary` | `PullsFromPrimary` | `LinkInv`: a link leads from a client to a server of another node that is up |
| `PairMovesAddress`, `OneTakesAtATime` | the address moves as in `AddressMove`, a crash being a `GiveUp`; so one node takes it at a time | step by step, then `MoveIsExclusive` |
| `LostAddressIsolates` | a lost address stays lost, and from then on nobody connects | `LostForGood`; only `Demote` connects, to the owner |
| `SecondariesAreWatched` | a secondary at rest has a monitor or a request queued | `WatchInv`: a monitor starts before the role is stored and leaves a request behind when it goes |
| `OnlyMonitorsDisturb` | in a settled pair only monitors ask for a role, and every secondary runs one | `SecondariesAreWatched`, and no verdict is left to act on |
| `ENITakeover_proofs!TypeCorrect` | `TypeOK` | inductive as it stands |
| `NothingLostWithoutFault` | `NoLossWithoutFault` | `LossInv` adds that an address still to be unassigned is still to be assigned |
| `SoloTakeoversSucceed`, `SuccessIsOwnership` | `SoloSucceeds`, `SuccessMeansOwnership` | `OwnInv`: only one node is at work, it has the address from `verify` on, and its finished routes are its own; `SoloInv`: without faults, which place each address is in at each point of the takeover |
| `SoloRoutesFollow` | `RoutesFollowENIIP`, if takeovers do not overlap and routes are managed | `OwnInv`: the step that reports success has the address and the routes, and no other node moves them |
| `TakeoverIsAddressMove` | `ImplementsMove`, if the address is not a floating one; takeovers may overlap | `AimsElsewhere`: a node that is about to unassign has compared the interfaces |
| `OneNodeMovesAtATime`, `StrandedForGood` | `OnlyOneMoves`; an address that nobody has and nobody is about to assign is never assigned again | the two theorems about `AddressMove` through the refinement, hence the same hypothesis |
| `TakeoversEnd` | a takeover has at most `MaxScan + 8` steps to make, and every step starts one or brings exactly one closer to its end | the rank `Left`: the program point, then the work that is left; `MaxScan` is 2 for each floating address and each table, 1 for each interface, and 4 |
| `FrpcCodec_proofs!StateRoundTrip` | decoding an encoded NAT state gives it back, tables of any length | message by message |
| `RequestsArrive`, `ResponsesArrive` | the messages of the three methods come out as they went in; a response with an error comes out as that error and nothing else | field by field, with `StateRoundTrip` for the state inside |
| `StateSync_proofs!ConversionIsFaithful`, `SyncIsFaithful` | the conversions, alone and over the codec, change nothing but an empty `DestinationIP` | ports fit (`PortsFit`), an entry, a bitmap and a table come back as they were; then `StateRoundTrip` |
| `StateSync_proofs!TypeCorrect` | `TypeOK` | inductive, with `SyncIsFaithful` for the step that converts |
| `CopyIsSound`, `NothingOlder` | `CopyIsPrimaryState`, `NothingOlderThanCall` | `SyncInv`: what is on its way to a loop, or waits to take effect late, is the state the handler read, no earlier than the call |
| `OnlyLateOrOvertaken` | a secondary goes back to an older state only by a late effect or by a loop that was overtaken | `NothingOlder`, at the step that applies |
| `OneLoopKeepsOrder` | a loop that is alone goes back only by a late effect | `AloneInv`: nothing newer than a call is there, or waits to take effect, while the call is under way |
| `CaughtUpForGood` | a secondary that has caught up, with nothing older under way, stays so until the primary changes | `Settled` is kept by every other step |
| `FrpcClient_proofs!TypeCorrect` | `TypeOK` | part of `IInv` |
| `AnswersAreOwn`, `ReaderStaysFree`, `TableDoesNotGrow`, `AnswersFindTheirCall` | `OwnAnswer`, `ReaderIsFree`, `NoStaleEntry`, `WaitingIsRegistered` | `IInv`: calls are numbered in the order of their ids, a packet and a channel bear the id of their call, each request is answered at most once |
| `OnlyOwnCloseIsSilent` | a call without an error returns an answer, unless its own side closed the connection | what closed the connection does not change; the other ways out carry an error |

None of the invariants above, the types apart, is inductive alone. `OneEndOnly` says nothing of
where the manager is, and a step that creates a server preserves it only because `cleanup` has just
removed the client. `~TransitionErrors` is necessary for the group it is assumed of: a failed
transition leaves a secondary without resources and without monitor.

The hypothesis that the ENI address is not a floating one (`ENIIP \notin FloatingIPs`), which
`TakeoverIsAddressMove` and its two corollaries have, is needed: with three nodes and an ENI address that
`FilterFloatingIPs` keeps, `ReassignFloatingIPs` of one node assigns the address while another one is
between the halves of its move, and TLC finds `OnlyOneMoves` violated. With two nodes it holds, which
is what `TakeoverRace` checks.

Several theorems explain what the runs of section 6 find: `EveryStopPanics` that `LeaderStopTwice` is no
accident of timing, `StrandedForGood` that the address of `TakeoverUnowned` does not come back,
`SoloRoutesFollow` that `TakeoverSplit` needs an overlap, `OnlyMonitorsDisturb` that the monitors are
what ends the calm in `PairPingPong`, `LateAppliesEnd` that `LeaderLateApply` happens once for each loop
at most. Others are the safety half of a liveness property, the part in which fairness has no say:
`SecondaryIsWatched` and `TransitionsEnd` for `SilenceLeadsToTakeover`, `SecondariesAreWatched` for
`SomeOwnerServes`, `CaughtUpForGood` for `CatchesUp`, `TakeoversEnd` for `LossIsTransient`.

The assumptions are the named `ASSUME`s of the modules, which TLC evaluates in the runs, and the
hypotheses that a theorem states.

Model-checked only: the liveness properties (`SilenceLeadsToTakeover`, `StrayMonitorsEnd`,
`LossIsTransient`, `CatchesUp`, `StopEnds`, `AnsweredCallReturns`, `EveryCallEnds`,
`SomeOvertakenStepsDown`, `SomeOwnerServes`), since the prover has neither fairness nor ENABLED. Every
invariant and action property of the passing runs has its theorem.

## 8. Plan

Done: the daemon and its loops, the takeover, the exchange of NAT states, the role machine and its
refinement, the pair, the two halves of a takeover and their refinement, the fRPC client and codec, the
socket failover, the configuration; theorems for every safety property, for the abstract modules and
their transfer to what implements them, and for the causes of the findings.

Left to prove: the rank of a call of `FrpcClient`, as `TakeoversEnd` is for a takeover and
`TransitionsEnd` for a transition.

Left to model: initial states of `ENITakeover` in which floating addresses are spread over two
interfaces, which the loop at `leader.go:889` does not gather. Faults lead to such states already, and
`SuccessMeansOwnership` promises the floating addresses without faults only.

## 9. Not modelled

- Formatting, logging, printing, and the cobra plumbing of the command.
- `internal/config`: reads and validates a file once; the failover command does not use it.
- The request building and JSON decoding of the generated HTTP client, which keep no state.
- Streams, flags and the `CLOSE` action of the generated fRPC code, which nothing uses, and how
  polyglot encodes a single item.
- `GetENIOwner` and `WaitForENIOwnership` of `aws.go`, which nothing calls.
- Terraform and the example units, except that a process that ended is started anew.
- The conduit data plane, whose source is not in the repository.
