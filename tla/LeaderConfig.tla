----------------------------- MODULE LeaderConfig -----------------------------
(***************************************************************************)
(* The configuration of a failover daemon: LeaderConfig.Validate of        *)
(* pkg/failover/leader.go, which refuses a configuration or completes it.  *)
(* cmd/failover calls it before the command runs, NewLeaderFailover calls  *)
(* it again.  Durations are in milliseconds; an address is one that        *)
(* net.ParseIP accepts ("address"), another name, or missing.              *)
(***************************************************************************)
EXTENDS Integers

RoleStringPrimary   == "primary"
RoleStringSecondary == "secondary"
Missing == ""

\* What flags can say: durations and the threshold may have any sign.
Names(c) ==
  /\ c.ENIIP \in {Missing, "name", "address"} /\ c.LocalSocket \in {Missing, "socket"}
  /\ c.ForceRole \in {Missing, "other", RoleStringPrimary, RoleStringSecondary}
Times(c) ==
  /\ c.LeaderCheckInterval \in Int /\ c.SyncInterval \in Int
  /\ c.HeartbeatInterval \in Int /\ c.HeartbeatMissThreshold \in Int
RawConfig(c) == Names(c) /\ Times(c) /\ c.DisableENICheck \in BOOLEAN /\ c.Port \in Nat

Refused(c) ==
  \/ c.ENIIP = Missing
  \/ ~c.DisableENICheck /\ c.ENIIP # "address"
  \/ c.LocalSocket = Missing
  \/ c.ForceRole \notin {Missing, RoleStringPrimary, RoleStringSecondary}

OrDefault(value, default) == IF value <= 0 THEN default ELSE value

\* What Validate leaves in a configuration that it accepts.
Completed(c) == [
  ENIIP                  |-> c.ENIIP,
  Port                   |-> IF c.Port = 0 THEN 1022 ELSE c.Port,
  LocalSocket            |-> c.LocalSocket,
  LeaderCheckInterval    |-> OrDefault(c.LeaderCheckInterval, 30000),
  SyncInterval           |-> OrDefault(c.SyncInterval, 10000),
  HeartbeatInterval      |-> OrDefault(c.HeartbeatInterval, 40),
  HeartbeatMissThreshold |-> OrDefault(c.HeartbeatMissThreshold, 3),
  DisableENICheck        |-> c.DisableENICheck,
  ForceRole              |-> c.ForceRole]
=============================================================================
