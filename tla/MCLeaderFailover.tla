-------------------------- MODULE MCLeaderFailover --------------------------
(* Instances of LeaderFailover for TLC, one per configuration. *)
EXTENDS LeaderFailover

\* The flags that Validate requires, the others at zero.
Required == [
  ENIIP |-> "address", Port |-> 1022, LocalSocket |-> "socket",
  LeaderCheckInterval |-> 0, SyncInterval |-> 0, HeartbeatInterval |-> 0,
  HeartbeatMissThreshold |-> 0, DisableENICheck |-> FALSE, ForceRole |-> Missing]

\* The default threshold of three, thresholds of two and of one, and the test
\* mode with a threshold of two and no role forced.
Defaults  == Required
Brisk     == [Required EXCEPT !.HeartbeatMissThreshold = 2]
Impatient == [Required EXCEPT !.HeartbeatMissThreshold = 1]
TestMode  == [Required EXCEPT !.ENIIP = "name", !.HeartbeatMissThreshold = 2, !.DisableENICheck = TRUE]
=============================================================================
