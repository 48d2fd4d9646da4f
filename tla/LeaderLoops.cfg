\* Production mode, no shutdown: every interleaving of the loops.
CONSTANTS
  Config <- Brisk
  Monitors = {m1, m2}
  Syncs = {}
  MaxStarters = 2
  MayInterrupt = FALSE
  TransitionErrors = FALSE
  m1 = m1
  m2 = m2
SPECIFICATION FairSpec
INVARIANTS RoleHasResources SecondaryIsMonitored HeartbeatOnlyDuringPromotion MissesFollowSilence
PROPERTIES SilenceLeadsToTakeover StrayMonitorsEnd
