\* Start and the deferred Stop both close stopCh.
CONSTANTS
  Config <- Defaults
  Monitors = {m1}
  Syncs = {}
  MaxStarters = 1
  MayInterrupt = TRUE
  TransitionErrors = FALSE
  m1 = m1
SPECIFICATION Spec
INVARIANTS StopIsGraceful
