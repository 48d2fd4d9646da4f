\* Test mode with a forced role, failing transitions, and shutdown at any moment.
CONSTANTS
  Config <- TestMode
  Monitors = {m1}
  Syncs = {s1}
  MaxStarters = 1
  MayInterrupt = TRUE
  TransitionErrors = TRUE
  m1 = m1
  s1 = s1
SPECIFICATION Spec
INVARIANTS TypeOK OneEndOnly NoServerLeaked
PROPERTIES StoredRoleIsSetUp ImplementsRoleMachine
