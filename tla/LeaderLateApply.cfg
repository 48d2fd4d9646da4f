\* A sync answered after the promotion.
CONSTANTS
  Config <- Impatient
  Monitors = {m1}
  Syncs = {s1}
  MaxStarters = 1
  MayInterrupt = FALSE
  TransitionErrors = FALSE
  m1 = m1
  s1 = s1
SPECIFICATION Spec
PROPERTIES AppliedBySecondaryOnly
