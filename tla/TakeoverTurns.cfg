\* Takeovers one at a time; requests may fail.
CONSTANTS
  n1 = n1
  n2 = n2
  e1 = e1
  e2 = e2
  e3 = e3
  f1 = f1
  f2 = f2
  t1 = t1
  t2 = t2
  vip = vip
  None = None
  Nodes = {n1, n2}
  ENIs = {e1, e2, e3}
  MyENI <- TwoNodes
  ENIIP = vip
  FloatingIPs = {f1, f2}
  Tables = {t1, t2}
  DestinationCIDR = TRUE
  Overlapping = FALSE
  MaxFaults = 2
SPECIFICATION Spec
SYMMETRY Alike
INVARIANTS TypeOK SoloSucceeds
PROPERTIES SuccessMeansOwnership ImplementsMove
