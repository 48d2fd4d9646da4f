\* Both nodes at once, no failures; the address may be with a node that is gone.
CONSTANTS
  n1 = n1
  n2 = n2
  e1 = e1
  e2 = e2
  e3 = e3
  f1 = f1
  vip = vip
  None = None
  Nodes = {n1, n2}
  ENIs = {e1, e2, e3}
  MyENI <- TwoNodes
  ENIIP = vip
  FloatingIPs = {f1, vip}
  Tables = {}
  DestinationCIDR = FALSE
  Overlapping = TRUE
  MaxFaults = 0
SPECIFICATION FairSpec
INVARIANTS NoLossWithoutFault OnlyOneMoves
PROPERTIES LossIsTransient
