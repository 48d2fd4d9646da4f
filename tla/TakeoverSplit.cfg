\* Routes and ENIIP end on different nodes.
CONSTANTS
  n1 = n1
  n2 = n2
  e1 = e1
  e2 = e2
  f1 = f1
  t1 = t1
  vip = vip
  None = None
  Nodes = {n1, n2}
  ENIs = {e1, e2}
  MyENI <- TwoNodes
  ENIIP = vip
  FloatingIPs = {f1}
  Tables = {t1}
  DestinationCIDR = TRUE
  Overlapping = TRUE
  MaxFaults = 0
SPECIFICATION Spec
INVARIANTS RoutesFollowENIIP
