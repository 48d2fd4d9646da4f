\* Two nodes, and what a comment says of heartbeats.
CONSTANTS
  Nodes = {n1, n2}
  MaxWatch = 1
  None = None
  n1 = n1
  n2 = n2
SPECIFICATION PairSpec
PROPERTIES SettledPairStays
