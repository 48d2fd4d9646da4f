\* Two nodes that fail and come back at any time.
CONSTANTS
  Nodes = {n1, n2}
  MaxWatch = 1
  None = None
  n1 = n1
  n2 = n2
SPECIFICATION FairPairSpec
INVARIANTS PairTypeOK OnlyPrimaryServes PullsFromPrimary
PROPERTIES SomeOvertakenStepsDown SomeOwnerServes
