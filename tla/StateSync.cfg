\* Two loops, two changes of the primary's state, two failed calls.
CONSTANTS
  a = a
  b = b
  l1 = l1
  l2 = l2
  Text = {a, b}
  Blank = Blank
  Null = Null
  Loops = {l1, l2}
  SocketLoop = l1
  History <- SomeStates
  MaxFaults = 2
  MaxLate = 1
  Fresh <- NoTables
SPECIFICATION FairSpec
INVARIANTS TypeOK CopyIsPrimaryState
PROPERTIES NothingOlderThanCall CatchesUp StopEnds
