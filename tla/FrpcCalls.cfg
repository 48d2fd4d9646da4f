\* Three calls and two packet ids: the counter wraps.
CONSTANTS
  Text = {1, 2, 3, Failure}
  Blank = Blank
  Null = Null
  Failure = Failure
  IdSpace = 2
  MaxCalls = 3
  Method = "Heartbeat"
  Refused = {2}
SPECIFICATION FairSpec
INVARIANTS TypeOK OwnAnswer NoStaleEntry WaitingIsRegistered ReaderIsFree
PROPERTIES AnsweredCallReturns EveryCallEnds
