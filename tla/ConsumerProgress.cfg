SPECIFICATION FairSpec
CONSTANTS
  Procs = {p1, p2}
  None = None
  Ghost = Ghost
  MaxMsgs = 2
  MaxFaults = 1
  MaxSignals = 0
PROPERTY EveryMessageHandled
