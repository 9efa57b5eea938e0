SPECIFICATION Spec
CONSTANTS
  Procs = {p1, p2}
  None = None
  Ghost = Ghost
  MaxMsgs = 1
  MaxFaults = 1
  MaxSignals = 1
PROPERTY StopReturns
