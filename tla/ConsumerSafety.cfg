SPECIFICATION Spec
CONSTANTS
  Procs = {p1, p2}
  None = None
  Ghost = Ghost
  MaxMsgs = 2
  MaxFaults = 2
  MaxSignals = 2
INVARIANTS TypeOK NothingSkipped RepeatsExplained StopIsFinal CleanReturn
SYMMETRY Symmetry
