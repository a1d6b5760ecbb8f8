SPECIFICATION Spec
CONSTANTS
  s1 = s1
  s2 = s2
  Starts = {s1, s2}
  th1 = th1
  Threads = {th1}
  None = None
  MaxGeneration = 2
  TurnOutcomes = {"completed"}
  IdleFirst = {FALSE, TRUE}
  Faults = {"drop", "close", "timeout", "probe"}
  MaxFaults = 1
SYMMETRY Symmetry
INVARIANTS TypeOK OutcomeHasReason EndIsAttended
PROPERTIES ImplementsCallback
CHECK_DEADLOCK FALSE
