SPECIFICATION Spec
CONSTANTS
  s1 = s1
  Starts = {s1}
  th1 = th1
  Threads = {th1}
  None = None
  MaxGeneration = 2
  TurnOutcomes = {"completed"}
  IdleFirst = {FALSE}
  Faults = {"drop"}
  MaxFaults = 1
INVARIANTS StartsAttached
CHECK_DEADLOCK FALSE
