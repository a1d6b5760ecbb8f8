SPECIFICATION Spec
CONSTANTS
  s1 = s1
  th1 = th1
  r1 = r1
  r2 = r2
  t1 = t1
  t2 = t2
  q1 = q1
  q2 = q2
  c1 = c1
  c2 = c2
  None = None
  Sessions = {s1}
  Threads = {th1}
  Runs = {r1}
  Turns = {t1, t2}
  Requests = {q1}
  Callers = {c1}
  Operations = {"start"}
  TurnOutcomes = {"completed"}
  Announcements = {FALSE}
  Faults = {"disconnect"}
  MaxFaults = 1
  MaxGeneration = 3
  RecentLimit = 2
INVARIANTS TerminalRunHasNoRunningTurn
SYMMETRY Symmetric
CHECK_DEADLOCK FALSE
