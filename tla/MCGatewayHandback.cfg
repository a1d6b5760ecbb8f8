SPECIFICATION Spec
CONSTANTS
  s1 = s1
  th1 = th1
  r1 = r1
  r2 = r2
  t1 = t1
  t2 = t2
  q1 = q1
  q2 = q2
  c1 = c1
  c2 = c2
  None = None
  Sessions = {s1}
  Threads = {th1}
  Runs = {r1}
  Turns = {t1, t2}
  Requests = {q1, q2}
  Callers = {c1}
  Operations = {"start", "interrupt", "handoff", "reclaim", "put", "putMinimal"}
  TurnOutcomes = {"completed", "interrupted"}
  Announcements = {FALSE}
  Faults = {"timeout"}
  MaxFaults = 1
  MaxGeneration = 3
  RecentLimit = 2
PROPERTIES GenerationCountsEveryChange
CHECK_DEADLOCK FALSE
