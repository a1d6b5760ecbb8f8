SPECIFICATION Spec
CONSTANTS
  Requests = {r1, r2}
  Threads = {t1}
  ThreadOf <- OneThread
  Permissions = {r1}
  Callers = {c1, c2}
  Faults = {"drop", "crash", "interrupt"}
  MaxFaults = 1
INVARIANTS TypeOK EffectIsRecorded StaysAnswerable WaitingHasRequest BoardSettles
SYMMETRY Symmetry
CHECK_DEADLOCK FALSE
