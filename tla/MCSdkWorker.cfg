SPECIFICATION Spec
CONSTANTS
  Run = r1
  MaxEvents = 4
  MaxInterrupts = 1
  Faults = {"reader_join_timeout", "exit_timeout", "spawn", "crash"}
INVARIANTS TypeOK ToldIsFirstFact RejectedHasNotStarted
PROPERTIES ImplementsCallback DeadIsSettled
CHECK_DEADLOCK FALSE
