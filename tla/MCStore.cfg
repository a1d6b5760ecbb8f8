SPECIFICATION Spec
CONSTANTS
  p1 = p1
  p2 = p2
  k1 = k1
  k2 = k2
  k3 = k3
  d1 = d1
  d2 = d2
  r1 = r1
  r2 = r2
  a1 = a1
  Runs = {r1, r2}
  Approvals = {a1}
  Devices = {d1, d2}
  Processes = {p1, p2}
  Threads = {k1, k2, k3}
  Main <- Starter
  ProcessOf <- Owner
  DeviceOf <- Place
  Legacy <- OldFile
  FirstDisk <- SomeDisks
  Faults = {"disk", "crash"}
  MaxFaults = 1
  MaxCommits = 4
INVARIANTS TypeOK ReadIsCommitted ServesPlaced
PROPERTIES ImplementsBoard
CHECK_DEADLOCK FALSE
