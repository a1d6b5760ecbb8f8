------------------------- MODULE SqliteGatewayStore -------------------------
(***************************************************************************)
(* better_subagent/storage.py: the board in three tables of an SQLite      *)
(* database, with the threads of several Gateway processes, failing writes, *)
(* and processes that die at any point.  And what GatewayService does with *)
(* it when it starts (_ensure_local_device_projection).                    *)
(*                                                                         *)
(* SQLite is external: one connection at a time holds the write lock, from *)
(* BEGIN IMMEDIATE to COMMIT or ROLLBACK; what it writes is seen by others *)
(* after COMMIT; a reading transaction sees the database as it was at its  *)
(* first SELECT; a connection that closes without COMMIT leaves nothing.   *)
(***************************************************************************)
EXTENDS FiniteSets, Naturals

CONSTANTS
  Runs, Approvals, Devices,
  Legacy,       \* the board in the old JSON file, as in Board
  Processes,
  DeviceOf,     \* the device of each process
  Threads, Main,\* the threads, and the one that starts each process
  ProcessOf,    \* the process of each thread
  FirstDisk,    \* the database before the first process starts
  MaxCommits,   \* bound: how many changes of the board are committed
  Faults, MaxFaults \* bound: how many faults of kinds Faults happen

AllFaults == {"disk", "crash"}

VARIABLES
  disk,     \* what is committed: board, migrated, version, devices, agents,
            \* and broken: the old file is not valid
  writer,   \* the thread whose connection holds the write lock, or None
  mutex,    \* mutex[p]: the thread that holds _thread_lock, or None
  phase,    \* phase[p]: how far the process p is with its start
  thread,   \* thread[k]: where k is, with its task and its copies
  past,     \* the boards that were ever committed; read by no step
  commits, faults

vars == <<disk, writer, mutex, phase, thread, past, commits, faults>>

Stored == INSTANCE Board WITH
  board    <- disk.board,
  migrated <- disk.migrated

None == "none"

Disks == [board : Stored!Boards, migrated : BOOLEAN, version : {None, "1", "2", "3"},
          devices : SUBSET Devices, agents : SUBSET Devices, broken : BOOLEAN]

ASSUME ConstantsAssumption ==
  /\ None \notin Processes \cup Threads \cup Runs \cup Devices
  /\ ProcessOf \in [Threads -> Processes] /\ DeviceOf \in [Processes -> Devices]
  /\ Main \in [Processes -> Threads] /\ \A p \in Processes : ProcessOf[Main[p]] = p
  /\ Legacy \subseteq Stored!Boards /\ FirstDisk \subseteq Disks
  /\ Faults \subseteq AllFaults /\ MaxFaults \in Nat /\ MaxCommits \in Nat

Tasks ==
  [what : {"start"}, of : Runs] \cup [what : {"approval"}, of : Approvals] \cup
  [what : {"end", "fill", "migrate"}, of : {None}]

ThreadStates ==
  [pc : {"idle"}, result : SUBSET Stored!Boards]
    \cup [pc : {"begin"}, task : Tasks]
    \cup [pc : {"sessions", "runs", "approvals", "commit"}, task : Tasks,
          work : Stored!Boards, written : Stored!Boards]
    \cup [pc : {"read runs", "read approvals"}, snapshot : Stored!Boards, view : Stored!Boards]

\* Mutant: what was read is not returned.
IdleBare == [pc |-> "idle"]

Idle == [pc |-> "idle", result |-> {}]

\* Mutant: the lock is not asked for until something is written.
MayBeginDeferred(k) == TRUE

\* BEGIN IMMEDIATE
MayBegin(k) == writer = None

TypeOK ==
  /\ disk \in Disks
  /\ writer \in Threads \cup {None}
  /\ mutex \in [Processes -> Threads \cup {None}]
  /\ phase \in [Processes -> {"down", "migrate", "device", "agent", "fill", "up"}]
  /\ thread \in [Threads -> ThreadStates]
  /\ past \subseteq Stored!Boards
  /\ commits \in 0..MaxCommits /\ faults \in 0..MaxFaults

-----------------------------------------------------------------------------
Goto(k, pc) == thread' = [thread EXCEPT ![k].pc = pc]

\* A main thread that leaves its task with a failure takes its process down.
Failed(k) ==
  LET p == ProcessOf[k]
  IN  IF phase[p] = "up" THEN phase ELSE [phase EXCEPT ![p] = "down"]

\* What follows a task in the start of a process.
Done(k) ==
  LET p == ProcessOf[k]
  IN  CASE phase[p] = "migrate" -> [phase EXCEPT ![p] = "device"]
        [] phase[p] = "fill"    -> [phase EXCEPT ![p] = "up"]
        [] OTHER                -> phase

Leave(k) ==
  /\ thread' = [thread EXCEPT ![k] = Idle]
  /\ mutex' = [mutex EXCEPT ![ProcessOf[k]] = None]

\* The tasks of k now: a start runs through its phases, then the process serves.
TasksOf(k) ==
  LET p == ProcessOf[k]
  IN  IF phase[p] = "up" THEN {task \in Tasks : task.what \in {"start", "end", "approval"}}
      ELSE {task \in Tasks : task.what = phase[p] /\ k = Main[p]}

-----------------------------------------------------------------------------
(* A transaction: _initialize, or a `with locked()` block                  *)

\* _thread_lock, for one thread of the process at a time.
Enter(k) ==
  /\ thread[k].pc = "idle" /\ mutex[ProcessOf[k]] = None
  /\ \E task \in TasksOf(k) : thread' = [thread EXCEPT ![k] = [pc |-> "begin", task |-> task]]
  /\ mutex' = [mutex EXCEPT ![ProcessOf[k]] = k]
  /\ UNCHANGED <<disk, writer, phase, past, commits, faults>>

\* What the block makes of the board it has read.
Outcome(k, b) ==
  LET task == thread[k].task
  IN  CASE task.what = "start"    -> Stored!StartRun(b, task.of)
        [] task.what = "end"      -> Stored!EndRun(b)
        [] task.what = "approval" -> Stored!Approval(b, task.of)
        [] task.what = "fill"     -> Stored!FillIn(b, DeviceOf[ProcessOf[k]])
        [] task.what = "migrate"  -> IF disk.migrated THEN b ELSE Stored!TakenOver(b)

\* A start that must not go on: a schema from the future, or a broken old file.
Refused(k) ==
  /\ thread[k].task.what = "migrate"
  /\ \/ disk.version = "3"
     \/ disk.broken /\ ~disk.migrated /\ ~Stored!Populated(disk.board)

\* Begin and _read_state; a block that changes nothing saves nothing.
Begin(k) ==
  /\ thread[k].pc = "begin" /\ MayBegin(k) /\ commits < MaxCommits
  /\ IF Refused(k) THEN Leave(k) /\ phase' = Failed(k) /\ UNCHANGED writer
     ELSE /\ writer' = k
          /\ thread' = [thread EXCEPT ![k] =
               [pc |-> IF Outcome(k, disk.board) = disk.board THEN "commit" ELSE "sessions",
                task |-> thread[k].task,
                work |-> Outcome(k, disk.board), written |-> disk.board]]
          /\ UNCHANGED <<mutex, phase>>
  /\ UNCHANGED <<disk, past, commits, faults>>

\* The lock stays taken for 30 seconds: BEGIN raises.
Busy(k) ==
  /\ thread[k].pc = "begin" /\ writer # None
  /\ Leave(k)
  /\ phase' = Failed(k)
  /\ UNCHANGED <<disk, writer, past, commits, faults>>

\* _replace_state, table by table
SaveSessions(k) ==
  /\ thread[k].pc = "sessions"
  /\ thread' = [thread EXCEPT ![k].pc = "runs",
                  ![k].written = [@ EXCEPT !.home = thread[k].work.home,
                                           !.busy = thread[k].work.busy]]
  /\ UNCHANGED <<disk, writer, mutex, phase, past, commits, faults>>

SaveRuns(k) ==
  /\ thread[k].pc = "runs"
  /\ thread' = [thread EXCEPT ![k].pc = "approvals",
                  ![k].written = [@ EXCEPT !.target = thread[k].work.target]]
  /\ UNCHANGED <<disk, writer, mutex, phase, past, commits, faults>>

SaveApprovals(k) ==
  /\ thread[k].pc = "approvals"
  /\ thread' = [thread EXCEPT ![k].pc = "commit",
                  ![k].written = [@ EXCEPT !.approvals = thread[k].work.approvals]]
  /\ UNCHANGED <<disk, writer, mutex, phase, past, commits, faults>>

Commit(k) ==
  LET migrates == thread[k].task.what = "migrate"
  IN  /\ thread[k].pc = "commit"
      /\ disk' = [disk EXCEPT !.board = thread[k].written,
                    !.migrated = @ \/ migrates,
                    !.version = IF migrates THEN "2" ELSE @]
      /\ past' = past \cup {thread[k].written}
      /\ commits' = IF thread[k].written = disk.board THEN commits ELSE commits + 1
      /\ writer' = None
      /\ Leave(k)
      /\ phase' = Done(k)
      /\ UNCHANGED faults

\* Mutant: what had been written is kept.
AfterFailureKept(k) == [disk EXCEPT !.board = thread[k].written]

AfterFailure(k) == disk

\* A write fails: the exception rolls back all of the block.
SaveFails(k) ==
  /\ thread[k].pc \in {"sessions", "runs", "approvals", "commit"}
  /\ "disk" \in Faults /\ faults < MaxFaults /\ faults' = faults + 1
  /\ disk' = AfterFailure(k)
  /\ writer' = None
  /\ Leave(k)
  /\ phase' = Failed(k)
  /\ UNCHANGED <<past, commits>>

-----------------------------------------------------------------------------
(* read(): three SELECTs in one transaction, without a lock                *)

\* Mutant: no transaction, so that every SELECT sees the latest commit.
SourceLatest(k) == disk.board

Source(k) == thread[k].snapshot

ReadSessions(k) ==
  /\ thread[k].pc = "idle" /\ phase[ProcessOf[k]] = "up"
  /\ thread' = [thread EXCEPT ![k] =
       [pc |-> "read runs", snapshot |-> disk.board,
        view |-> [Stored!EmptyBoard EXCEPT !.home = disk.board.home, !.busy = disk.board.busy]]]
  /\ UNCHANGED <<disk, writer, mutex, phase, past, commits, faults>>

ReadRuns(k) ==
  /\ thread[k].pc = "read runs"
  /\ thread' = [thread EXCEPT ![k].pc = "read approvals",
                  ![k].view = [@ EXCEPT !.target = Source(k).target]]
  /\ UNCHANGED <<disk, writer, mutex, phase, past, commits, faults>>

ReadApprovals(k) ==
  /\ thread[k].pc = "read approvals"
  /\ thread' = [thread EXCEPT ![k] =
       [pc |-> "idle", result |-> {[thread[k].view EXCEPT !.approvals = Source(k).approvals]}]]
  /\ UNCHANGED <<disk, writer, mutex, phase, past, commits, faults>>

-----------------------------------------------------------------------------
(* Processes                                                               *)

\* The tables are created where they are missing.
Launch(p) ==
  /\ phase[p] = "down"
  /\ phase' = [phase EXCEPT ![p] = "migrate"]
  /\ UNCHANGED <<disk, writer, mutex, thread, past, commits, faults>>

\* upsert_device, a transaction of its own
UpsertDevice(p) ==
  /\ phase[p] = "device" /\ writer = None
  /\ disk' = [disk EXCEPT !.devices = @ \cup {DeviceOf[p]}]
  /\ phase' = [phase EXCEPT ![p] = "agent"]
  /\ UNCHANGED <<writer, mutex, thread, past, commits, faults>>

\* upsert_agent: the foreign key wants the device to be there.
UpsertAgent(p) ==
  /\ phase[p] = "agent" /\ writer = None
  /\ IF DeviceOf[p] \in disk.devices
     THEN /\ disk' = [disk EXCEPT !.agents = @ \cup {DeviceOf[p]}]
          /\ phase' = [phase EXCEPT ![p] = "fill"]
     ELSE UNCHANGED disk /\ phase' = [phase EXCEPT ![p] = "down"]
  /\ UNCHANGED <<writer, mutex, thread, past, commits, faults>>

\* Either waits 30 seconds for the write lock, and raises out of the start.
UpsertBusy(p) ==
  /\ phase[p] \in {"device", "agent"} /\ writer # None
  /\ phase' = [phase EXCEPT ![p] = "down"]
  /\ UNCHANGED <<disk, writer, mutex, thread, past, commits, faults>>

Crash(p) ==
  /\ phase[p] # "down"
  /\ "crash" \in Faults /\ faults < MaxFaults /\ faults' = faults + 1
  /\ phase' = [phase EXCEPT ![p] = "down"]
  /\ mutex' = [mutex EXCEPT ![p] = None]
  /\ thread' = [k \in Threads |-> IF ProcessOf[k] = p THEN Idle ELSE thread[k]]
  /\ writer' = IF writer # None /\ ProcessOf[writer] = p THEN None ELSE writer
  /\ UNCHANGED <<disk, past, commits>>

-----------------------------------------------------------------------------
Init ==
  /\ disk \in FirstDisk
  /\ writer = None
  /\ mutex = [p \in Processes |-> None]
  /\ phase = [p \in Processes |-> "down"]
  /\ thread = [k \in Threads |-> Idle]
  /\ past = {disk.board} /\ commits = 0 /\ faults = 0

Transaction(k) ==
  \/ Enter(k) \/ Begin(k) \/ Busy(k)
  \/ SaveSessions(k) \/ SaveRuns(k) \/ SaveApprovals(k) \/ Commit(k) \/ SaveFails(k)

ReadBoard(k) == ReadSessions(k) \/ ReadRuns(k) \/ ReadApprovals(k)

Next ==
  \/ \E k \in Threads : Transaction(k) \/ ReadBoard(k)
  \/ \E p \in Processes :
       Launch(p) \/ UpsertDevice(p) \/ UpsertAgent(p) \/ UpsertBusy(p) \/ Crash(p)

Spec == Init /\ [][Next]_vars

-----------------------------------------------------------------------------
(* The store is a Board: no change is lost to another thread or process, none
   is kept by half when a write fails or the process dies, and the old file is
   taken over once and never over what is there.                            *)
ImplementsBoard == Stored!Spec

(* What read() returns is a board that was committed, not parts of two.      *)
ReadIsCommitted ==
  \A k \in Threads :
    thread[k].pc = "idle" => thread[k].result \subseteq past

(* Once a process serves, every Session and every Run has a device, whatever was
   taken over and whichever process was faster.                             *)
ServesPlaced ==
  (\E p \in Processes : phase[p] = "up") =>
    disk.board.home # None /\ \A r \in Runs : disk.board.target[r] # None

=============================================================================
