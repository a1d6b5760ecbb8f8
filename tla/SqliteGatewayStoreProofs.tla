----------------------- MODULE SqliteGatewayStoreProofs -----------------------
(***************************************************************************)
(* The store is a Board, what read() returns was committed, and a process  *)
(* that serves finds every Session and Run with a device, for any number   *)
(* of processes, threads, faults and commits.                              *)
(*                                                                         *)
(* A commit is a step of Board because of four facts that each step keeps: *)
(* only the connection with the write lock is saving; what it means to     *)
(* save is still what its block makes of the committed board; what it has  *)
(* written so far is a part of that; and all of it at the commit.  A board *)
(* stays placed because every process commits its migration before its     *)
(* fill-in, and nothing is taken over once a migration is committed.       *)
(***************************************************************************)
EXTENDS SqliteGatewayStore, TLAPS

SavingPhases  == {"sessions", "runs", "approvals", "commit"}
ReadingPhases == {"read runs", "read approvals"}

\* BEGIN IMMEDIATE: who saves holds the lock.
OneWriter(k) ==
  thread[k].pc \in SavingPhases => writer = k /\ commits < MaxCommits

\* Nothing was committed between its BEGIN and now.
WorkIsOutcome(k) ==
  thread[k].pc \in SavingPhases => thread[k].work = Outcome(k, disk.board)

\* The tables that have been saved.
WrittenSoFar(k) ==
  /\ thread[k].pc \in {"runs", "approvals", "commit"} =>
       /\ thread[k].written.home = thread[k].work.home
       /\ thread[k].written.busy = thread[k].work.busy
  /\ thread[k].pc \in {"approvals", "commit"} =>
       thread[k].written.target = thread[k].work.target
  /\ thread[k].pc = "commit" => thread[k].written.approvals = thread[k].work.approvals

\* The tables that have been read, and what was read at last.
ReadSoFar(k) ==
  /\ thread[k].pc \in ReadingPhases =>
       /\ thread[k].snapshot \in past
       /\ thread[k].view.home = thread[k].snapshot.home
       /\ thread[k].view.busy = thread[k].snapshot.busy
  /\ thread[k].pc = "read approvals" => thread[k].view.target = thread[k].snapshot.target
  /\ thread[k].pc = "idle" => thread[k].result \subseteq past

ThreadInv(k) == OneWriter(k) /\ WorkIsOutcome(k) /\ WrittenSoFar(k) /\ ReadSoFar(k)

Inv ==
  /\ TypeOK
  /\ disk.board \in past
  /\ \A k \in Threads : ThreadInv(k)

-----------------------------------------------------------------------------
(* The blocks                                                              *)

\* A block makes a board of a board.
LEMMA OutcomeType ==
  ASSUME ConstantsAssumption, NEW k \in Threads, NEW b \in Stored!Boards,
         thread[k].task \in Tasks
  PROVE  Outcome(k, b) \in Stored!Boards
<1> DEFINE task == thread[k].task
<1>1. task.what = "start" => Stored!StartRun(b, task.of) \in Stored!Boards
  BY DEF Stored!StartRun, Stored!Boards, Tasks, Stored!None, None
<1>2. Stored!EndRun(b) \in Stored!Boards
  BY DEF Stored!EndRun, Stored!Boards
<1>3. task.what = "approval" => Stored!Approval(b, task.of) \in Stored!Boards
  BY DEF Stored!Approval, Stored!Boards, Tasks
<1>4. Stored!FillIn(b, DeviceOf[ProcessOf[k]]) \in Stored!Boards
  <2>1. DeviceOf[ProcessOf[k]] \in Devices
    BY DEF ConstantsAssumption
  <2> QED BY <2>1 DEF Stored!FillIn, Stored!Boards, Stored!None
<1>5. Stored!TakenOver(b) \in Stored!Boards
  BY DEF Stored!TakenOver, ConstantsAssumption
<1>6. task.what \in {"start", "end", "approval", "fill", "migrate"}
  BY DEF Tasks
<1> QED BY <1>1, <1>2, <1>3, <1>4, <1>5, <1>6 DEF Outcome

\* Two boards that agree on every table are one.
LEMMA SameTables ==
  ASSUME NEW b \in Stored!Boards, NEW c \in Stored!Boards,
         b.home = c.home, b.busy = c.busy, b.target = c.target, b.approvals = c.approvals
  PROVE  b = c
BY DEF Stored!Boards

\* What is committed is what the block made of the board.
LEMMA CommitsOutcome ==
  ASSUME Inv, NEW k \in Threads, thread[k].pc = "commit"
  PROVE  /\ thread[k].written \in Stored!Boards
         /\ thread[k].written = Outcome(k, disk.board)
         /\ thread[k].task \in Tasks
<1>1. /\ thread[k].written \in Stored!Boards
      /\ thread[k].work \in Stored!Boards
      /\ thread[k].task \in Tasks
  BY DEF Inv, TypeOK, ThreadStates
<1>2. thread[k].written = thread[k].work
  <2>1. /\ thread[k].written.home = thread[k].work.home
        /\ thread[k].written.busy = thread[k].work.busy
        /\ thread[k].written.target = thread[k].work.target
        /\ thread[k].written.approvals = thread[k].work.approvals
    BY DEF Inv, ThreadInv, WrittenSoFar
  <2> QED BY <1>1, <2>1, SameTables
<1> QED BY <1>1, <1>2 DEF Inv, ThreadInv, WorkIsOutcome, SavingPhases

-----------------------------------------------------------------------------
(* The invariant                                                           *)

\* Who does not move keeps its part: a saving thread because the board cannot
\* change under it, a reader because what was committed stays committed.
LEMMA OthersKeep ==
  ASSUME NEW j \in Threads, ThreadInv(j), thread'[j] = thread[j], past \subseteq past',
         thread[j].pc \in SavingPhases =>
           /\ disk'.board = disk.board /\ disk'.migrated = disk.migrated
           /\ writer' = writer /\ commits' = commits
  PROVE  ThreadInv(j)'
<1>1. OneWriter(j)' /\ WrittenSoFar(j)' /\ ReadSoFar(j)'
  BY DEF ThreadInv, OneWriter, WrittenSoFar, ReadSoFar
<1>2. WorkIsOutcome(j)'
  BY DEF ThreadInv, WorkIsOutcome, Outcome
<1> QED BY <1>1, <1>2 DEF ThreadInv

\* So does a thread that leaves with nothing read.
LEMMA IdleKeeps ==
  ASSUME NEW k \in Threads, thread'[k] = Idle
  PROVE  ThreadInv(k)'
BY DEF ThreadInv, OneWriter, WorkIsOutcome, WrittenSoFar, ReadSoFar, Idle, SavingPhases,
       ReadingPhases

\* A step of one thread that commits nothing.
LEMMA ThreadKeeps ==
  ASSUME Inv, NEW k \in Threads, NEW x \in ThreadStates,
         thread' = [thread EXCEPT ![k] = x],
         disk' = disk, past' = past, commits' = commits,
         ThreadInv(k)',
         writer' = writer \/ writer = None \/ writer = k,
         writer' \in Threads \cup {None},
         mutex' \in [Processes -> Threads \cup {None}],
         phase' \in [Processes -> {"down", "migrate", "device", "agent", "fill", "up"}],
         faults' \in 0..MaxFaults, None \notin Threads
  PROVE  Inv'
<1>1. TypeOK'
  BY DEF Inv, TypeOK
<1>2. ASSUME NEW j \in Threads PROVE ThreadInv(j)'
  <2>1. CASE j = k
    BY <2>1
  <2>2. CASE j # k
    <3>1. thread'[j] = thread[j]
      BY <2>2 DEF Inv, TypeOK
    <3>2. thread[j].pc \in SavingPhases => writer' = writer
      BY <2>2 DEF Inv, ThreadInv, OneWriter
    <3> QED BY <3>1, <3>2, OthersKeep DEF Inv
  <2> QED BY <2>1, <2>2
<1> QED BY <1>1, <1>2 DEF Inv

\* The lock, and the tasks that can be entered.
LEMMA EnterKeeps ==
  ASSUME Inv, ConstantsAssumption, NEW k \in Threads, Enter(k)
  PROVE  Inv'
<1>1. PICK task \in TasksOf(k) : thread' = [thread EXCEPT ![k] = [pc |-> "begin", task |-> task]]
  BY DEF Enter
<1> DEFINE x == [pc |-> "begin", task |-> task]
<1>2. x \in ThreadStates
  <2>1. task \in Tasks
    BY DEF TasksOf
  <2> QED BY <2>1 DEF ThreadStates
<1>3. thread'[k] = x
  BY <1>1 DEF Inv, TypeOK
<1>4. ThreadInv(k)'
  BY <1>3 DEF ThreadInv, OneWriter, WorkIsOutcome, WrittenSoFar, ReadSoFar, SavingPhases,
              ReadingPhases
<1>5. /\ mutex' \in [Processes -> Threads \cup {None}]
      /\ UNCHANGED <<disk, writer, phase, past, commits, faults>>
  BY DEF Enter, Inv, TypeOK, ConstantsAssumption
<1>6. /\ writer' \in Threads \cup {None} /\ faults' \in 0..MaxFaults
      /\ phase' \in [Processes -> {"down", "migrate", "device", "agent", "fill", "up"}]
  BY <1>5 DEF Inv, TypeOK
<1> HIDE DEF x
<1> QED BY <1>1, <1>2, <1>4, <1>5, <1>6, ThreadKeeps DEF x, ConstantsAssumption

\* A failure in a task, whatever it is: the thread leaves it.
LEMMA LeaveKeeps ==
  ASSUME Inv, ConstantsAssumption, NEW k \in Threads, Leave(k), phase' = Failed(k),
         \/ UNCHANGED writer
         \/ writer' = None /\ thread[k].pc \in SavingPhases,
         UNCHANGED disk, UNCHANGED past, UNCHANGED commits, faults' \in 0..MaxFaults
  PROVE  Inv'
<1>1. Idle \in ThreadStates
  BY DEF Idle, ThreadStates
<1>2. thread'[k] = Idle
  BY DEF Leave, Inv, TypeOK
<1>3. ThreadInv(k)'
  BY <1>2, IdleKeeps
<1>4. /\ mutex' \in [Processes -> Threads \cup {None}]
      /\ phase' \in [Processes -> {"down", "migrate", "device", "agent", "fill", "up"}]
  <2>1. ProcessOf[k] \in Processes
    BY DEF ConstantsAssumption
  <2> QED BY <2>1 DEF Leave, Failed, Inv, TypeOK
<1>5. /\ writer' = writer \/ writer = None \/ writer = k
      /\ writer' \in Threads \cup {None}
  BY DEF Inv, TypeOK, ThreadInv, OneWriter
<1> QED BY <1>1, <1>3, <1>4, <1>5, ThreadKeeps DEF Leave, ConstantsAssumption

\* Begin takes the lock, the board, and what the block makes of it.
LEMMA BeginKeeps ==
  ASSUME Inv, ConstantsAssumption, NEW k \in Threads, Begin(k)
  PROVE  Inv'
<1>1. CASE Refused(k)
  <2>1. /\ Leave(k) /\ phase' = Failed(k) /\ faults' = faults
        /\ writer' = writer /\ disk' = disk /\ past' = past /\ commits' = commits
    BY <1>1 DEF Begin
  <2>2. thread[k].pc = "begin"
    BY DEF Begin
  <2>3. faults' \in 0..MaxFaults
    BY <2>1 DEF Inv, TypeOK
  <2> QED BY <2>1, <2>2, <2>3, LeaveKeeps
<1>2. CASE ~Refused(k)
  <2> DEFINE x == [pc |-> IF Outcome(k, disk.board) = disk.board THEN "commit" ELSE "sessions",
                   task |-> thread[k].task,
                   work |-> Outcome(k, disk.board), written |-> disk.board]
  <2>1. /\ writer = None /\ writer' = k /\ commits < MaxCommits
        /\ thread' = [thread EXCEPT ![k] = x]
        /\ UNCHANGED <<disk, mutex, phase, past, commits, faults>>
    BY <1>2 DEF Begin, MayBegin
  <2>2. thread[k].task \in Tasks /\ disk.board \in Stored!Boards
    BY DEF Begin, Inv, TypeOK, ThreadStates, Disks
  <2>3. Outcome(k, disk.board) \in Stored!Boards
    BY <2>2, OutcomeType
  <2>4. x \in ThreadStates
    BY <2>2, <2>3 DEF ThreadStates
  <2>5. thread'[k] = x
    BY <2>1 DEF Inv, TypeOK
  <2>6. OneWriter(k)' /\ ReadSoFar(k)'
    <3>1. thread'[k].pc \in {"commit", "sessions"}
      BY <2>5
    <3> QED BY <2>1, <3>1 DEF OneWriter, ReadSoFar, ReadingPhases
  <2>7. WorkIsOutcome(k)'
    <3>1. Outcome(k, disk.board)' = Outcome(k, disk.board)
      <4>1. thread'[k].task = thread[k].task /\ disk' = disk
        BY <2>1, <2>5
      <4> QED BY <4>1 DEF Outcome
    <3> QED BY <2>5, <3>1 DEF WorkIsOutcome
  <2>8. WrittenSoFar(k)'
    BY <2>5 DEF WrittenSoFar
  <2>9. ThreadInv(k)'
    BY <2>6, <2>7, <2>8 DEF ThreadInv
  <2>10. /\ writer' \in Threads \cup {None} /\ faults' \in 0..MaxFaults
         /\ mutex' \in [Processes -> Threads \cup {None}]
         /\ phase' \in [Processes -> {"down", "migrate", "device", "agent", "fill", "up"}]
    BY <2>1 DEF Inv, TypeOK
  <2> HIDE DEF x
  <2> QED BY <2>1, <2>4, <2>9, <2>10, ThreadKeeps DEF ConstantsAssumption
<1> QED BY <1>1, <1>2

\* BEGIN IMMEDIATE gives up after 30 seconds, with nothing done.
LEMMA BusyKeeps ==
  ASSUME Inv, ConstantsAssumption, NEW k \in Threads, Busy(k)
  PROVE  Inv'
<1>1. /\ Leave(k) /\ phase' = Failed(k) /\ faults' = faults
      /\ writer' = writer /\ disk' = disk /\ past' = past /\ commits' = commits
  BY DEF Busy
<1>2. thread[k].pc = "begin" /\ faults' \in 0..MaxFaults
  BY <1>1 DEF Busy, Inv, TypeOK
<1> QED BY <1>1, <1>2, LeaveKeeps

\* A failing write is rolled back with its block.
LEMMA SaveFailsKeeps ==
  ASSUME Inv, ConstantsAssumption, NEW k \in Threads, SaveFails(k)
  PROVE  Inv'
<1>1. Leave(k) /\ phase' = Failed(k) /\ writer' = None /\ UNCHANGED <<disk, past, commits>>
  BY DEF SaveFails, AfterFailure
<1>2. thread[k].pc \in SavingPhases /\ faults' \in 0..MaxFaults
  BY DEF SaveFails, SavingPhases, Inv, TypeOK, ConstantsAssumption
<1> QED BY <1>1, <1>2, LeaveKeeps

\* _replace_state, the first table ...
LEMMA SaveSessionsKeeps ==
  ASSUME Inv, ConstantsAssumption, NEW k \in Threads, SaveSessions(k)
  PROVE  Inv'
<1> DEFINE w == [thread[k].written EXCEPT !.home = thread[k].work.home,
                                          !.busy = thread[k].work.busy]
           x == [thread[k] EXCEPT !.pc = "runs", !.written = w]
<1>1. /\ thread[k].pc = "sessions"
      /\ disk' = disk /\ writer' = writer /\ mutex' = mutex /\ phase' = phase
      /\ past' = past /\ commits' = commits /\ faults' = faults
  BY DEF SaveSessions
<1>2. /\ thread[k] \in [pc : {"sessions"}, task : Tasks,
                       work : Stored!Boards, written : Stored!Boards]
      /\ ThreadInv(k)
  BY <1>1 DEF Inv, TypeOK, ThreadStates
<1>3. /\ w \in Stored!Boards
      /\ w.home = thread[k].work.home
      /\ w.busy = thread[k].work.busy
      /\ w.target = thread[k].written.target
      /\ w.approvals = thread[k].written.approvals
  BY <1>2 DEF Stored!Boards
<1>4. thread' = [thread EXCEPT ![k] = x]
  BY DEF SaveSessions
<1> HIDE DEF w
<1>5. /\ x \in [pc : {"runs"}, task : Tasks, work : Stored!Boards, written : Stored!Boards]
      /\ x.task = thread[k].task /\ x.work = thread[k].work /\ x.written = w
  BY <1>2, <1>3
<1>6. thread'[k] = x
  BY <1>4 DEF Inv, TypeOK
<1> HIDE DEF x
<1>7. ThreadInv(k)'
  <2>1. WorkIsOutcome(k)'
    <3>1. thread'[k].task = thread[k].task /\ thread'[k].work = thread[k].work
      BY <1>5, <1>6
    <3>2. Outcome(k, disk.board)' = Outcome(k, disk.board)
      BY <1>1, <3>1 DEF Outcome
    <3> QED BY <1>1, <1>2, <3>1, <3>2 DEF ThreadInv, WorkIsOutcome, SavingPhases
  <2>2. OneWriter(k)' /\ ReadSoFar(k)'
    BY <1>1, <1>2, <1>5, <1>6 DEF ThreadInv, OneWriter, ReadSoFar, SavingPhases, ReadingPhases
  <2>3. WrittenSoFar(k)'
    BY <1>1, <1>2, <1>3, <1>5, <1>6 DEF ThreadInv, WrittenSoFar
  <2> QED BY <2>1, <2>2, <2>3 DEF ThreadInv
<1>8. /\ mutex' \in [Processes -> Threads \cup {None}]
      /\ phase' \in [Processes -> {"down", "migrate", "device", "agent", "fill", "up"}]
      /\ writer' \in Threads \cup {None} /\ faults' \in 0..MaxFaults
  BY <1>1 DEF Inv, TypeOK
<1>9. x \in ThreadStates
  BY <1>5 DEF ThreadStates
<1> QED BY <1>1, <1>4, <1>9, <1>7, <1>8, ThreadKeeps DEF ConstantsAssumption

\* ... the second ...
LEMMA SaveRunsKeeps ==
  ASSUME Inv, ConstantsAssumption, NEW k \in Threads, SaveRuns(k)
  PROVE  Inv'
<1> DEFINE w == [thread[k].written EXCEPT !.target = thread[k].work.target]
           x == [thread[k] EXCEPT !.pc = "approvals", !.written = w]
<1>1. /\ thread[k].pc = "runs"
      /\ disk' = disk /\ writer' = writer /\ mutex' = mutex /\ phase' = phase
      /\ past' = past /\ commits' = commits /\ faults' = faults
  BY DEF SaveRuns
<1>2. /\ thread[k] \in [pc : {"runs"}, task : Tasks,
                       work : Stored!Boards, written : Stored!Boards]
      /\ ThreadInv(k)
  BY <1>1 DEF Inv, TypeOK, ThreadStates
<1>3. /\ w \in Stored!Boards
      /\ w.home = thread[k].written.home
      /\ w.busy = thread[k].written.busy
      /\ w.target = thread[k].work.target
      /\ w.approvals = thread[k].written.approvals
  BY <1>2 DEF Stored!Boards
<1>4. thread' = [thread EXCEPT ![k] = x]
  BY DEF SaveRuns
<1> HIDE DEF w
<1>5. /\ x \in [pc : {"approvals"}, task : Tasks, work : Stored!Boards, written : Stored!Boards]
      /\ x.task = thread[k].task /\ x.work = thread[k].work /\ x.written = w
  BY <1>2, <1>3
<1>6. thread'[k] = x
  BY <1>4 DEF Inv, TypeOK
<1> HIDE DEF x
<1>7. ThreadInv(k)'
  <2>1. WorkIsOutcome(k)'
    <3>1. thread'[k].task = thread[k].task /\ thread'[k].work = thread[k].work
      BY <1>5, <1>6
    <3>2. Outcome(k, disk.board)' = Outcome(k, disk.board)
      BY <1>1, <3>1 DEF Outcome
    <3> QED BY <1>1, <1>2, <3>1, <3>2 DEF ThreadInv, WorkIsOutcome, SavingPhases
  <2>2. OneWriter(k)' /\ ReadSoFar(k)'
    BY <1>1, <1>2, <1>5, <1>6 DEF ThreadInv, OneWriter, ReadSoFar, SavingPhases, ReadingPhases
  <2>3. WrittenSoFar(k)'
    BY <1>1, <1>2, <1>3, <1>5, <1>6 DEF ThreadInv, WrittenSoFar
  <2> QED BY <2>1, <2>2, <2>3 DEF ThreadInv
<1>8. /\ mutex' \in [Processes -> Threads \cup {None}]
      /\ phase' \in [Processes -> {"down", "migrate", "device", "agent", "fill", "up"}]
      /\ writer' \in Threads \cup {None} /\ faults' \in 0..MaxFaults
  BY <1>1 DEF Inv, TypeOK
<1>9. x \in ThreadStates
  BY <1>5 DEF ThreadStates
<1> QED BY <1>1, <1>4, <1>9, <1>7, <1>8, ThreadKeeps DEF ConstantsAssumption

\* ... and the third.
LEMMA SaveApprovalsKeeps ==
  ASSUME Inv, ConstantsAssumption, NEW k \in Threads, SaveApprovals(k)
  PROVE  Inv'
<1> DEFINE w == [thread[k].written EXCEPT !.approvals = thread[k].work.approvals]
           x == [thread[k] EXCEPT !.pc = "commit", !.written = w]
<1>1. /\ thread[k].pc = "approvals"
      /\ disk' = disk /\ writer' = writer /\ mutex' = mutex /\ phase' = phase
      /\ past' = past /\ commits' = commits /\ faults' = faults
  BY DEF SaveApprovals
<1>2. /\ thread[k] \in [pc : {"approvals"}, task : Tasks,
                       work : Stored!Boards, written : Stored!Boards]
      /\ ThreadInv(k)
  BY <1>1 DEF Inv, TypeOK, ThreadStates
<1>3. /\ w \in Stored!Boards
      /\ w.home = thread[k].written.home
      /\ w.busy = thread[k].written.busy
      /\ w.target = thread[k].written.target
      /\ w.approvals = thread[k].work.approvals
  BY <1>2 DEF Stored!Boards
<1>4. thread' = [thread EXCEPT ![k] = x]
  BY DEF SaveApprovals
<1> HIDE DEF w
<1>5. /\ x \in [pc : {"commit"}, task : Tasks, work : Stored!Boards, written : Stored!Boards]
      /\ x.task = thread[k].task /\ x.work = thread[k].work /\ x.written = w
  BY <1>2, <1>3
<1>6. thread'[k] = x
  BY <1>4 DEF Inv, TypeOK
<1> HIDE DEF x
<1>7. ThreadInv(k)'
  <2>1. WorkIsOutcome(k)'
    <3>1. thread'[k].task = thread[k].task /\ thread'[k].work = thread[k].work
      BY <1>5, <1>6
    <3>2. Outcome(k, disk.board)' = Outcome(k, disk.board)
      BY <1>1, <3>1 DEF Outcome
    <3> QED BY <1>1, <1>2, <3>1, <3>2 DEF ThreadInv, WorkIsOutcome, SavingPhases
  <2>2. OneWriter(k)' /\ ReadSoFar(k)'
    BY <1>1, <1>2, <1>5, <1>6 DEF ThreadInv, OneWriter, ReadSoFar, SavingPhases, ReadingPhases
  <2>3. WrittenSoFar(k)'
    BY <1>1, <1>2, <1>3, <1>5, <1>6 DEF ThreadInv, WrittenSoFar
  <2> QED BY <2>1, <2>2, <2>3 DEF ThreadInv
<1>8. /\ mutex' \in [Processes -> Threads \cup {None}]
      /\ phase' \in [Processes -> {"down", "migrate", "device", "agent", "fill", "up"}]
      /\ writer' \in Threads \cup {None} /\ faults' \in 0..MaxFaults
  BY <1>1 DEF Inv, TypeOK
<1>9. x \in ThreadStates
  BY <1>5 DEF ThreadStates
<1> QED BY <1>1, <1>4, <1>9, <1>7, <1>8, ThreadKeeps DEF ConstantsAssumption

\* read(): the snapshot is the board, which has been committed.
LEMMA ReadSessionsKeeps ==
  ASSUME Inv, ConstantsAssumption, NEW k \in Threads, ReadSessions(k)
  PROVE  Inv'
<1> DEFINE v == [Stored!EmptyBoard EXCEPT !.home = disk.board.home, !.busy = disk.board.busy]
           x == [pc |-> "read runs", snapshot |-> disk.board, view |-> v]
<1>1. /\ thread' = [thread EXCEPT ![k] = x]
      /\ disk' = disk /\ writer' = writer /\ mutex' = mutex /\ phase' = phase
      /\ past' = past /\ commits' = commits /\ faults' = faults
  BY DEF ReadSessions
<1>2. disk.board \in Stored!Boards /\ disk.board \in past
  BY DEF Inv, TypeOK, Disks
<1>3. /\ v \in Stored!Boards
      /\ v.home = disk.board.home /\ v.busy = disk.board.busy
  BY <1>2 DEF Stored!EmptyBoard, Stored!Boards, Stored!None
<1> HIDE DEF v
<1>4. /\ x \in ThreadStates
      /\ x.pc = "read runs" /\ x.snapshot = disk.board /\ x.view = v
  BY <1>2, <1>3 DEF ThreadStates
<1>5. thread'[k] = x
  BY <1>1 DEF Inv, TypeOK
<1> HIDE DEF x
<1>6. ThreadInv(k)'
  <2>1. /\ thread'[k].pc = "read runs"
        /\ thread'[k].snapshot = disk.board
        /\ thread'[k].view.home = disk.board.home /\ thread'[k].view.busy = disk.board.busy
    BY <1>3, <1>4, <1>5
  <2>2. OneWriter(k)' /\ WorkIsOutcome(k)' /\ WrittenSoFar(k)'
    BY <2>1 DEF OneWriter, WorkIsOutcome, WrittenSoFar, SavingPhases
  <2>3. ReadSoFar(k)'
    <3>1. /\ thread'[k].snapshot \in past'
          /\ thread'[k].view.home = thread'[k].snapshot.home
          /\ thread'[k].view.busy = thread'[k].snapshot.busy
      <4>1. past' = past
        BY <1>1
      <4> QED BY <1>2, <2>1, <4>1
    <3> QED BY <2>1, <3>1 DEF ReadSoFar
  <2> QED BY <2>2, <2>3 DEF ThreadInv
<1>7. /\ mutex' \in [Processes -> Threads \cup {None}]
      /\ phase' \in [Processes -> {"down", "migrate", "device", "agent", "fill", "up"}]
      /\ writer' \in Threads \cup {None} /\ faults' \in 0..MaxFaults
  BY <1>1 DEF Inv, TypeOK
<1> QED BY <1>1, <1>4, <1>6, <1>7, ThreadKeeps DEF ConstantsAssumption

\* The second SELECT sees the same snapshot ...
LEMMA ReadRunsKeeps ==
  ASSUME Inv, ConstantsAssumption, NEW k \in Threads, ReadRuns(k)
  PROVE  Inv'
<1> DEFINE v == [thread[k].view EXCEPT !.target = thread[k].snapshot.target]
           x == [thread[k] EXCEPT !.pc = "read approvals", !.view = v]
<1>1. /\ thread[k].pc = "read runs"
      /\ thread' = [thread EXCEPT ![k] = x]
      /\ disk' = disk /\ writer' = writer /\ mutex' = mutex /\ phase' = phase
      /\ past' = past /\ commits' = commits /\ faults' = faults
  BY DEF ReadRuns, Source
<1>2. /\ thread[k] \in [pc : {"read runs"}, snapshot : Stored!Boards, view : Stored!Boards]
      /\ ThreadInv(k)
  BY <1>1 DEF Inv, TypeOK, ThreadStates
<1>3. /\ v \in Stored!Boards
      /\ v.home = thread[k].view.home /\ v.busy = thread[k].view.busy
      /\ v.target = thread[k].snapshot.target
  BY <1>2 DEF Stored!Boards
<1> HIDE DEF v
<1>4. /\ x \in [pc : {"read approvals"}, snapshot : Stored!Boards, view : Stored!Boards]
      /\ x.snapshot = thread[k].snapshot /\ x.view = v
  BY <1>2, <1>3
<1>5. thread'[k] = x
  BY <1>1 DEF Inv, TypeOK
<1> HIDE DEF x
<1>6. ThreadInv(k)'
  <2>1. /\ thread'[k].pc = "read approvals"
        /\ thread'[k].snapshot = thread[k].snapshot
        /\ thread'[k].view.home = thread[k].view.home
        /\ thread'[k].view.busy = thread[k].view.busy
        /\ thread'[k].view.target = thread[k].snapshot.target
    BY <1>3, <1>4, <1>5
  <2>2. OneWriter(k)' /\ WorkIsOutcome(k)' /\ WrittenSoFar(k)'
    BY <2>1 DEF OneWriter, WorkIsOutcome, WrittenSoFar, SavingPhases
  <2>3. ReadSoFar(k)'
    <3>1. /\ thread[k].snapshot \in past
          /\ thread[k].view.home = thread[k].snapshot.home
          /\ thread[k].view.busy = thread[k].snapshot.busy
      BY <1>1, <1>2 DEF ThreadInv, ReadSoFar, ReadingPhases
    <3>2. /\ thread'[k].snapshot \in past'
          /\ thread'[k].view.home = thread'[k].snapshot.home
          /\ thread'[k].view.busy = thread'[k].snapshot.busy
          /\ thread'[k].view.target = thread'[k].snapshot.target
      <4>1. past' = past
        BY <1>1
      <4> QED BY <2>1, <3>1, <4>1
    <3> QED BY <2>1, <3>2 DEF ReadSoFar
  <2> QED BY <2>2, <2>3 DEF ThreadInv
<1>7. /\ mutex' \in [Processes -> Threads \cup {None}]
      /\ phase' \in [Processes -> {"down", "migrate", "device", "agent", "fill", "up"}]
      /\ writer' \in Threads \cup {None} /\ faults' \in 0..MaxFaults
  BY <1>1 DEF Inv, TypeOK
<1>8. x \in ThreadStates
  BY <1>4 DEF ThreadStates
<1> QED BY <1>1, <1>6, <1>7, <1>8, ThreadKeeps DEF ConstantsAssumption

\* ... and so does the third: what is returned is the snapshot.
LEMMA ReadApprovalsKeeps ==
  ASSUME Inv, ConstantsAssumption, NEW k \in Threads, ReadApprovals(k)
  PROVE  Inv'
<1> DEFINE v == [thread[k].view EXCEPT !.approvals = thread[k].snapshot.approvals]
           x == [pc |-> "idle", result |-> {v}]
<1>1. /\ thread[k].pc = "read approvals"
      /\ thread' = [thread EXCEPT ![k] = x]
      /\ disk' = disk /\ writer' = writer /\ mutex' = mutex /\ phase' = phase
      /\ past' = past /\ commits' = commits /\ faults' = faults
  BY DEF ReadApprovals, Source
<1>2. /\ thread[k] \in [pc : {"read approvals"}, snapshot : Stored!Boards, view : Stored!Boards]
      /\ ThreadInv(k)
  BY <1>1 DEF Inv, TypeOK, ThreadStates
<1>3. v = thread[k].snapshot
  <2>1. /\ thread[k].view.home = thread[k].snapshot.home
        /\ thread[k].view.busy = thread[k].snapshot.busy
        /\ thread[k].view.target = thread[k].snapshot.target
    BY <1>1, <1>2 DEF ThreadInv, ReadSoFar, ReadingPhases
  <2>2. /\ v \in Stored!Boards /\ thread[k].snapshot \in Stored!Boards
        /\ v.home = thread[k].view.home /\ v.busy = thread[k].view.busy
        /\ v.target = thread[k].view.target /\ v.approvals = thread[k].snapshot.approvals
    BY <1>2 DEF Stored!Boards
  <2> HIDE DEF v
  <2> QED BY <2>1, <2>2, SameTables
<1> HIDE DEF v
<1>4. v \in Stored!Boards /\ v \in past
  BY <1>1, <1>2, <1>3 DEF ThreadInv, ReadSoFar, ReadingPhases
<1>5. x \in ThreadStates
  BY <1>4 DEF ThreadStates
<1>6. thread'[k] = x
  BY <1>1 DEF Inv, TypeOK
<1>7. ThreadInv(k)'
  <2>1. thread'[k].pc = "idle" /\ thread'[k].result = {v}
    BY <1>6
  <2>2. OneWriter(k)' /\ WorkIsOutcome(k)' /\ WrittenSoFar(k)'
    BY <2>1 DEF OneWriter, WorkIsOutcome, WrittenSoFar, SavingPhases
  <2>3. ReadSoFar(k)'
    BY <1>1, <1>4, <2>1 DEF ReadSoFar, ReadingPhases
  <2> QED BY <2>2, <2>3 DEF ThreadInv
<1>8. /\ mutex' \in [Processes -> Threads \cup {None}]
      /\ phase' \in [Processes -> {"down", "migrate", "device", "agent", "fill", "up"}]
      /\ writer' \in Threads \cup {None} /\ faults' \in 0..MaxFaults
  BY <1>1 DEF Inv, TypeOK
<1> HIDE DEF x
<1> QED BY <1>1, <1>5, <1>7, <1>8, ThreadKeeps DEF ConstantsAssumption

\* A commit: no other thread is saving, and what was read before was committed.
LEMMA CommitKeeps ==
  ASSUME Inv, ConstantsAssumption, NEW k \in Threads, Commit(k)
  PROVE  Inv'
<1>1. thread[k].pc = "commit" /\ writer = k /\ commits < MaxCommits
  BY DEF Commit, Inv, ThreadInv, OneWriter, SavingPhases
<1>2. thread[k].written \in Stored!Boards
  BY <1>1, CommitsOutcome
<1>3. TypeOK'
  <2>1. disk' \in Disks /\ disk'.board = thread[k].written
    BY <1>2 DEF Commit, Inv, TypeOK, Disks
  <2>2. thread' \in [Threads -> ThreadStates] /\ mutex' \in [Processes -> Threads \cup {None}]
    <3>1. Idle \in ThreadStates
      BY DEF Idle, ThreadStates
    <3> QED BY <3>1 DEF Commit, Leave, Inv, TypeOK
  <2>3. phase' \in [Processes -> {"down", "migrate", "device", "agent", "fill", "up"}]
    BY DEF Commit, Done, Inv, TypeOK
  <2>4. commits' \in 0..MaxCommits
    BY <1>1 DEF Commit, Inv, TypeOK, ConstantsAssumption
  <2>5. past' \subseteq Stored!Boards /\ writer' = None /\ faults' \in 0..MaxFaults
    BY <1>2 DEF Commit, Inv, TypeOK
  <2> QED BY <2>1, <2>2, <2>3, <2>4, <2>5 DEF TypeOK
<1>4. disk'.board \in past'
  BY DEF Commit, Inv, TypeOK, Disks
<1>5. ASSUME NEW j \in Threads PROVE ThreadInv(j)'
  <2>1. CASE j = k
    <3>1. thread'[k] = Idle
      BY DEF Commit, Leave, Inv, TypeOK
    <3> QED BY <2>1, <3>1, IdleKeeps
  <2>2. CASE j # k
    <3>1. thread'[j] = thread[j] /\ past \subseteq past'
      BY <2>2 DEF Commit, Leave, Inv, TypeOK
    <3>2. thread[j].pc \notin SavingPhases
      BY <1>1, <2>2 DEF Inv, ThreadInv, OneWriter
    <3> QED BY <3>1, <3>2, OthersKeep DEF Inv
  <2> QED BY <2>1, <2>2
<1> QED BY <1>3, <1>4, <1>5 DEF Inv

\* The start of a process changes no board.
LEMMA ProcessKeeps ==
  ASSUME Inv, ConstantsAssumption, NEW p \in Processes,
         Launch(p) \/ UpsertDevice(p) \/ UpsertAgent(p) \/ UpsertBusy(p)
  PROVE  Inv'
<1>1. /\ disk' \in Disks /\ disk'.board = disk.board /\ disk'.migrated = disk.migrated
  BY DEF Launch, UpsertDevice, UpsertAgent, UpsertBusy, Inv, TypeOK, Disks, ConstantsAssumption
<1>2. /\ writer' = writer /\ mutex' = mutex /\ thread' = thread
      /\ past' = past /\ commits' = commits /\ faults' = faults
  BY DEF Launch, UpsertDevice, UpsertAgent, UpsertBusy
<1>3. phase' \in [Processes -> {"down", "migrate", "device", "agent", "fill", "up"}]
  BY DEF Launch, UpsertDevice, UpsertAgent, UpsertBusy, Inv, TypeOK
<1>4. TypeOK' /\ disk'.board \in past'
  BY <1>1, <1>2, <1>3 DEF Inv, TypeOK
<1>5. ASSUME NEW j \in Threads PROVE ThreadInv(j)'
  BY <1>1, <1>2, OthersKeep DEF Inv
<1> QED BY <1>4, <1>5 DEF Inv

\* A crash frees the write lock only if its owner dies.
LEMMA CrashKeeps ==
  ASSUME Inv, ConstantsAssumption, NEW p \in Processes, Crash(p)
  PROVE  Inv'
<1>1. TypeOK'
  <2>1. Idle \in ThreadStates
    BY DEF Idle, ThreadStates
  <2>2. thread' \in [Threads -> ThreadStates]
    BY <2>1 DEF Crash, Inv, TypeOK
  <2>3. /\ mutex' \in [Processes -> Threads \cup {None}]
        /\ phase' \in [Processes -> {"down", "migrate", "device", "agent", "fill", "up"}]
        /\ writer' \in Threads \cup {None} /\ faults' \in 0..MaxFaults
    BY DEF Crash, Inv, TypeOK, ConstantsAssumption
  <2> QED BY <2>2, <2>3 DEF Crash, Inv, TypeOK
<1>2. disk' = disk /\ past' = past /\ commits' = commits
  BY DEF Crash
<1>3. ASSUME NEW j \in Threads PROVE ThreadInv(j)'
  <2>1. CASE ProcessOf[j] = p
    <3>1. thread'[j] = Idle
      BY <2>1 DEF Crash
    <3> QED BY <3>1, IdleKeeps
  <2>2. CASE ProcessOf[j] # p
    <3>1. thread'[j] = thread[j]
      BY <2>2 DEF Crash
    <3>2. thread[j].pc \in SavingPhases => writer' = writer
      BY <2>2 DEF Crash, Inv, ThreadInv, OneWriter
    <3> QED BY <1>2, <3>1, <3>2, OthersKeep DEF Inv
  <2> QED BY <2>1, <2>2
<1> QED BY <1>1, <1>2, <1>3 DEF Inv

\* Every step keeps the invariant.
LEMMA StepKeeps ==
  ASSUME Inv, ConstantsAssumption, [Next]_vars
  PROVE  Inv'
<1>1. ASSUME NEW k \in Threads, Transaction(k) PROVE Inv'
  BY <1>1, EnterKeeps, BeginKeeps, BusyKeeps, SaveSessionsKeeps, SaveRunsKeeps,
     SaveApprovalsKeeps, CommitKeeps, SaveFailsKeeps DEF Transaction
<1>2. ASSUME NEW k \in Threads, ReadBoard(k) PROVE Inv'
  BY <1>2, ReadSessionsKeeps, ReadRunsKeeps, ReadApprovalsKeeps DEF ReadBoard
<1>3. CASE UNCHANGED vars
  <2>1. /\ disk' = disk /\ writer' = writer /\ mutex' = mutex /\ phase' = phase
        /\ thread' = thread /\ past' = past /\ commits' = commits /\ faults' = faults
    BY <1>3 DEF vars
  <2>2. TypeOK' /\ disk'.board \in past'
    BY <2>1 DEF Inv, TypeOK
  <2>3. ASSUME NEW j \in Threads PROVE ThreadInv(j)'
    BY <2>1, OthersKeep DEF Inv
  <2> QED BY <2>2, <2>3 DEF Inv
<1> QED BY <1>1, <1>2, <1>3, ProcessKeeps, CrashKeeps DEF Next

\* It holds when no process runs yet.
LEMMA InitInv ==
  ASSUME ConstantsAssumption, Init
  PROVE  Inv
<1>1. disk \in Disks /\ disk.board \in Stored!Boards
  BY DEF Init, ConstantsAssumption, Disks
<1>2. thread \in [Threads -> ThreadStates]
  <2>1. Idle \in ThreadStates
    BY DEF Idle, ThreadStates
  <2> QED BY <2>1 DEF Init
<1>3. TypeOK /\ disk.board \in past
  BY <1>1, <1>2 DEF Init, TypeOK, ConstantsAssumption
<1>4. ASSUME NEW k \in Threads PROVE ThreadInv(k)
  <2>1. thread[k].pc = "idle" /\ thread[k].result = {}
    BY DEF Init, Idle
  <2> QED BY <2>1 DEF ThreadInv, OneWriter, WorkIsOutcome, WrittenSoFar, ReadSoFar,
             SavingPhases, ReadingPhases
<1> QED BY <1>3, <1>4 DEF Inv

\* The invariant of the proofs holds in every behaviour of the store.
THEOREM StoreInvariant == Spec => []Inv
<1>1. Init => Inv
  BY InitInv, ConstantsAssumption
<1>2. Inv /\ [Next]_vars => Inv'
  BY StepKeeps, ConstantsAssumption
<1> QED BY <1>1, <1>2, PTL DEF Spec

\* storage.py:151-179: every variable of the store stays in its type.
THEOREM StoreTypeCorrect == Spec => []TypeOK
<1>1. Inv => TypeOK
  BY DEF Inv
<1> QED BY <1>1, StoreInvariant, PTL

\* storage.py:168-179: what read() returned is a board that was committed.
THEOREM ReadsWhatWasCommitted == Spec => []ReadIsCommitted
<1>1. Inv => ReadIsCommitted
  BY DEF Inv, ThreadInv, ReadSoFar, ReadIsCommitted
<1> QED BY <1>1, StoreInvariant, PTL

-----------------------------------------------------------------------------
(* Refinement                                                              *)

\* A commit is one change of the board, or the end of the migration.
LEMMA CommitIsAChange ==
  ASSUME Inv, ConstantsAssumption, NEW k \in Threads, Commit(k)
  PROVE  [Stored!Next]_<<disk.board, disk.migrated>>
<1> DEFINE task == thread[k].task
           migrates == task.what = "migrate"
<1>1. /\ thread[k].written = Outcome(k, disk.board) /\ task \in Tasks
  BY CommitsOutcome DEF Commit
<1>2. /\ disk'.board = Outcome(k, disk.board)
      /\ disk'.migrated = (disk.migrated \/ migrates)
      /\ disk.migrated \in BOOLEAN
  BY <1>1 DEF Commit, Inv, TypeOK, Disks
<1>3. CASE task.what \in {"start", "end", "approval", "fill"}
  <2>1. disk'.migrated = disk.migrated
    BY <1>2, <1>3
  <2>2. Stored!Change(disk.board)
    <3>1. CASE task.what = "start"
      <4>1. disk'.board = Stored!StartRun(disk.board, task.of) /\ task.of \in Runs
        BY <1>1, <1>2, <3>1 DEF Outcome, Tasks
      <4> QED BY <4>1 DEF Stored!Change
    <3>2. CASE task.what = "end"
      BY <1>2, <3>2 DEF Outcome, Stored!Change
    <3>3. CASE task.what = "approval"
      <4>1. disk'.board = Stored!Approval(disk.board, task.of) /\ task.of \in Approvals
        BY <1>1, <1>2, <3>3 DEF Outcome, Tasks
      <4> QED BY <4>1 DEF Stored!Change
    <3>4. CASE task.what = "fill"
      <4>1. /\ disk'.board = Stored!FillIn(disk.board, DeviceOf[ProcessOf[k]])
            /\ DeviceOf[ProcessOf[k]] \in Devices
        BY <1>2, <3>4 DEF Outcome, ConstantsAssumption
      <4> QED BY <4>1 DEF Stored!Change
    <3> QED BY <1>3, <3>1, <3>2, <3>3, <3>4
  <2> QED BY <2>1, <2>2 DEF Stored!Next
<1>4. CASE migrates
  <2>1. CASE disk.migrated
    <3>1. disk'.board = disk.board /\ disk'.migrated = disk.migrated
      BY <1>2, <1>4, <2>1 DEF Outcome
    <3> QED BY <3>1
  <2>2. CASE ~disk.migrated
    <3>1. disk'.board = Stored!TakenOver(disk.board) /\ disk'.migrated = TRUE
      BY <1>2, <1>4, <2>2 DEF Outcome
    <3> QED BY <2>2, <3>1 DEF Stored!Next
  <2> QED BY <1>2, <2>1, <2>2
<1>5. task.what \in {"start", "end", "approval", "fill", "migrate"}
  BY <1>1 DEF Tasks
<1> QED BY <1>3, <1>4, <1>5

\* No other step changes the board.
LEMMA OthersStutter ==
  ASSUME Inv, [Next]_vars, ~ \E k \in Threads : Commit(k)
  PROVE  disk'.board = disk.board /\ disk'.migrated = disk.migrated
<1>1. ASSUME NEW k \in Threads, Transaction(k) PROVE disk' = disk
  BY <1>1 DEF Transaction, Enter, Begin, Busy, SaveSessions, SaveRuns, SaveApprovals,
              SaveFails, AfterFailure
<1>2. ASSUME NEW k \in Threads, ReadBoard(k) PROVE disk' = disk
  BY <1>2 DEF ReadBoard, ReadSessions, ReadRuns, ReadApprovals
<1>3. ASSUME NEW p \in Processes,
             Launch(p) \/ UpsertDevice(p) \/ UpsertAgent(p) \/ UpsertBusy(p) \/ Crash(p)
      PROVE  disk'.board = disk.board /\ disk'.migrated = disk.migrated
  BY <1>3 DEF Launch, UpsertDevice, UpsertAgent, UpsertBusy, Crash, Inv, TypeOK, Disks
<1>4. UNCHANGED vars => disk' = disk
  BY DEF vars
<1> QED BY <1>1, <1>2, <1>3, <1>4 DEF Next

\* storage.py:112-166: the store implements the board that GatewayService relies on.
THEOREM StoreIsABoard == Spec => ImplementsBoard
<1>1. Init => Stored!Init
  BY ConstantsAssumption DEF Init, ConstantsAssumption, Disks, Stored!Init
<1>2. Inv /\ [Next]_vars => [Stored!Next]_<<disk.board, disk.migrated>>
  <2> SUFFICES ASSUME Inv, [Next]_vars
               PROVE  [Stored!Next]_<<disk.board, disk.migrated>>
    OBVIOUS
  <2>1. CASE \E k \in Threads : Commit(k)
    BY <2>1, CommitIsAChange, ConstantsAssumption
  <2>2. CASE ~ \E k \in Threads : Commit(k)
    BY <2>2, OthersStutter
  <2> QED BY <2>1, <2>2
<1> QED BY <1>1, <1>2, StoreInvariant, PTL DEF Spec, ImplementsBoard, Stored!Spec

-----------------------------------------------------------------------------
(* The start of a process                                                  *)

InTask(k) == thread[k].pc \in {"begin"} \cup SavingPhases

\* A task is done under _thread_lock, and is one that its process is to do now.
TaskFits(k) ==
  LET p == ProcessOf[k]
  IN  InTask(k) =>
        /\ mutex[p] = k
        /\ \/ thread[k].task.what = phase[p]
           \/ phase[p] = "up" /\ thread[k].task.what \in {"start", "end", "approval"}

\* Past the migration it is committed.
MigratesFirst ==
  \A p \in Processes : phase[p] \in {"device", "agent", "fill", "up"} => disk.migrated

StartInv == (\A k \in Threads : TaskFits(k)) /\ MigratesFirst /\ ServesPlaced

Placed(b) == b.home # None /\ \A r \in Runs : b.target[r] # None

\* A board that is placed stays so, once nothing is taken over any more.
LEMMA StaysPlaced ==
  ASSUME ConstantsAssumption, NEW k \in Threads, NEW b \in Stored!Boards,
         thread[k].task \in Tasks, disk.migrated, Placed(b)
  PROVE  Placed(Outcome(k, b))
<1> DEFINE task == thread[k].task
<1>1. task.what = "start" => Placed(Stored!StartRun(b, task.of))
  BY DEF Stored!StartRun, Stored!Boards, Tasks, Placed
<1>2. Placed(Stored!EndRun(b))
  BY DEF Stored!EndRun, Stored!Boards, Placed
<1>3. task.what = "approval" => Placed(Stored!Approval(b, task.of))
  BY DEF Stored!Approval, Stored!Boards, Placed
<1>4. Placed(Stored!FillIn(b, DeviceOf[ProcessOf[k]]))
  BY DEF Stored!FillIn, Stored!Boards, Stored!None, Placed, None
<1>5. task.what \in {"start", "end", "approval", "fill", "migrate"}
  BY DEF Tasks
<1> HIDE DEF Placed
<1> QED BY <1>1, <1>2, <1>3, <1>4, <1>5 DEF Outcome

\* The fill-in places every board.
LEMMA FillInPlaces ==
  ASSUME NEW b \in Stored!Boards, NEW device \in Devices, None \notin Devices
  PROVE  Placed(Stored!FillIn(b, device))
BY DEF Stored!FillIn, Stored!Boards, Stored!None, Placed, None

\* Who does not move still fits, if nobody else moves its process.
LEMMA OthersFit ==
  ASSUME NEW j \in Threads, TaskFits(j), thread'[j] = thread[j],
         InTask(j) => /\ mutex'[ProcessOf[j]] = mutex[ProcessOf[j]]
                      /\ phase'[ProcessOf[j]] = phase[ProcessOf[j]]
  PROVE  TaskFits(j)'
BY DEF TaskFits, InTask

\* A thread out of a task fits.
LEMMA IdleFits ==
  ASSUME NEW k \in Threads, ~InTask(k)'
  PROVE  TaskFits(k)'
BY DEF TaskFits

\* Leaving a task: nobody else of the process was in one.
LEMMA LeaveFits ==
  ASSUME Inv, ConstantsAssumption, NEW k \in Threads, InTask(k), Leave(k),
         \A j \in Threads : TaskFits(j),
         phase' = Failed(k) \/ phase' = Done(k)
  PROVE  \A j \in Threads : TaskFits(j)'
<1> SUFFICES ASSUME NEW j \in Threads PROVE TaskFits(j)'
  OBVIOUS
<1>1. CASE j = k
  <2>1. ~InTask(k)'
    BY DEF Leave, Idle, InTask, SavingPhases, Inv, TypeOK
  <2> QED BY <1>1, <2>1, IdleFits
<1>2. CASE j # k
  <2>1. thread'[j] = thread[j]
    BY <1>2 DEF Leave, Inv, TypeOK
  <2>2. InTask(j) => ProcessOf[j] # ProcessOf[k]
    BY <1>2 DEF TaskFits
  <2>3. ProcessOf[j] # ProcessOf[k] =>
          /\ mutex'[ProcessOf[j]] = mutex[ProcessOf[j]]
          /\ phase'[ProcessOf[j]] = phase[ProcessOf[j]]
    <3>1. ProcessOf[j] \in Processes
      BY DEF ConstantsAssumption
    <3> QED BY <3>1 DEF Leave, Failed, Done, Inv, TypeOK
  <2> QED BY <2>1, <2>2, <2>3, OthersFit
<1> QED BY <1>1, <1>2

\* A step of a thread within its task, or of a reader.
LEMMA WithinFits ==
  ASSUME NEW k \in Threads,
         \A j \in Threads : j # k => thread'[j] = thread[j],
         InTask(k)' => InTask(k) /\ thread'[k].task = thread[k].task,
         \A j \in Threads : TaskFits(j),
         mutex' = mutex, phase' = phase
  PROVE  \A j \in Threads : TaskFits(j)'
<1> SUFFICES ASSUME NEW j \in Threads PROVE TaskFits(j)'
  OBVIOUS
<1>1. CASE j = k
  BY <1>1 DEF TaskFits
<1>2. CASE j # k
  BY <1>2, OthersFit
<1> QED BY <1>1, <1>2

\* Every step leaves every thread with a task that fits.
LEMMA FitsKept ==
  ASSUME Inv, ConstantsAssumption, StartInv, [Next]_vars
  PROVE  \A j \in Threads : TaskFits(j)'
<1>1. \A j \in Threads : TaskFits(j)
  BY DEF StartInv
<1>2. ASSUME NEW k \in Threads, Transaction(k) PROVE \A j \in Threads : TaskFits(j)'
  <2>1. CASE Enter(k)
    <3> SUFFICES ASSUME NEW j \in Threads PROVE TaskFits(j)'
      OBVIOUS
    <3>1. PICK task \in TasksOf(k) :
            thread' = [thread EXCEPT ![k] = [pc |-> "begin", task |-> task]]
      BY <2>1 DEF Enter
    <3>2. /\ mutex[ProcessOf[k]] = None /\ phase' = phase
          /\ mutex' = [mutex EXCEPT ![ProcessOf[k]] = k]
          /\ ProcessOf[k] \in Processes
      BY <2>1 DEF Enter, ConstantsAssumption
    <3>3. CASE j = k
      <4>1. thread'[k].task = task /\ mutex'[ProcessOf[k]] = k
        BY <3>1, <3>2 DEF Inv, TypeOK
      <4>2. \/ task.what = phase[ProcessOf[k]]
            \/ phase[ProcessOf[k]] = "up" /\ task.what \in {"start", "end", "approval"}
        BY DEF TasksOf
      <4> QED BY <3>2, <3>3, <4>1, <4>2 DEF TaskFits
    <3>4. CASE j # k
      <4>1. thread'[j] = thread[j]
        BY <3>1, <3>4 DEF Inv, TypeOK
      <4>2. InTask(j) => ProcessOf[j] # ProcessOf[k]
        BY <1>1, <3>2 DEF TaskFits, ConstantsAssumption
      <4>3. InTask(j) => mutex'[ProcessOf[j]] = mutex[ProcessOf[j]]
        BY <3>2, <4>2 DEF Inv, TypeOK, ConstantsAssumption
      <4> QED BY <1>1, <3>2, <4>1, <4>3, OthersFit
    <3> QED BY <3>3, <3>4
  <2>2. CASE Begin(k)
    <3>1. InTask(k)
      BY <2>2 DEF Begin, InTask
    <3>2. CASE Refused(k)
      <4>1. Leave(k) /\ phase' = Failed(k)
        BY <2>2, <3>2 DEF Begin
      <4> QED BY <1>1, <3>1, <4>1, LeaveFits
    <3>3. CASE ~Refused(k)
      <4> DEFINE x == [pc |-> IF Outcome(k, disk.board) = disk.board
                               THEN "commit" ELSE "sessions",
                       task |-> thread[k].task,
                       work |-> Outcome(k, disk.board), written |-> disk.board]
      <4>1. thread' = [thread EXCEPT ![k] = x] /\ mutex' = mutex /\ phase' = phase
        BY <2>2, <3>3 DEF Begin
      <4>2. x.task = thread[k].task
        OBVIOUS
      <4> HIDE DEF x
      <4>3. /\ \A j \in Threads : j # k => thread'[j] = thread[j]
            /\ thread'[k].task = thread[k].task
        BY <4>1, <4>2 DEF Inv, TypeOK
      <4> QED BY <1>1, <3>1, <4>1, <4>3, WithinFits
    <3> QED BY <3>2, <3>3
  <2>3. CASE Busy(k) \/ SaveFails(k) \/ Commit(k)
    <3>1. /\ InTask(k) /\ Leave(k)
          /\ phase' = Failed(k) \/ phase' = Done(k)
      BY <2>3 DEF Busy, SaveFails, Commit, InTask, SavingPhases
    <3> QED BY <1>1, <3>1, LeaveFits
  <2>4. CASE SaveSessions(k) \/ SaveRuns(k) \/ SaveApprovals(k)
    <3>1. InTask(k) /\ mutex' = mutex /\ phase' = phase
      BY <2>4 DEF SaveSessions, SaveRuns, SaveApprovals, InTask, SavingPhases
    <3>2. thread[k] \in [pc : SavingPhases, task : Tasks, work : Stored!Boards,
                        written : Stored!Boards]
      <4>1. thread[k].pc \in SavingPhases
        BY <2>4 DEF SaveSessions, SaveRuns, SaveApprovals, SavingPhases
      <4> QED BY <4>1 DEF SavingPhases, Inv, TypeOK, ThreadStates
    <3>3. ASSUME NEW pc, NEW w,
                 thread' = [thread EXCEPT ![k] = [thread[k] EXCEPT !.pc = pc, !.written = w]]
          PROVE  /\ \A j \in Threads : j # k => thread'[j] = thread[j]
                 /\ thread'[k].task = thread[k].task
      BY <3>2, <3>3 DEF Inv, TypeOK
    <3>4. /\ \A j \in Threads : j # k => thread'[j] = thread[j]
          /\ thread'[k].task = thread[k].task
      <4>1. CASE SaveSessions(k)
        <5> DEFINE w == [thread[k].written EXCEPT !.home = thread[k].work.home,
                                                !.busy = thread[k].work.busy]
        <5>1. thread' = [thread EXCEPT ![k] = [thread[k] EXCEPT !.pc = "runs", !.written = w]]
          BY <4>1 DEF SaveSessions
        <5> HIDE DEF w
        <5> QED BY <3>3, <5>1
      <4>2. CASE SaveRuns(k)
        <5> DEFINE w == [thread[k].written EXCEPT !.target = thread[k].work.target]
        <5>1. thread' =
                [thread EXCEPT ![k] = [thread[k] EXCEPT !.pc = "approvals", !.written = w]]
          BY <4>2 DEF SaveRuns
        <5> HIDE DEF w
        <5> QED BY <3>3, <5>1
      <4>3. CASE SaveApprovals(k)
        <5> DEFINE w == [thread[k].written EXCEPT !.approvals = thread[k].work.approvals]
        <5>1. thread' = [thread EXCEPT ![k] = [thread[k] EXCEPT !.pc = "commit", !.written = w]]
          BY <4>3 DEF SaveApprovals
        <5> HIDE DEF w
        <5> QED BY <3>3, <5>1
      <4> QED BY <2>4, <4>1, <4>2, <4>3
    <3> QED BY <1>1, <3>1, <3>4, WithinFits
  <2> QED BY <1>2, <2>1, <2>2, <2>3, <2>4 DEF Transaction
<1>3. ASSUME NEW k \in Threads, ReadBoard(k) PROVE \A j \in Threads : TaskFits(j)'
  <2>1. mutex' = mutex /\ phase' = phase
    BY <1>3 DEF ReadBoard, ReadSessions, ReadRuns, ReadApprovals
  <2>2. \A j \in Threads : j # k => thread'[j] = thread[j]
    BY <1>3 DEF ReadBoard, ReadSessions, ReadRuns, ReadApprovals, Inv, TypeOK
  <2>3. ~InTask(k)'
    <3>1. CASE ReadSessions(k)
      BY <3>1 DEF ReadSessions, InTask, SavingPhases, Inv, TypeOK
    <3>2. CASE ReadRuns(k)
      <4>1. thread[k] \in [pc : {"read runs"}, snapshot : Stored!Boards, view : Stored!Boards]
        BY <3>2 DEF ReadRuns, Inv, TypeOK, ThreadStates
      <4>2. ASSUME NEW v,
                   thread' = [thread EXCEPT ![k] = [thread[k] EXCEPT !.pc = "read approvals",
                                                                     !.view = v]]
            PROVE  thread'[k].pc = "read approvals"
        BY <4>1, <4>2 DEF Inv, TypeOK
      <4>3. thread'[k].pc = "read approvals"
        BY <3>2, <4>2 DEF ReadRuns
      <4> QED BY <4>3 DEF InTask, SavingPhases
    <3>3. CASE ReadApprovals(k)
      BY <3>3 DEF ReadApprovals, InTask, SavingPhases, Inv, TypeOK
    <3> QED BY <1>3, <3>1, <3>2, <3>3 DEF ReadBoard
  <2> QED BY <1>1, <2>1, <2>2, <2>3, WithinFits
<1>4. ASSUME NEW p \in Processes, NEW j \in Threads,
             Launch(p) \/ UpsertDevice(p) \/ UpsertAgent(p) \/ UpsertBusy(p)
      PROVE  TaskFits(j)'
  <2>1. /\ thread' = thread /\ mutex' = mutex
        /\ \A q \in Processes : q # p => phase'[q] = phase[q]
        /\ phase[p] \in {"down", "device", "agent"}
    BY <1>4 DEF Launch, UpsertDevice, UpsertAgent, UpsertBusy, Inv, TypeOK
  <2>2. InTask(j) => ProcessOf[j] # p
    <3>1. InTask(j) => thread[j].task \in Tasks
      BY DEF InTask, SavingPhases, Inv, TypeOK, ThreadStates
    <3>2. InTask(j) => thread[j].task.what \notin {"down", "device", "agent"}
      BY <3>1 DEF Tasks
    <3> QED BY <1>1, <2>1, <3>2 DEF TaskFits
  <2>3. ProcessOf[j] \in Processes
    BY DEF ConstantsAssumption
  <2> QED BY <1>1, <2>1, <2>2, <2>3, OthersFit
<1>5. ASSUME NEW p \in Processes, NEW j \in Threads, Crash(p) PROVE TaskFits(j)'
  <2>1. CASE ProcessOf[j] = p
    <3>1. ~InTask(j)'
      BY <1>5, <2>1 DEF Crash, Idle, InTask, SavingPhases
    <3> QED BY <3>1, IdleFits
  <2>2. CASE ProcessOf[j] # p
    <3>1. /\ thread'[j] = thread[j]
          /\ mutex'[ProcessOf[j]] = mutex[ProcessOf[j]]
          /\ phase'[ProcessOf[j]] = phase[ProcessOf[j]]
      BY <1>5, <2>2 DEF Crash, Inv, TypeOK, ConstantsAssumption
    <3> QED BY <1>1, <3>1, OthersFit
  <2> QED BY <2>1, <2>2
<1>6. CASE UNCHANGED vars
  <2>1. thread' = thread /\ mutex' = mutex /\ phase' = phase
    BY <1>6 DEF vars
  <2> QED BY <1>1, <2>1, OthersFit
<1> QED BY <1>2, <1>3, <1>4, <1>5, <1>6 DEF Next

\* A process leaves its migration when it has committed it.
LEMMA MigratesFirstKept ==
  ASSUME Inv, ConstantsAssumption, StartInv, [Next]_vars
  PROVE  MigratesFirst'
<1> SUFFICES ASSUME NEW p \in Processes, phase'[p] \in {"device", "agent", "fill", "up"}
             PROVE  disk'.migrated
  BY DEF MigratesFirst
<1>1. disk.migrated => disk'.migrated
  <2>1. CASE \E k \in Threads : Commit(k)
    BY <2>1 DEF Commit, Inv, TypeOK, Disks
  <2>2. CASE ~ \E k \in Threads : Commit(k)
    BY <2>2, OthersStutter
  <2> QED BY <2>1, <2>2
<1>2. CASE phase[p] \in {"device", "agent", "fill", "up"}
  BY <1>1, <1>2 DEF StartInv, MigratesFirst
<1>3. CASE phase[p] \notin {"device", "agent", "fill", "up"}
  <2>1. PICK k \in Threads : Commit(k) /\ p = ProcessOf[k] /\ phase[p] = "migrate"
    <3>1. ASSUME NEW k \in Threads, Transaction(k) \/ ReadBoard(k), ~Commit(k)
          PROVE  phase'[p] \in {phase[p], "down"}
      BY <3>1 DEF Transaction, Enter, Begin, Busy, SaveSessions, SaveRuns, SaveApprovals,
                  SaveFails, ReadBoard, ReadSessions, ReadRuns, ReadApprovals, Failed, Inv, TypeOK
    <3>2. ASSUME NEW q \in Processes,
                 Launch(q) \/ UpsertDevice(q) \/ UpsertAgent(q) \/ UpsertBusy(q) \/ Crash(q)
          PROVE  phase'[p] \in {phase[p], "down", "migrate"}
      BY <1>3, <3>2 DEF Launch, UpsertDevice, UpsertAgent, UpsertBusy, Crash, Inv, TypeOK
    <3>3. UNCHANGED vars => phase' = phase
      BY DEF vars
    <3>4. PICK k \in Threads : Commit(k)
      <4>1. phase'[p] \notin {phase[p], "down", "migrate"}
        BY <1>3
      <4> QED BY <3>1, <3>2, <3>3, <4>1 DEF Next
    <3>5. phase' = Done(k)
      BY <3>4 DEF Commit
    <3>6. p = ProcessOf[k] /\ phase[p] = "migrate"
      BY <1>3, <3>5 DEF Done, Inv, TypeOK
    <3> QED BY <3>4, <3>6
  <2>2. thread[k].task.what = "migrate"
    BY <2>1 DEF Commit, StartInv, TaskFits, InTask, SavingPhases
  <2> QED BY <2>1, <2>2 DEF Commit, Inv, TypeOK, Disks
<1> QED BY <1>2, <1>3

\* A process serves when it has filled in what was missing, and no other undoes it.
LEMMA ServesPlacedKept ==
  ASSUME Inv, ConstantsAssumption, StartInv, [Next]_vars
  PROVE  ServesPlaced'
<1> DEFINE someUp == \E p \in Processes : phase[p] = "up"
<1>0. ASSUME Placed(disk.board)' PROVE ServesPlaced'
  BY <1>0 DEF Placed, ServesPlaced
<1>1. CASE \E k \in Threads : Commit(k)
  <2>1. PICK k \in Threads : Commit(k)
    BY <1>1
  <2>2. /\ thread[k].written = Outcome(k, disk.board) /\ thread[k].task \in Tasks
        /\ disk.board \in Stored!Boards
    BY <2>1, CommitsOutcome DEF Commit, Inv, TypeOK, Disks
  <2>3. disk'.board = Outcome(k, disk.board) /\ phase' = Done(k)
    BY <2>1, <2>2 DEF Commit, Inv, TypeOK, Disks
  <2>4. CASE someUp
    <3>1. disk.migrated /\ Placed(disk.board)
      BY <2>4 DEF StartInv, MigratesFirst, ServesPlaced, Placed
    <3>2. Placed(Outcome(k, disk.board))
      BY <2>2, <3>1, StaysPlaced
    <3> QED BY <1>0, <2>3, <3>2 DEF Placed
  <2>5. CASE ~someUp /\ phase[ProcessOf[k]] = "fill"
    <3>1. thread[k].task.what = "fill"
      BY <2>1, <2>5 DEF Commit, StartInv, TaskFits, InTask, SavingPhases
    <3>2. Outcome(k, disk.board) = Stored!FillIn(disk.board, DeviceOf[ProcessOf[k]])
      BY <3>1 DEF Outcome
    <3>3. Placed(Outcome(k, disk.board))
      BY <2>2, <3>2, FillInPlaces DEF ConstantsAssumption
    <3> QED BY <1>0, <2>3, <3>3 DEF Placed
  <2>6. CASE ~someUp /\ phase[ProcessOf[k]] # "fill"
    <3>1. \A p \in Processes : phase'[p] # "up"
      BY <2>3, <2>6 DEF Done, Inv, TypeOK
    <3> QED BY <3>1 DEF ServesPlaced
  <2> QED BY <2>4, <2>5, <2>6
<1>2. CASE ~ \E k \in Threads : Commit(k)
  <2>1. disk'.board = disk.board
    BY <1>2, OthersStutter
  <2>2. \A p \in Processes : phase'[p] = "up" => phase[p] = "up"
    <3>1. ASSUME NEW k \in Threads, Transaction(k) \/ ReadBoard(k), ~Commit(k),
                 NEW p \in Processes
          PROVE  phase'[p] \in {phase[p], "down"}
      BY <3>1 DEF Transaction, Enter, Begin, Busy, SaveSessions, SaveRuns, SaveApprovals,
                  SaveFails, ReadBoard, ReadSessions, ReadRuns, ReadApprovals, Failed, Inv, TypeOK
    <3>2. ASSUME NEW q \in Processes, NEW p \in Processes,
                 Launch(q) \/ UpsertDevice(q) \/ UpsertAgent(q) \/ UpsertBusy(q) \/ Crash(q)
          PROVE  phase'[p] = phase[p] \/ phase'[p] # "up"
      BY <3>2 DEF Launch, UpsertDevice, UpsertAgent, UpsertBusy, Crash, Inv, TypeOK
    <3>3. UNCHANGED vars => phase' = phase
      BY DEF vars
    <3> QED BY <1>2, <3>1, <3>2, <3>3 DEF Next
  <2> QED BY <2>1, <2>2 DEF StartInv, ServesPlaced
<1> QED BY <1>1, <1>2

\* gateway.py:102-146: while a process serves, every Session and Run has a device.
THEOREM ServesOnlyPlaced == Spec => []ServesPlaced
<1>1. Init => StartInv
  <2> SUFFICES ASSUME Init PROVE StartInv
    OBVIOUS
  <2>1. ASSUME NEW k \in Threads PROVE TaskFits(k)
    BY DEF Init, Idle, TaskFits, InTask, SavingPhases
  <2>2. MigratesFirst /\ ServesPlaced
    BY DEF Init, MigratesFirst, ServesPlaced
  <2> QED BY <2>1, <2>2 DEF StartInv
<1>2. Inv /\ StartInv /\ [Next]_vars => StartInv'
  BY FitsKept, MigratesFirstKept, ServesPlacedKept, ConstantsAssumption DEF StartInv
<1>3. StartInv => ServesPlaced
  BY DEF StartInv
<1> QED BY <1>1, <1>2, <1>3, StoreInvariant, PTL DEF Spec

=============================================================================
