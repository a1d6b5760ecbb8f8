# A TLA+ specification of better-subagent

better-subagent is a gateway between clients that hand prompts to Codex
Sessions and the Codex App Server that executes them as turns. Its core is
`GatewayService` (`better_subagent/gateway.py`): a persistent *board* of
Sessions and Runs, written by HTTP handler threads, by the reader thread of the
App Server connection, by terminal callbacks, by reconcile workers and by the
scan at start-up. One specification models that core; five more model what it
stands on or offers: the JSON-RPC transport, the SDK worker transport, approvals,
the SQLite store and the paging loops. TLC checks all six on small instances, and
TLAPS proves their safety properties for every value of the constants. Paths below are relative to the repository
root, except the `.tla` and `.cfg` files of this directory; `gateway.py`,
`transport.py`, `storage.py` and `device_agent.py` are those of
`src/better_subagent/`.

## 1. Inventory

| Component | State it keeps | Operations | What makes it correct |
|---|---|---|---|
| Runs (`gateway.py` 1073-1446) | `board["runs"]`, `_live_run_ids` | `start_run`, `get_run`, `interrupt_run`, `steer_run`, terminal callback | one Run per requestId and per Session; an outcome is a fact about the turn and is never rewritten; `unknown` fails closed; a Run is eventually settled |
| Session ownership (`gateway.py` 950-1071) | `controlMode`, `runtimeStatus`, `activeTurnId`, `controlGeneration`, `handoff*` | `put_session`, `handoff`, `reclaim` | the Gateway never takes control back by itself; a handoff waits for the Run; the generation counts takeovers |
| Notifications and reconciliation (`gateway.py` 154-327, 501-606) | `_recent_terminal_turns`, `_run_reconcile_inflight`, `_run_reconcile_after` | `_on_transport_notification`, `_project_external_turn`, `_reconcile_orphaned_run` | only unowned turns are projected as external; a finished turn is not resurrected; a worker and a live callback do not contradict each other |
| `AppServerTransport` (`transport.py` 60-632) | `_pending`, `_turns`, `_orphan_terminals`, `_terminal_tombstones`, `_generation` | `connect`, `request`, `start_turn`, `interrupt_turn`, `_handle_notification`, `_mark_disconnected`, terminal probes | each terminal callback is called at most once and never lost on one connection |
| Approvals (`gateway.py` 490-516, 1305-1342; `transport.py` 366-399, 615-629) | `pendingApprovals`, `_pending_approvals`, `_approval_responses` | `_on_approval_request`, `approval_decision`, `respond_approval` | one answer per request; an unknown response is not repeated |
| `SqliteGatewayStore` (`storage.py`) | SQLite rows, schema version | `locked`, `save`, `read`, migration | a block is atomic; the legacy file is imported once |
| `CodexSdkWorkerTransport` (`transport.py` 663-940, `scripts/codex-sdk-worker.mjs`) | one child record per turn | `start_turn`, `interrupt_turn`, `read_events`, `_cleanup` | a handle is returned only with authority; one terminal callback |
| Read-only projections (`gateway.py` 608-930, `codex_agent.py`) | none | overview, recap, history, transcript, agent tree | cursor loops end; lifecycles fold to the last fact |
| Local device (`device_agent.py`, `gateway.py` 102-147) | device and agent rows | `_ensure_local_device_projection` | rows follow the Sessions |
| HTTP server (`server.py`) | none | routing | one thread per connection |

How they interact: handler threads and the reader share the board through
`store.locked()` (one SQLite transaction under one lock) and share
`_live_run_ids` through `_live_run_lock`. `start_run` calls
`transport.start_turn` outside every lock and passes it a callback; the
transport calls that callback from the reader thread, from `start_turn` itself
(an orphaned terminal), from a probe worker or from `_mark_disconnected`.
Notifications reach `GatewayService` after the transport's own handling of the
same message. App Server turns may also be started by other clients; those are
*external*.

What is hard: two looks at the board with a `thread/read` in between; the answer
to `turn/start` racing the end of the turn; a lost connection that ends pending
requests and watched turns together; a crash that loses every callback;
reconcile workers that act on lists that are no longer current; ownership that
changes in five places. `PROJECT.json` lists these hazards line by line.

## 2. Modules

| Module | Content |
|---|---|
| `Gateway.tla` | Runs, Session ownership, notifications, reconciliation: constants with `ConstantsAssumption`, the variables, `TypeOK`, one action per atomic step of each thread, `Spec` |
| `GatewayProperties.tla` | invariants, action properties, the liveness property with its fairness, the refinement mapping `Ledger`, the inductive invariant |
| `RunLedger.tla` | abstract: what clients of `start_run` and `get_run` may rely on; implemented by `Gateway` |
| `GatewaySteps.tla` | lemmas: what every step does to the types, the board, one Run, turn, call, callback or worker |
| `GatewayTheorems.tla` | the theorems about Runs, generations, outcomes, callbacks, the ledger and the activity shown |
| `TurnCallback.tla` | abstract: what `start_run` relies on when it hands a callback to a transport; implemented by both transports |
| `AppServerTransport.tla`, `AppServerTransportProperties.tla` | callers of `start_turn`, the reader of each connection, probes, the loss of a connection, and the App Server's side of the wire |
| `AppServerTransportSteps.tla`, `AppServerTransportProofs.tla` | what each of its steps does, and its theorems |
| `SdkWorker.tla`, `SdkWorkerProperties.tla` | one child of `CodexSdkWorkerTransport`: `start_turn`, `read_events`, `interrupt_turn`, `_cleanup`, the worker process |
| `SdkWorkerProofs.tla` | its theorems |
| `Approvals.tla`, `ApprovalsProperties.tla` | an approval request from the App Server through the transport to the board and back |
| `ApprovalsProofs.tla` | its theorems |
| `Board.tla` | abstract: the board as one value that each locked block changes atomically |
| `SqliteGatewayStore.tla` | transactions, rollback, snapshot reads, schema version, legacy migration and the start of a Gateway process; implements `Board` |
| `SqliteGatewayStoreProofs.tla` | its theorems |
| `Paging.tla` | the five loops that page through App Server lists |
| `PagingProofs.tla` | its theorems |
| `MC*.tla`, `MC*.cfg` | small instances for TLC |

How they fit together: `Gateway` assumes of the transport what `TurnCallback`
says and of the store what `Board` says, and the two transports and the store are
shown to implement these. `Gateway` keeps its own, coarser picture of the
transport, because the races between a callback and the RPC that registers it are
part of its own behaviour; frames of the wire, request slots and the phases of a
start are only in `AppServerTransport`.

### State of `Gateway`

* The board, all that survives `Restart`: `sessions[s]` and `runs[r]`, with the
  fields of the code's dictionaries that guards or properties look at. A Run not
  yet created is `Absent`.
* Process-local: `live` (`_live_run_ids`), `reconcile[r]` (the worker of `r` and
  its locals; `pc # "none"` is membership in `_run_reconcile_inflight`), `recent`
  (`_recent_terminal_turns`), `calls[c]` (the program counter and locals of
  handler thread `c`), `reader` (the reader thread's).
* Transport: `connected`, `watched[t]` (`_turns`), `terminals[t]` (orphans and
  tombstones of this connection), `disconnect` (callbacks and the status message
  `_mark_disconnected` still has to deliver), `probed[r]`.
* App Server, external: `turns[t]`, and `events`, the notifications sent and not
  yet read. `turns[t].run` is a history field, never read by the Gateway's steps:
  it says for which Run the turn was started.

### Steps

A step ends where the code releases a lock, sends or awaits an RPC, or hands over
to another thread. `start_run` is `StartCheck` (first look), `StartRead`
(`thread/read`), `StartCreate` or `StartDenied` (second look, under the lock),
`StartRemember`, `StartAccepted`/`StartRejected`/`StartUnanswered` (the RPC),
`StartRegister`, `StartTakeOrphan`, `StartOrphan` (the callback), and
`StartFinish`, `StartRefused` or `StartUnknown`. `interrupt_run` and `handoff`
share the RPC steps `Interrupt*`. The reader is at one message at a time:
`ReadCompleted` (the transport's part), `ReadCallback`, `ReadOrphan`, `ReadMatch`,
`ReadRelease` (the Gateway's part) and `ReadStarted`, `ReadProject`. A worker is
`ReconcileRead`, `ReconcileList`, `ReconcileProject`, `ReconcileClose`.

### Abstractions

* Prompts, policies, log paths, error texts and timestamps are dropped. A field
  that only selects between two answers to a repeated request (`promptHash`,
  `lastHandoffResult`, `interruptRequestId` together with its status) is dropped
  with it, and so is `requestedControlMode`, which no guard reads. In PUT, `edited` stands for
  "some other field differs", which decides idempotence.
* The 30 s between two reconciles of a Run is nondeterminism: `GetRun` may start
  the next worker at any time.
* `thread/turns/list` is one atomic snapshot of the turns on a thread.
* `_forget_live_run` and `_forget_run_reconcile` are merged with the locked write
  that follows: they only enable claims, which then look at the written board.
  `recent` is appended with the unlocked read that follows it.
* A probe (`_schedule_reconcile` of the transport) may happen whenever the
  watched turn's thread is idle; the `thread/status/changed` that triggers it is
  not kept, and so nothing relies on one: `Fairness` has no `Probe`.
  `Fault("probe")` is a lookup that fails or omits the turn.
* `Disconnect` lets every pending request be either failed by the disconnection
  or answered before it. A `start_turn` that finds the connection down connects
  again or fails (`StartRejected`, `StartUnanswered`); `interrupt_turn` does not
  connect and is `InterruptUnanswered`.
* Approvals (a module of their own) and `steer_run` (which writes nothing) are not
  in this module.

Bounds: the id sets are finite, `MaxFaults` counts faults (crash, disconnection,
timeout, refused RPC, failed probe), clients stop switching ownership at
`MaxGeneration`, and `recent` keeps `RecentLimit` turns, as many as there are, where
the code keeps 256. Faults and generation bounds are guards, so no state is cut
off in the middle of an operation. Deadlock is not checked in any run: with
finitely many ids, all used up, the instance really stops.

### `AppServerTransport`

A block under `_lock` is one step, so the steps are those of the code: `Connect`,
`Send` (entry in `_pending` and frame), `TimeOut`, `Reject`, `Register` (entry in
`_turns` and the orphan, if any), `Merge`; `ReadResponse`, `ReadCompleted`,
`ReaderFinish`, `ReaderCallback`, `ReaderOrphan`, `ReadIdle`, and the two places
where a reader marks the connection lost (`ReaderFails`, `ReaderLeaves`); the
phases of a probe, which connects again if it finds the connection lost
(`ProbeConnect`, `ProbeInitialize`, `ProbeInitialized`) and is then fenced off by
its generation, or reports `unknown` if its lookup is refused. Its requests and
answers are not on the wire, its `initialize` excepted (`Greet`), because a request
that overtakes that one is refused. Tombstones and orphans carry their generation; the
limit of 256 tombstones is not modelled. A caller has one request open at a time and
stands for its id.
The App Server serves requests in order, refuses one that overtook `initialize`, and
announces the end of a turn to the connections whose `thread/resume` joined its
thread. `IdleFirst` says whether it may announce a thread idle before the
turn's `turn/completed`; the transport run takes both orders. Of the notifications,
`turn/completed` and idleness are here; `turn/started` changes nothing in the
transport, and approvals have their own module.

### `SdkWorker`

The child record's flags are variables of their own. The worker's output is a
queue of lines; the SDK may stream any event in any order, up to `MaxEvents`.
`StopWaiting` may come at any moment, which is the start-up deadline. Pipes that
are closed under a reader end its loop. Two waits of one or two seconds may give up
(`Faults`).

### `Approvals`

A request has its state at the App Server (`asked`, `effect`), in the transport
(`held`, `responses`) and on the board (`pending`, `runtime`). A decision is
`Admit`, `Check`, `Send`, `Mark`, for a permissions `cancel` also `Interrupt`, and
`Fail` for the except block. A connection is lost in three steps: `Drop` breaks the
link, `Notice` is `_mark_disconnected` up to the end of its lock, `Report` the
`transport/status` that follows, which a new connection may overtake. An answer
written to a broken socket is lost or fails. `Resume` delivers what is still open again. A call
that was admitted before such a redelivery and goes on after it is *overtaken*: it
answers the new delivery with the old decision or marks it `responseUnknown`. The
code does nothing against that, so the properties leave such requests out
(`overtaken`) and say so.

### `SqliteGatewayStore`

The board has one Session with its device and the Run it is busy with, some Runs
with their target devices, and approvals; it is written table by table inside a
transaction. A thread is in one `locked()` block or one `read()` at a time;
`_thread_lock` is per process, the write lock per database. The start of a process
is its phases: tables, `_initialize`, `upsert_device`, `upsert_agent`, the fill-in of
devices; a failure in any of them ends the process. SQLite's own guarantees are
external and listed at the head of the module.

### `Paging`

One loop runs at a time (they share nothing), against a list that grows at its end
and whose last turn may end between two requests, or against a server that returns
any page and any cursor, one it has never handed out before (`Fresh`) included.
`thread/list` is in the order of the last update (`transport.py:206`): a cursor is the
time its page went down to (`Behind`), and `ThreadUpdated` moves a Thread in front of
every cursor.

## 3. Runs

| Run | Instance | Shows |
|---|---|---|
| `gateway_starts` | 2 handler threads, 2 Runs, 2 turns, start/get/reclaim, 1 timeout or failed probe | `SingleOccupancy`, `OneRunPerRequest`, `TerminalRunHasNoRunningTurn` and `ImplementsLedger` when starts race; `ActivityIsJustified`: no Session left active for a turn that is over |
| `gateway_recovery` | 1 Run and its turn, start/get/interrupt, all five faults, 4 of them | `OutcomeIsFact`, `TerminalIsFinal`, `UnknownFailsClosed`, `LiveHasWatcher`, `TypeOK`; `EndedTurnClosesRun` under `Fairness`: the Run is closed, or its end is stranded (section 4) |
| `gateway_ownership` | 1 Run, all control operations, 1 timeout | `GenerationCountsTakeovers`: the generation moves by one with every change of thread or mode, in both directions, and in no other write, finding 4 alone excepted; `GenerationFencesRun`, `OutcomeIsFact` and the proofs' `InductiveInvariant` |
| `transport` | 2 starts on 1 thread, 2 connections, 1 fault out of lost connection, close, timeout, failed probe | `ImplementsCallback`: one answer, at most one callback, none after a rejection; `OutcomeHasReason`: the outcome is the turn's, or unknown for a reason of this turn; `EndIsAttended`: an announced end is never forgotten on a living connection, the stranded orphan of section 4 excepted |
| `sdk_worker` | 4 streamed events, 1 interruption, every fault once | `ImplementsCallback`; `ToldIsFirstFact`: the outcome follows from the lines read; `RejectedHasNotStarted`; `DeadIsSettled` under fairness |
| `approvals` | 2 requests on 1 thread, 2 callers, 1 fault out of lost connection, crash, refused interrupt | `EffectIsRecorded`, `StaysAnswerable`, `WaitingHasRequest`; `BoardSettles` as long as nothing fails |
| `store` | 2 processes, 3 threads, 4 kinds of database, 4 commits, 1 failed write or crash | `ImplementsBoard`: atomic blocks, one migration; `ReadIsCommitted`; `ServesPlaced` |
| `paging` | lists of up to 4 turns or Threads, 6 updates, pages of 1 or 2 | `HistoryIsComplete`, `ExactIsACount`, `ActiveIsSeen`, `DeniedIsAbsentOrUpdated`, `RecapIsLatest`; `LoopsEnd` against any server, a `history` handed new cursors for ever excepted |
| `gateway_projection` | 2 Runs, start/get, 1 failed probe | violates `ProjectsOnlyUnowned` (finding 1) |
| `gateway_rejected` | 1 Run, start, 1 disconnection | violates `TerminalRunHasNoRunningTurn` (finding 2) |
| `transport_unattached` | 1 start, 2 connections, 1 lost connection | violates `StartsAttached` (finding 3) |
| `gateway_handback` | as `gateway_ownership` | violates `GenerationCountsEveryChange` (finding 4) |

The passing runs have from about 160 thousand to 1.6 million distinct states and
take between half a minute and two and a half minutes. The bounds reach what the properties are
about:

* `Gateway`: two handlers suffice for the race of the two looks, two turns for a
  managed and an external one, four faults for a crash during the recovery from
  another fault and the same once more; the run with four has one turn, the Run's own. One Session and one thread are used because Sessions meet only
  through a shared thread, where each is treated alike; the theorems below hold
  for any number of them.
* `AppServerTransport`: two starts, so that one caller is between any two of its steps
  while another connects, sends or loses the connection, and two connections, so
  that a reader, a probe and an entry can be of the previous one. More than one
  kind of fault at a time is beyond TLC here.
* `SdkWorker`: four events fit thread, turn, a fact and one line after it, in every
  order and with strange lines between.
* `Approvals`: two requests of one thread (a permissions request and another), since
  threads share nothing but the tables, and two callers for one request.
* `SqliteGatewayStore`: two threads in one process meet at `_thread_lock`, the third
  in another process at SQLite's lock; four commits are two more than a
  migration and a fill-in.
* `Paging`: pages shorter than the list, limits reached and not reached, cursors
  that repeat at once, in a circle and never. A page that comes with a fresh cursor is
  empty, and two fresh cursors in turn stand for all of them: no loop compares a cursor
  with any but the last one and those `history` has seen. Two updates more than there
  are Threads, so that the one sought can be moved and another after it.

Several properties are claimed for less than all faults, and that is said here:

* `TerminalRunHasNoRunningTurn` holds for timeouts, not for disconnections (finding 2).
* `UnknownFailsClosed` holds without `handoff` (section 4).
* `ActivityIsJustified` is checked without crash and disconnection, which lose the
  notification that would release an external Session, and for `start_run`, `get_run`
  and `reclaim` only. The theorem `ActivityHasATurn` adds the other operations and names
  the steps that break it (section 5).
* `EndedTurnClosesRun` is about Runs with a recorded turn, which one whose `turn/start`
  timed out has not. It ends in `Terminated` or in `Stranded`: the callback is registered,
  and the end it waits for was announced without it, because it is among the orphans
  (section 4) or was lost with the connection before the entry was made
  (`transport.py:324`). A stranded Run is left to a probe, which need not come, the next
  lost connection or a restart.
* `GenerationCountsTakeovers` names the one write that changes the mode and not the
  generation (`HandedBack`, finding 4).
* `DeniedIsAbsentOrUpdated` promises nothing for a Thread updated during the lookup: it
  moves in front of the cursor, and the last page answers `thread_not_found`
  (`gateway.py:396`-398). Nothing in the repository says otherwise; line 377 calls the
  lookup a compatibility fallback.
* `LoopsEnd` lets `history` go on while it is handed fresh cursors: it has no limit on
  pages, only `seen_cursors` (`gateway.py:1258`-1275).
* `LiveHasWatcher` counts a registered entry as somebody who will report, also one that
  is stranded or belongs to a connection that is gone; `EndIsAttended` and
  `EndedTurnClosesRun` are about those.
* `EffectIsRecorded` and `StaysAnswerable` leave out overtaken requests; `BoardSettles`
  is about runs without a fault, because a crash or a lost answer may leave
  `responding` or `responseUnknown` on the board for good when the request was closed
  meanwhile.
* `ToldIsFirstFact` and `RejectedHasNotStarted` make an exception for a reader that
  did not finish within the second `start_turn` gives it.
* `EndIsAttended` says nothing of an entry whose connection was replaced before it
  was made (`transport.py:324`): it is told `unknown` when the next one is lost. Nor
  does it promise a report when idleness was announced before `turn/completed`
  (section 4).
* The `transport` run ends every turn as `completed`; any other word of the App Server
  goes the same way and is told as itself or as `unknown` (`CallbackStatus`).

Fairness. `Gateway`: weak fairness of each handler thread, worker, callback and of the
reader (Python schedules its threads, and the App Server answers); of `GetRun`
(clients poll an open Run, and a poll starts a worker once the delay has
passed); and of `Reconnect` (the next request connects). Nothing is assumed about
probes, which need an announcement of idleness that finds the entry registered
(`transport.py:605`-614), about clients starting, interrupting or reclaiming, nor
about turns ending. `SdkWorker`: weak
fairness of `start_turn`, the reader and `interrupt_turn`, which all have deadlines or
block on a pipe, and of the exit of a worker whose loop is over; the SDK need never
stream or end. `Paging`: each request is answered or times out.

Every property of a passing run has a mutant of the code in `PROJECT.json` that
breaks it under the same configuration: a second look left out, an `unknown`
that rewrites an outcome, a finished turn not remembered, a table entry read and
not taken, a stale reader that may mark, a late pair of events that restores
authority, a lock asked for too late. The mutants' definitions stand beside the
originals.

## 4. Findings

Each is a run that TLC finds violated; `PROJECT.json` quotes the comment, docstring
or document it disagrees with.

1. `_project_external_turn` does not exempt the turn of a Run that is starting
   (`gateway.py:239`), as the handler of `turn/started` does.
2. A disconnection during `turn/start` is reported as `TransportRejected`
   (`transport.py:517`), so a Run with a running turn is failed.
3. The last `thread/read` of `start_turn` connects again if the connection was lost
   after `thread/resume` (`transport.py:357`, 198), and `turn/start` goes out on a
   connection that is attached to no thread (319).
4. A handoff that fails writes `managed` over whatever took the Session while its
   interrupt was unanswered (`gateway.py:1006`), and moves no generation, though
   `docs/BETTER-SUBAGENT-CONTRACT.md:28` has every change between managed and external
   move it: `HandoffActive`, `ReadProject`, `InterruptRejected`, `HandoffFailed`. Line 132
   of the same document says that the Gateway does not take control back.

One race of the transport is what `Stranded` and the exception of `EndIsAttended` are
about. The reader looks for the entry of an ended turn and, finding none, stores an orphan
under a second lock (`transport.py:599`-604). If `start_turn` registers the turn in
between (324-327) it finds no orphan, and the entry waits beside one:
`ReadIdle`, `ReadCompleted`, `ReaderFinish`, `Register`, `ReaderOrphan`. The announcement of
idleness that follows starts a probe; if it came before `turn/completed`, as in
`tests/test_app_server_transport.py:226`, nothing reports the end before the connection
is lost, and a live Run is never reconciled (`gateway.py:162`).
`tests/test_app_server_transport.py:169` expects such an end to be held and merged.

Two more divergences are behaviours of `Gateway`'s `handoff` that its safety
properties leave out:

* `handoff` judges a Session by `runtimeStatus`, which is still idle while its Run is
  starting (`gateway.py:964`), and completes at once: `HandoffIdle` after `StartCreate`.
  `docs/BETTER-SUBAGENT-CONTRACT.md:134` makes it wait for the terminal callback.
* `handoff` interrupts an `unknown` Run and may make it active again
  (`gateway.py:973`): `HandoffActive`, `HandoffFailed`. Line 99 says that `unknown`
  fails closed.

## 5. Proofs

Every theorem holds for every value of the constants that satisfies the module's
`ConstantsAssumption`: `None` is no id, the selectors are subsets of what they select
from, bounds are natural numbers. So it holds for any number of Sessions, Runs, turns,
threads, requests, connections, processes, messages and faults. Each proof is an
induction on the invariant named below.

### `Gateway`

| Theorem | Statement |
|---|---|
| `AlwaysInductiveInvariant` | `Spec => []InductiveInvariant` |
| `AlwaysWellFormed`, `TypeCorrect` | `Spec => []WellFormed`, `Spec => []TypeOK` |
| `OneRunAtATime` | `Spec => []SingleOccupancy` |
| `RequestNamesOneRun` | `Spec => []OneRunPerRequest` |
| `GenerationIsAFence` | `Spec => []GenerationFencesRun` |
| `GenerationsCountSwitches` | `Spec => GenerationCountsTakeovers` |
| `OutcomesAreFinal` | `Spec => TerminalIsFinal` |
| `OutcomesAreFacts` | `Spec => []OutcomeIsFact` |
| `LiveRunsAreWatched` | `Spec => []LiveHasWatcher` |
| `EndedRunsHaveStopped` | `"disconnect" \notin Faults /\ Spec => []TerminalRunHasNoRunningTurn` |
| `UnknownsStayClosed` | `"handoff" \notin Operations /\ Spec => UnknownFailsClosed` |
| `ActivityHasATurn` | `RecentLimit > 0 /\ Spec /\ [][~Interference]_vars => []ActivityIsJustified` |
| `GatewayImplementsLedger` | `Spec => ImplementsLedger` |

`GenerationCountsTakeovers` has the exception of finding 4 in its statement. The
hypotheses are needed. `gateway_rejected` is the counterexample to
`EndedRunsHaveStopped` without its own (finding 2), and section 4 says what a handoff
does to an unknown Run; crashes, timeouts, refusals and failed probes are allowed in
both. `ActivityHasATurn` allows timeouts, refusals, failed probes and every operation,
any number of turns, and several Sessions on one thread, but not these steps
(`Interference`), each of which may leave a Session active for a turn that is over:

| Step | What it does |
|---|---|
| `Restart`, `Disconnect` | the notification of the end is lost |
| `HandoffFailed` of a Run that has not ended, while its Session is external and active | the Session becomes managed and stays active for the external turn (`gateway.py:1006`, finding 4); the end of that turn releases only external Sessions |
| `PutCommit` with an activity read before the lock, when no end of a turn of that thread is on its way any more | stores `active` over what the end made idle (`gateway.py:1036`) |
| a full PUT that moves an active Session to another thread | the end of the turn no longer finds the Session (`gateway.py:1051`) |
| any step with which `recent` forgets a turn a worker is about to project | the worker takes the turn for a running one (`gateway.py:91`, `237`) |

The code does take these steps; what it promises is what the theorem says of all others.
That the deque has 256 places bounds nothing here: it may forget any turn no worker is
about to project.

The argument has four layers.

* *Well-formedness.* `TypeOK` is not inductive: a handler thread indexes the board with
  its locals, so they must be set (`LocalsSet`), and everything that waits to be
  reported (a watched turn, a callback, a worker) must name a Run that exists
  (`ReferencesConsistent`), which must have a Session (`BoardConsistent`).
  `WellFormed` is that conjunction.
* *Writes to the board.* `GatewaySteps` says once what any step may do to the board
  (`StepWrites`): a *session write*, which keeps registrations, never lowers a
  generation and leaves the Session managed if the generation stands; and either a *run
  write*, which rewrites one Run, keeping its ids and an outcome it already has, or
  `StartCreate`. Occupancy, requests, generations, the finality of outcomes and the
  ledger follow without looking at the actions again: only `StartCreate` can make a
  second occupant or reuse a request, and its guard `Admissible` excludes both; a run
  write maps to `Settle` or a stutter of the ledger, `StartCreate` to `Admit`.
* *Where reports come from.* `GatewaySteps` then lists what may become of one Run
  (`RunMoves`), one turn (`TurnMoves`), one call (`CallMoves`) and of what waits to be
  reported. On these `Provenance` is inductive: a turn belongs to one Run, whoever is
  about to report a terminal status of a Run has it from that Run's turn or only knows
  that it is unknown, and so has the board. `OutcomeIsFact` follows, and with the
  hypothesis above `TerminalRunHasNoRunningTurn`. `AllWatched` says that the callback of a
  live Run is in somebody's hands, phase by phase.
* *Why a Session is active.* Over a living connection every step is one `Delivery`: a
  message is sent, one is read, or the reader goes on with the one it has
  (`StepDelivers`). So the end of a turn is announced once and remembered before it is
  handled (`OneEnd`), the beginning of a turn is read before its end (`EventsInOrder`,
  `ReaderInOrder`), and a turn a worker is about to project is running, has its end on
  the way, or is in `recent`, where the worker looks (`WorkerKnows`). With
  `ActivityIsJustified` itself these make the inductive invariant `Undisturbed`. A step other
  than `ReadRelease` leaves each Session not active, active for the cause it had, or
  active for a new one (`Explained`); `ReadRelease` takes one cause away and releases the
  Sessions that had no other (`ReleaseIsJustified`).

### `AppServerTransport`

| Theorem | Statement |
|---|---|
| `AlwaysAuthority`, `TransportTypes` | `Spec => []Authority`, `Spec => []TypeOK` |
| `TransportIsCallback` | `Spec => ImplementsCallback`, the refinement of `TurnCallback` |
| `AlwaysAccounted` | `Spec => []Accounted` |
| `OutcomesHaveReasons` | `Spec => []OutcomeHasReason` |
| `AlwaysAttentive` | `Spec => []Attentive` |
| `EndsAreAttended` | `Spec => []EndIsAttended` |

Three invariants, each resting on the one before. `Authority`: one connection at a time is
up, callers and requests agree, and a callback has one holder (`OneHolder`): an entry of
`_turns`, the caller that merges an orphan, a reader, a probe, the loss of a connection,
or it has been called. That gives the refinement. `Accounted`: a caller has at most one
request on the wire or its response on the way back, a thread has one running turn,
nobody has seen an end that has not happened, and every outcome on its way has its reason
(`Reasons`). Two facts make a probe trustworthy: a thread is not announced idle over the
connection on which its running turn was accepted (`Idles`), and a probe is made for a
connection not older than its turn's and not newer than the one in use (`Aimed`), so that
one which fails over another connection has a turn whose own is lost. `Attentive`: an announced
end of a turn that is not yet registered is still unread, one of a registered turn is
sought by somebody (`Followed`), and a tombstone fences what has been told (`Fences`).

### `SdkWorker`

| Theorem | Statement |
|---|---|
| `WorkerTypes` | `Spec => []TypeOK` |
| `WorkerIsCallback` | `Spec => ImplementsCallback` |
| `OutcomeIsFirstFact` | `Spec => []ToldIsFirstFact` |
| `RejectionIsTrue` | `Spec => []RejectedHasNotStarted` |

`WorkerInv` says where starter, reader, interrupter and process stand with each other
(`Lifecycle`), that a reader past the last line leaves nothing in the pipe unless it was
given up on (`Drained`), what the flags promise (`Authority`), and that flags and reports
are a function of the lines read so far (`Reading`).

### `Approvals`

| Theorem | Statement |
|---|---|
| `AlwaysApprovals`, `ApprovalTypes` | `Spec => []ApprovalsInvariant`, `Spec => []TypeOK` |
| `DecisionsAreRecorded` | `Spec => []EffectIsRecorded` |
| `RequestsStayAnswerable` | `Spec => []StaysAnswerable` |
| `WaitingIsForARequest` | `Spec => []WaitingHasRequest` |
| `FaultlessBoardsSettle` | `Spec => []BoardSettles` |

A request is untouched until one call is admitted, and then board, call and wire have that
call's decision (`OneDecision`); an untried request that has arrived is pending
(`Offered`); what the transport takes for answered was sent (`AnswersSent`). `BoardSettles`
needs to know more of runs without a fault (`Faultless`): messages arrive once and in
order, the record of a request is there from its arrival until the note that it is closed,
and a record that is responding has an answer on the way or a call that will send one.

### `SqliteGatewayStore`

| Theorem | Statement |
|---|---|
| `StoreInvariant`, `StoreTypeCorrect` | `Spec => []Inv`, `Spec => []TypeOK` |
| `ReadsWhatWasCommitted` | `Spec => []ReadIsCommitted` |
| `StoreIsABoard` | `Spec => ImplementsBoard`, the refinement of `Board` |
| `ServesOnlyPlaced` | `Spec => []ServesPlaced` |

`Inv` adds to `TypeOK` what each thread knows (`ThreadInv`): a thread that saves holds
the write lock (`OneWriter`), so what its block made of the board it read is still what
it would make of the committed one (`WorkIsOutcome`); the tables it has saved are those
of that outcome (`WrittenSoFar`), all of them at `Commit`, which is therefore a step of
`Board` or, for a migration already made, a stutter. A reader's tables are those of its
snapshot, which was committed (`ReadSoFar`). `ServesPlaced` rests on a second layer,
`StartInv`: a thread in a task holds its process's `_thread_lock` and its task fits the
phase (`TaskFits`), so a process leaves its migration only by committing it
(`MigratesFirst`), and no block takes a device away except the taking over of an old file.

### `Paging`

| Theorem | Statement |
|---|---|
| `AlwaysPaging`, `PagingTypes` | `Spec => []PagingInvariant`, `Spec => []TypeOK` |
| `HistoryHasEveryTurn` | `Spec => []HistoryIsComplete` |
| `ExactCounts` | `Spec => []ExactIsACount` |
| `ActiveIsReported` | `Spec => []ActiveIsSeen` |
| `OnlyTheAbsentIsDenied` | `Spec => []DeniedIsAbsentOrUpdated` |
| `RecapsAreLatest` | `Spec => []RecapIsLatest` |

`PagingInvariant` is a loop invariant per loop over a list that changes meanwhile: turns
are added at the end and the last one ends (`ListGrows`), Threads move to the front. The
history so far is turns 1 to the cursor (`HistorySound`); a Thread that was listed when
the lookup began and has not been updated is still behind the cursor (`LookupSound`);
the newest turn is on the first page, so an active one is seen there (`FindSound`); no
turn listed had a message (`RecapSound`); the count is at least that of the listed turns
completed at first and at most that of those completed now (`OverviewSound`), between
which the number of completed turns passed through it.

### Only model-checked

* The liveness properties `EndedTurnClosesRun`, `DeadIsSettled` and `LoopsEnd`: out of the
  prover's reach, as is anything with `ENABLED`.
* The properties of the runs that expect a violation.

No proof is missing a leaf, and none rests on an assumption beyond
`ConstantsAssumption` and the hypotheses printed above.

## 6. Plan

Done: the six specifications with their runs, and a theorem for every safety property,
action property and refinement of a passing run. The three liveness properties stay
with TLC. What could be added is a model of the read-only projections of section 7, should
they come to keep state.

## 7. Not modelled

* The transcript and agent tree projections of `codex_agent.py` and `gateway.py`
  608-779: functions of one page without loop or state; unit tests reach them.
* `server.py` and `__main__.py`: routing and I/O; their concurrency is the set of
  callers in the models.
* Field validation in `contracts.py`: it refuses requests and changes no state.
* WebSocket frames, the heartbeat, the contents of requests, log files and texts.
* `thread/status/changed` in `Gateway` beyond what `turn/started` does there.

## 8. Running

```sh
tlc -workers 2 -config MCGatewayStarts.cfg MCGateway.tla
tlc -workers 2 -config MCTransport.cfg MCTransport.tla
tlapm GatewayTheorems.tla
tlapm AppServerTransportProofs.tla
```
