# tsm-agt in TLA+

A verification development of the tsm-agt runtime: TLA+ modules that model its concurrent core, TLC
configurations that check them on small instances, and theorems that TLAPS proves for every value of
the constants. Paths below are relative to `src/tsm_agt/`; `PROJECT.json` maps every definition to the
lines it models.

## 1. The system

tsm-agt runs engineering *Tasks* for a user. A process (web server or CLI) holds one asyncio loop, one
`EngineeringAgentClient` and one `Kernel`; every process works on the same workspace and the same SQLite
file `.agent/runtime.db`. Store calls never suspend, so on one loop a load and the commit that follows it
are atomic; between processes only the version check of `SQLiteRuntimeStore.commit` orders them. Everything
that awaits - model, provider, approval, subprocess, lock, sleep - lets other coroutines in.

| Component | State it keeps | Operations | Hard part | What makes it correct |
| --- | --- | --- | --- | --- |
| Task lifecycle and Turns (`core/task.py`, `kernel*.py`, `conversation_loop/`) | Task row: state, request, checkpoint, execution ledger | create, Turn steps, approve, answer, interrupt, resume, cancel, settle orphans | handlers run wherever the driver awaits; crashes; a second process | a waiting Task has its request; nothing runs without consent or twice; an end is final; Turns end |
| Tool batch (`core/turn_tool_batch.py`, `tool_concurrency.py`) | pending calls, gate lock, `running`, `stopped` | take a group, guard, observe, drain, stop, suspend, cancel | workers give the lock up and take it back, cancellation meets them anywhere | unsafe calls run alone; each call is answered once; no worker outlives the batch |
| Background processes (`core/kernel_process.py`, `adapters/local_process/`) | record in the row, executor entry, pumps, deadline timer | start, wait, poll, stop, deadline, clean-up | five closers of one process, a descendant on the pipes, crashes | finished means over; running has a deadline; stops return; no process outlives its Task |
| UI stream (`sdk/ui_events.py`, `adapters/evented_runtime_store.py`) | signal per Task, cursor, page, snapshot, what it said of a redirect | watch, read a page, deliver, snapshot, sleep | a commit between read and sleep, connections that come and go, redirects that end unseen | every event arrives; no snapshot ahead of the events; settled streams end |
| Command receipts (`sdk/runtime.py`, `runtime_store.py`) | one row per command id | claim, execute, complete, fail | retries, cancellation, crashes, refused writes, two processes | executed at most once; a replay is true |
| Workspace (`core/kernel_workspace.py`, `core/workspace.py`, path locks) | files, journal in the row, manifests, locks | write, delete, roll back, one file or several; recover | failure or crash between file, journal and manifest | files and journal agree; roll-backs are single and in order; no deadlock |
| SDK runners (`sdk/runtime.py`) | the registered runner, pending redirect and its target, unwinding Turns | message, answer, interrupt, resume, cancel, end of a runner | the loop runs any of them while an older Turn unwinds | one Turn goes on at most; a stopped Task has none; messages are heard in order; each accepted one comes to an end |
| Steering (`core/kernel_input.py`, `kernel_steering.py`, `kernel_checkpoint.py`) | queue and applied records in the row, transcript of the checkpoint | route an input, queue it, apply it at a safe point, save, suspend, resume | a message between a safe point and the next save, from any process, sent twice | queued and applied once and in order, kept, outside a batch, heard before the Turn goes on |
| Sessions (`core/kernel_session.py`, `create_task`, the chat loop of `cli.py`) | Session row, its events, its Tasks, follow-ups, a menu | create, attach, queue, consume, cancel, ask, answer, close, archive | several processes load, decide and commit | no lost update; a follow-up becomes one Task at most; a closed Session holds no Task that runs (but see section 5) |
| Conversation loop (`core/conversation_loop/`, `adapters/resilient_model/`) | counters of the checkpoint and of the driver, attempts of a request, text shown | sample, retry, fall back, correct, supersede, finalize, continue, resume | the stream is shown before it is recorded; a failure, a stop or a crash at any point of a round | one text shown, and it is the recorded one; no answered request sent again; rounds and continuations bounded |
| MCP servers (`ports/mcp.py`, `adapters/mcp_tool_provider.py`, `mcp_python_sdk_client.py`) | startup tasks, clients, locks, owner tasks of sessions | start, get a client, discover, call, time out, close, stop | a stop or a cancellation meets starts that are half-way; servers that hang or die | one session per server and none after a stop; start and stop come back; a call reported as not sent never runs |
| Runtime store (`adapters/sqlite/`) | rows, versions, events, Sessions | commit, read | optimistic concurrency, contiguous sequence | the version check, part of every module above that commits |
| Cancellation scopes (`core/cancellation.py`) | tree of scopes | open, cancel, close | callbacks during a cancellation | descendants are cancelled, once |
| Context, policies, provider formats, web, evaluation | see `PROJECT.json` | | sequential or I/O | |

Interaction: the SDK starts *drivers* (one coroutine per live Turn), which call the loop, which calls the
batch, which calls the tool mixin, which starts providers: processes and workspace operations among them.
User handlers and settlements act on the same row. Every commit of the store wakes the UI streams of its
Task. Requests of the web reach the SDK through command receipts, where the SDK decides which runner goes
on (`TurnRunners`) and the kernel where a text goes (`Sessions` for the Task, `Steering` for the Turn). Within a
Turn the loop samples the model, shows what arrives and decides when the Turn may end (`ConversationLoop`).

`PROJECT.json` lists every component with its sources and status, and the hazards at the lines where they
bite.

## 2. The modules

| Module | Models | Composition |
| --- | --- | --- |
| `TaskStates` | `TaskState` and `LEGAL_TRANSITIONS` | constant-level, used by `TaskLifecycle` and `TurnRunners` |
| `TaskLifecycle` | the Task row, the driver of each process and all handlers | extends `TaskStates` |
| `SharedCalls` | what a batch promises: safe observations overlap, anything else runs alone | abstract specification |
| `ToolBatch` | `run_tool_batch` and `ToolExecutionGate` | implements `SharedCalls` (property `UnsafeRunsAlone`) |
| `BackgroundProcess` | processes of one Task | |
| `EventStream` | commit signal and `subscribe_task_ui` | |
| `CommandReceipts` | `_command` over `runtime_commands` | |
| `WorkspaceTransaction` | changes, manifests, journal, recovery, path locks | |
| `TurnRunners` | runners, redirects, answers and commands of one Task in the SDK | extends `TaskStates`; takes the end of a Turn from `TaskLifecycle` (`TurnsEnd`) |
| `ConversationLoop` | the rounds of one Turn: attempts, text, gates, counters | extends `TaskStates`; takes batches from `ToolBatch` and the order of Turns from `TurnRunners` |
| `Steering` | inputs from their routing to the transcript, with the Turn that saves it | refines the part of `TaskLifecycle` where a Turn reads its row |
| `Sessions` | one Session, its Tasks and follow-ups, the chat loop and callers of the kernel | |
| `MCPServers` | the MCP tool provider, its client manager and the SDK sessions of one process | |
| `MC*` | small instances | extend the module they name |
| `Services_proofs` | theorems about the four services around a Task | extends `CommandReceipts`, `BackgroundProcess`, `EventStream`, `MCPServers` and TLAPS |
| other `*_proofs` | theorems | extend the module they name and TLAPS |

The four services are proved about side by side in one module, so their specifications have names of their own
(`ReceiptSpec`, `ProcessSpec`, `StreamSpec`, `ServersSpec`, and `receiptVars` to `serversVars`); they share no state.

### TaskLifecycle

`row` is the durable row, `drv[p]` the driver of process `p`, `phase[p]` whether the process is up, down or
settling orphans, `cancel[p]` how far its cancel handler is. `used`, `runs`, `consent` and `stopping` are
histories the properties speak of. One action is one commit, or what a coroutine does between two
suspensions. Handlers of the user are enabled only while the driver of that process is suspended (`Free`);
the actions of another process always. A stale write shows as `VersionConflict`, or, where the code writes
a remembered row with a re-read version (`PrepareApproved`), as that row. Names of actions follow the
functions; `map` has the lines.

A checkpoint is abstracted to what its transcript says of each call (unseen, pending, answered, declined,
cancelled); the ledger to the commit state of each execution. Guards, budgets and reviewers are
nondeterministic answers.

Left out: reconciliation of unknown outcomes by the user, the CONTINUATION action, token renewal of a
clarification, NEEDS_REVIEW (nothing enters it: `bootstrap/composition.py` passes no final acceptance
policy), the rows of workflows and of planning.

### ToolBatch

`pc[c]` is the worker of call `c`, `holder`/`queue` the asyncio lock with its FIFO, `running`, `stopped` and
`settled` the gate. A cancellation is a request which a worker meets at its next resumption (`cancelling`),
so a worker can be cancelled while it waits for the lock, observes, drains, or takes the lock back.
`results` and `declined` are the two ways a call is answered.

### BackgroundProcess

`leader`, `heirs`, `signalled` are the operating system's side; `owned`, `pump`, `kept` the executor's;
`record` and `timer` the kernel's; `closer[k][p]` says where closer `k` (a watching or late observer, a stop, the
clean-up, the deadline) is with process `p`. There is no clock: a deadline may pass at any time. The clean-up
takes its processes in any order rather than that of the record. TERM followed by KILL is the death of the
group, fair while a stopper waits. One observer watches a process at a time. The executor's own stop is
covered by a crash after the exits.

### EventStream

`object` is the signal the store would notify, `users` its count, `mine[r]`/`woken[r]` what reader `r`
captured, `reader[r]` where it is. Steps of a reader are at least as fine as the suspension points of the generator. Events are
quiet, shown, settling, interrupting or reopening. `redirect` says that the runner of a successor Turn is live: a
snapshot of an interrupted Task then shows it as running (`Snapshot`), from the moment the SDK publishes that runner
until it returns, whatever the Turn does in between, and neither moment is an event. `held[r]` says that the last
snapshot `r` sent was of that sort. The callback of a runner that ended only notifies (`Progress`). Commits of another
process wake nobody and are left out.

### CommandReceipts

The receipt is a row with status, owner and request hash. A caller claims it, executes while suspended,
and completes or fails it, unless the store refuses that write (`SettlementRefused`): then the call raises and the
receipt stays in progress. Other callers are answered from it. `unsettled` is the history of such callers.

### WorkspaceTransaction

`disk`, `journal`, `manifests` are the durable state, `holder[f]` the lock of a file, `pc[r]`, `job[r]` and
the rest the operation of runtime `r`. An operation reads the manifests (`Begin`), recovers each
(`NextManifest`, `Lock`, `Inspect`, `Restore`, `Recovered`), locks its files in the order of their keys,
prepares, replaces, commits, and on failure puts back what it attempted (`Undo`). Contents stand for hashes
and backups. A roll-back undoes one mutation, a chain of one file (`Cascade`) or chains of several files.
`excused` is a history: why a file may hold what no record says.
The Task's own state is not part of it (an operation refused because the Task is no longer EXECUTING is
`Refuse`), nor are directories, modes, and backups that cannot be read.

### TurnRunners

`runner` is the sequence of asyncio tasks the SDK ever made for one Task: what each one is for, the text it
carries, the runner it waits for (`barrier`), where it is (`pc`), and whether it was told to stop (`stop`). `registered`
is the entry of `_run_tasks`, `redirect` and `target` those of the pending redirect, `routing` and `reply` a message
and an answer under way, `row` the state of the Task. One action is what a coroutine or a handler does
between two waits. A runner that is cancelled meets it at its next resumption; in a foreground command it
swallows it (`Swallows`, `kernel_tool.py:226`) and goes on. `fate` is a history: what became of each text.
Left out: `close`, onboarding, the texts, and what a Turn does (`TaskLifecycle`).

### Steering

`row` holds state, transcript and open batch, `queue` and `applied` the two lists of messages in it, `call[c]` one
call of `submit_task_input` with the row it loaded, `turn` the driver with its own transcript. Loads and commits are
separate steps; freshness is the version check. Queueing and applying load again after a conflict; saving
does not, and a conflict there ends the Turn, as in the code. `path` says how an input was routed (queued, explicit
steer, replacement, supersession of an approval), and `heard` is a history of what each model call was given.
Left out: RUNNING_WORKFLOW, AWAITING_USER and CONFLICT, texts, the goal, specification and memory that a
REPLACE revises, the compaction of the transcript before a sample (`loop.py:967-977`, which may replace messages by a
summary of them), and one input sent by two different routes (`path` is a constant of the input).

### ConversationLoop

`row` has what the checkpoint in the store counts, `drv` the same counters as the driver of the Turn has them and where
it is, `req` the request of the round with its current attempt, `ui` the attempts whose text the user sees and what
the text is marked, `logged` the attempts whose text an event records, `inbox` the steering not applied, `hist` the
rounds and continuations that really happened and the bounds. One action is one commit or one answer of the network.
`Raises` stands for every exception that leaves the loop unrecorded, refused commits among them; `Unwinds` is what the
caller then does. Responses are told apart by what the loop does with them. Where the two meet, failures of an attempt
differ only by what their retry may do: `with_visibility` (`FailedFor`) and the policy (`Decision`) decide from that.
The review budget is a constant of the configuration and a bound; up to one it is the code's number.
Left out: the rebase of a checkpoint that clears `model_calls` (`kernel_checkpoint.py:743-746`), compaction and the
choice of tools before a sample, delays, tokens, a text of blanks, a finish reason of
the provider's own error or cancellation (the loop ends as in `Raises` and `Partial`), what a batch does, and the
`complete` of providers that cannot stream.

### Sessions

`session` is the row, `log` what its events say (the row they replay to, queue, taken, cancelled and atomic
follow-ups, the menu asked), `row[t]` the Task, `command[i]` the row of `session_task_commands` for follow-up `i`,
`client[c]` the process: `Chats` run the loop of the CLI, `Callers` use the kernel. Operations that decide by row and
events alone and load again after a conflict are one action; those that keep what they read while they
read more (attach, consume, close, answer, settings) are a load and a commit, and the commit requires that
nobody committed in between (`SameVersion`). A Task that has ended need not stay so: an approval that passed its checks
before the end prepares its call from the row it remembers, under the version it reads then (`RunApproved`,
`kernel_tool.py:1554`), and puts an EXECUTING row over a cancellation of the other process. `AnswerUser` is therefore
either the whole answer in one process (pc "turn") or an approval that has yet to prepare its call (pc "approved").
`made` and `revived`, the Tasks taken back from their end like that, are histories; `MaxRevived` bounds the second.
Left out: titles, texts, revisions,
hashes, and `active_task_id`, which no decision modelled reads.

### MCPServers

`start` and `host` are the callers of `start` and `stop`, `stopper` the stop task with the close task of the manager,
`clients` what the manager has registered. A seeker (a startup task, or a direct caller of `get_client`) is at `pc[k]`
and may have been told to stop (`told`), which it meets at its next resumption; `session[k]` is the owner task of the
session its factory call opened, with `fault` and `closing`. `call`, `inbox` and `ran` follow a business call, and
`inbox` is what the server received and may still execute. A server is what the code observes of it: it answers
`initialize` or not, dies at any time, and may fail while it is left. `shown` says whose tools are published.
Left out: statuses, health and the discovery tool (they report), names and schemas of tools, what transports do, and a
`start` after a `stop` (the manager stays closed).

## 3. The runs

States are distinct states of a full exploration.

| Run | Instance | Shows |
| --- | --- | --- |
| `task_lifecycle` | one process; a read, a gated non-idempotent write and a question; both kinds; 739k states | requests match the state, non-idempotent calls run once, no run without consent, ends are final, Turns and cancellations come to rest |
| `task_shared` | two processes, one gated write; 1.97M | an end is left only where an approved call is prepared from a remembered row |
| `tool_batch` | three overlapping reads, two of them withdrawn, then a write; two cancellations | calls are answered once, a stopped batch starts nothing, implements `SharedCalls`, ends, and leaves no worker behind |
| `processes_shared` | one process with a descendant, another runtime, one crash; 41k | finished is over, stops and clean-ups return |
| `event_stream` | two connections, pages of two, two events, redirects at any time; 265k | every event arrives, and settled streams end, but for those last told that a redirect was pending |
| `command_receipts` | four callers, two runtimes, two requests; 1.3k | executed once, replays true |
| `workspace` | two files, two contents, two runtimes, two changes, one crash, one foreign edit; 2.36M | files and journal agree, chains hold, no double roll-back, no mutual wait |
| `sessions` | one chat, one caller in another process, three Tasks, one follow-up, one menu, one end undone; 4.34M | no lost update, one Task per follow-up, a closed Session holds only ended Tasks, but for those an approval took back |
| `runners` | three messages, one answer, two commands; 128k | one Turn goes on at most, a stopped Task has none, texts are heard in order, every accepted one comes to an end |
| `steering` | two inputs, the first sent twice, two Turns, two attempts, two samples, batches of two; 2.17M | queued once, applied in order, kept in the transcript, batches unbroken, heard before the Turn goes on |
| `conversation_loop` | three rounds of three attempts, one review, two messages, two resumptions; 2.75M | one text shown and the recorded one, answered requests not sent again, rounds and continuations counted |
| `mcp_servers` | a required and an optional server, a direct caller, one call brought twice; 4.46M | sessions accounted for, a refused call never runs, start and stop come back |

Why the bounds suffice:
- `task_lifecycle`: the three calls are one of each sort the code distinguishes; a Turn can hold all three
  at once, and a second Turn of the same Task starts with whatever the first left. Crashes are unbounded.
  `runs` counts the starts of a repeatable call to one, of another to two (`RunCap`): more are not told apart.
- `task_shared`: a race needs two processes and one call that can be decided, run and cancelled.
- `tool_batch`: a group needs one call that turns out unsafe while others are in flight and a second one
  to contend with it; a serial call behind them shows the next group; two cancellations meet a batch that
  already winds up.
- `processes_shared`: closers race on one process; two are needed only where the clean-up fails half-way, the
  instance section 5 names.
- `event_stream`: pages of two with at most two events give the empty page, the partial page, and the full
  page followed by an empty one; an event that interrupts and one that reopens or settles fit too, and redirects
  begin and end without a bound. Two connections share and hand over the signal; one reconnects.
- `command_receipts`: claimer, retry in the same runtime, retry in another, and a caller with another
  request. The store may refuse any write.
- `workspace`: lock order, compensation and recovery need two files, and a third content besides absent
  and old tells a foreign edit from before and after. The journal begins with a file created, rolled back
  and created again (a state three changes reach), so that two changes more reach double roll-backs and
  chains of two. `excused` files are those of section 5.

- `sessions`: a conflict needs two clients, and each of the two kinds is there once; a supersession needs an old
  and a new Task, and a third to attach while the Session closes. A second follow-up changes only which one
  is consumed first. One end undone (`MaxRevived`) lets a Task run in a Session that was closed over it.
- `runners`: a redirect can be replaced, stopped and followed by a message while the first Turn unwinds, which
  takes three messages and two commands.
- `steering`: duplicates need one input sent twice, order a second one. Two Turns: what the first leaves in the
  row meets the second. Two attempts let a conflict be retried and then given up; two samples put a safe point
  before and after a batch.
- `conversation_loop`: the policy changes its mind at the second attempt and stops at the third. Three rounds are one
  that is rejected or superseded, one that is sent back and one that ends; a REPLACE and another message meet the
  counters before and after a resumption; two resumptions let a counter be lost twice.
- `mcp_servers`: a direct caller and the startup task compete for one lock and the optional server for the stop's
  attention; one call, brought again after a refusal, meets the stop and the end of its session. Sessions do not come
  back, so nobody fails twice.

Deadlock is not checked where the system may really stop (a batch that ended, an ended Task, no more
commits or connections, receipts settled, no texts or Turns left, a Turn that nobody resumes, a stopped provider); the Task, workspace and Session instances are
checked for it.

Every module states its type invariant (`TypeOK`, or `ReceiptTypeOK` to `ServersTypeOK` in the services). It, or its types
with the bounds of the counters left out, is part of the invariant each proof module carries, and of
no run. Other definitions stay stated in the modules without a run: `AnsweredHasEnded`, `StartsOnlyWhileExecuting`,
`ClaimsHaveDrivers`, `RefusedNeverRan`, `RequestPresence` (`TaskLifecycle`), `LockMatchesWorkers`, `DeclinedNeverStarted`, `DrainingEnds` (`ToolBatch`),
`RunningHasDeadline`, `DeadlineHasProcess`, `KeptMatchesRecord`, `EndStopsWhatItFound` (`BackgroundProcess`),
`SleepersMissNothing`, `SnapshotNeverAhead`, `WatchersShareSignal` (`EventStream`), `CancelledNotConsumed` (`Sessions`), `ReceiptFollowsCoroutine` (`CommandReceipts`). They hold, most are
proved, and each can be added to the configuration of its module; the runs keep to the properties that say most.

### Fairness

- `TaskLifecycle`: weak fairness of a live driver and of a settlement, because model and tool calls have
  deadlines; strong fairness of the cancel handler, because the loop runs every ready callback while the
  driver suspends again and again. Nothing makes the user act or a crashed process return.
- `ToolBatch`: the loop resumes whatever can go on, and `asyncio.timeout` ends each provider. Nobody has
  to cancel.
- `BackgroundProcess`: closers resume, deadlines pass, pumps end when the pipes close, and the group dies
  only while a stopper waits for it (TERM, then KILL). A command need not end by itself.
- `EventStream`: a reader whose frame was taken or whose event is set goes on. Nobody has to commit, and no redirect has
  to end.
- `TurnRunners`: the loop runs ready coroutines, callbacks of ended tasks and the timers that withdraw a wait;
  a Turn that is told nothing ends by `TaskLifecycle!TurnsEnd`. Nobody has to send a message.
- `Sessions` and `Steering` have no liveness property: their retries after conflicts are bounded by the code
  (or, for the retries of the CLI, by the user), and nothing promises that the user tries again.
- `ConversationLoop` has none either: a round is bounded by its attempts and a Turn by its rounds, but a resumption
  is the user's.
- `MCPServers` states its liveness as an invariant: while somebody waits for a start or a stop, some step that needs no
  server is ready (`AwaitedGoesOn`). Ready is written out as guards, one predicate per step, and the run checks that
  these are exactly the states in which such a step is enabled (`NoStandstill`). Every step takes a coroutine, a session
  or a call further and none goes back, so these steps end only when nobody waits; both halves of that argument are
  proved (`AwaitedServersGoOn`, `ServersGoForward`). The fairness it rests on is that the loop resumes what is ready,
  startup timeouts fire and the SDK leaves its contexts. No server has to answer.
- `WorkspaceTransaction` has no liveness property: the file lock is polled (`posix_lock/lock.py`), so an
  operation may in principle starve; that no two wait for each other is proved.

## 4. The proofs

All theorems hold for every value of the constants that meets the named assumptions.

**`TaskLifecycle_proofs`**, for any processes and calls (`CallAssumption`, `KindAssumption`,
`NoneAssumption`): the row, drivers and histories keep their types (`TypeCorrect`), and a waiting Task has
its request while an ended one has none (`RequestsPresent`), whatever stale row a process writes back. The
second is inductive only together with the rows that drivers and requests remember: a remembered row must
itself be well formed, since `PrepareApproved` puts it back. The same step is the only one that moves an ended Task
(`OnlyApprovalsOverwrite`), however many processes act on it. The argument goes through the handlers: each looks at the
row it moves (`SamplingEnds`, `InvokingEnds`, `OutsideEnds`), and a state that has legal successors though it is an end,
NEEDS_REVIEW, is never reached (`Held`).

Its second half is for one process (`OneProcessOnly`): no gated call starts without consent
(`GatedRunsHaveConsent`), calls start only while EXECUTING (`StartsWhileExecuting`), ends are final
(`EndsAreFinal`), a non-idempotent provider starts at most once (`NonIdempotentStartsOnce`) and refused calls
never ran (`RefusedCallsNeverRan`). The strengthening (`Agrees`) says that the row a driver carries past an
approval is the row in the store, that a driver about to run a call holds its consent, and that `runs` and
the ledger agree: 0 before RUNNING, at most 1 after it for a non-idempotent call. With two processes the
first part is false, and so are the theorems: see section 5.

Also for one process, a request always matches the state (`RequestsMatchStates`). On top of `Agrees` this needs to know
(`Waits`) that a Task that waits has no driver, and an interrupted one at most a driver that reopens it; that every
request is about a call its checkpoint holds open and of which nothing was executed, since only such a call can be
asked about again after an interruption; and that a driver about to invoke a call has saved the checkpoint in which it
is open. While a cancellation is under way (`stopping`) the calls may be closed before the request is gone. A second
process could move the row between a driver's load and its request, so the argument is for one.

Its third part is for any processes again, and about going on. Nothing sets a Turn back, and each step of its driver
uses up a call identity, answers a pending call or moves the call in hand on (`TurnsGoForward`); and a Turn that has
begun can go on wherever it stands (`TurnsGoOn`): its process lives, the call in hand is one its transcript holds
open, an approved call carries a row that asks for nothing, and every state of the ledger gives an invocation an outcome,
also one another process wrote. Calls are finite, so these two are what `TurnsEnd` needs besides fairness. Half of
`TaskSettles` is an action property and proved whole (`CancellationsSettle`): an accepted cancellation ends the Task or
goes with its process. It rests on the states the row can be in (`Held`): no commit leaves RESUMING, the state that may
not be cancelled, behind.

**`ToolBatch_proofs`**, for any calls, order and limit (`OrderAssumption`, `NoneAssumption`,
`SubsetAssumption`): the lock is held by exactly the worker doing bookkeeping (`LockHeldByBookkeeper`), each
call is answered once (`EachCallAnsweredOnce`), and the batch implements `SharedCalls`
(`BatchImplementsSharedCalls`: initial states map to initial states, steps to steps or stutters). The
invariant has the parts `Shape`, `InFlight` (`running` is who is observing or on the way back),
`NobodyBeside` (an unsafe call runs with `running` empty), `OneBySelf`, `BetweenGroups` and `Owed`. A stopped batch
starts nothing (`StoppedBatchStartsNothing`): a record leaves "new" at the guards only (`StartsAtGuards`), which needs
that what runs has its record (`Begun`), and from the first outcome or declined call on no worker is at the guards and
none will get there (`NothingToStart`, `NobodyAtGuards`): those that wait for the lock find the gate stopped, and those
that come back from their providers go on to record.

Two results of that module are about the lock's queue. A call that is told it was not started has not been started
(`DeclinedCallsNeverStarted`). A stop answers for every pending call that `gate.running` does not name, so the danger is
a sibling that is off `gate.running` again and fails with its call pending. The queue excludes it (`InLine`: those that
wait for their first turn stand before those that come back), so once somebody is back nobody has his first turn ahead
of him (`Overtaken`), and what has not had its first turn is new (`Unstarted`). This needs the lock to be first come
first served, as `asyncio.Lock` is. And whatever failed or was cancelled, the batch leaves no worker, no lock and no
queue behind when it returns (`BatchLeavesNothing`).

Two more say that an open batch comes to its end. While a group is open its Turn or one of its workers can go on
(`OpenGroupsGoOn`): who drains was woken by `gate.settled` or has a sibling in flight, so the last one to settle wakes
somebody (`WokenOrAwaited`), and who waits for the lock is in its queue (`AllInLine`). And it only goes forward
(`BatchOnlyAdvances`): no worker goes back, a worker's step brings it further or to its next look at the gate, no
call becomes pending again, and a group that returns to the loop has answered one of its calls (`Goings`), or the loop would
collect it again for ever. What is left to TLC besides fairness is the first step of a pass, which takes the pending
calls in order: that a finite set can be enumerated in order is an induction.

**`Services_proofs`** has four parts, which do not depend on each other.

*Receipts*, for any callers and runtimes (`HomeAssumption`, `NothingAssumption`): `ExecutesOnce`, `ReplaysAreTrue`,
`ReceiptsFollow`, from an invariant that ties a receipt in progress to its owner alone and a completed one to somebody
who applied it. The third says how far the comment at `sdk/runtime.py:2031` can be kept: a receipt stays in progress
behind a coroutine that ended only when its runtime died or the store refused the write that settles it.

*Processes*, for any processes, with or without a second runtime, any number of crashes (`StopAssumption`,
`DaemonAssumption`, `StatusAssumption`: no status means none of the endings): a record that says how a process ended is
right that it ended (`FinishedIsTrulyOver`), running processes and deadlines belong together (`DeadlinesMatchProcesses`),
executor and row tell one ending (`KeptIsRecorded`), and what the clean-up found does not stay RUNNING
(`EndHasStoppedWhatItFound`). The invariant (`ProcessGood`) is the chain from the operating system to the row: the pumps
end only when nobody can write any more, only a closer that saw them end keeps an ending, and only a kept ending is
recorded (`OverWhenSaid`). For that chain not to break, pumps, endings, timers and closers must belong to processes this
runtime owns (`OwnedOnly`), and a process must be unknown until its start is committed (`Unknown`). And whoever
stops a process waits only for what is to come about (`StopsGoOn`): for a group it has signalled, for pumps whose
pipes are closed, or for pumps that ended (`Attendance`), through cancellations, failures and crashes, unless a
descendant that outlived the group's leader keeps the output open.

*Streams*, for any readers, page size and bounds (`PageAssumption`, `BoundsAssumption`): a reader nobody will wake
has read all and was told how the Task rests, unless its last snapshot said a redirect was pending
(`SleepersHaveReadAll`), no snapshot is ahead of what was delivered (`SnapshotsFollowEvents`), open connections share
one signal and are counted once (`WatchersAreCounted`). The first is the subtle one: its invariant (`CaughtUp`) says of a reader whose captured signal is not set that a short page
reaches the end of the log, and that past its last page it stands there. Every commit sets what the readers captured,
because all of them watch the object the store notifies (`Shares`, with the count of users as the cardinality of the
open readers, or the last but one to leave would take the signal along).

*MCP servers*, for any servers, required ones, callers and calls (`ServerAssumption`, `NoneAssumption`, `CallAssumption`):
`SessionsAreAccounted` and `CallsRunAtMostOnce`. The invariant of the first says who answers for a session (`Accounted`):
the seeker that opens it and so holds the lock, the manager that registered it, the close task that took it, or, in the
case section 5 names, nobody any more because it broke before its factory looked (`BrokeEarly`). Inside the factory
nothing is registered for the server (`BeingOpened`), which one lock with one holder (`LockHeldOnce`) preserves; and a
closed manager has no startup left, opens nothing, and frees each lock it has passed for good (`ShutDown`), so that what
the close task takes is all there is. The second has its own invariant: a call is at its server once if it was sent, and
not at all if it was not (`CallGood`). While start() or stop() is awaited, a step that needs no server is ready, unless a
direct caller holds the lock of a server that does not answer (`AwaitedServersGoOn`): the invariant (`Underway`) says
that each seeker has what its place needs, every server has its startup once start() began, a session that is to be
closed was opened, and whoever stops has a close task. Each such step takes something further and none takes anything back
(`ServersGoForward`, by a stage for every coroutine and session).

**`WorkspaceTransaction_proofs`**, for any files and runtimes (`FilesAssumption`, `NobodyAssumption`, and for the
second `BegunAssumption` and `BegunRevertsAssumption`, which say that the journal the Task starts with is well formed):
no two operations wait for each other (`NeverWaitMutually`), and a mutation is rolled back at most once, a roll-back
never (`RollsBackOnce`). The invariant of the first: what an operation still wants comes after everything it holds, it
asks for files only while it holds none, and every manifest, present or remembered, is about files of the workspace.
The second rests on the version check: while nobody has committed since an operation loaded the row (`fresh`), the
mutations it undoes are still active (`StillActive`), and the records it appends undo each of them once.

Files and journal agree (`JournalAlwaysMatchesDisk`) and the records of a file are a chain (`JournalAlwaysChains`), for
any number of runtimes, although sweeps read manifests before they lock (section 5; the files that hazard touches are
in `excused`). This takes `InitialAssumption`, `AbsentAssumption` and `BegunChainAssumption` (what the Task has done
before the model begins starts from the initial contents and is a chain, as its own commits leave it). The invariant
(`Agrees`) says what an operation knows under its locks: each of its files holds the content before or after the
transaction, depending on whether the operation has got to it (`FileGood`), and the one before is what the records say
until the commit. A file nobody works on holds what its records say, or what an uncommitted transaction with a manifest left there
(`Settled`, `Explained`); and a transaction that is not committed, wherever it is still remembered, would put back what
the records say unless later ones exist (`Based`), so recovering it is right; where later ones do exist the file is
excused ("unswept"). Transactions are numbered in order (`Numbered`, `Newest`), so that "later" is meant of every
runtime's copy.

**`Sessions_proofs`**, for any chats, callers, Tasks and follow-ups (`ClientsAssumption`, `NoneAssumption`,
`MaxChoicesAssumption`): no commit overwrites another (`NoLostUpdateHolds`), a follow-up becomes one Task at most
(`OneTaskPerFollowUpHolds`), a cancelled one none (`CancelledNotConsumedHolds`), a closed Session holds only Tasks that
have ended or that an approval took back from their end (`ClosedHoldsOnlyEndedHolds`). The invariant: the row is what
the events replay to and, once closed, holds only Tasks in `Over`, the set of those two sorts, which no step leaves
(`Rows`, `OverStays`); a command's Task is set once and by the commit that creates it (`Tables`); a client
whose version is current remembers exactly the stored row (`ClientsGood`), which is what makes the version check
enough.

**`TurnRunners_proofs`**, for any number of texts, answers and commands: at most one runner is registered to go on
(`OnlyRegisteredHolds`), an interrupted Task has no runner that goes on unless a command swallowed the stop
(`InterruptedMeansStoppedHolds`), and texts are heard in the order they were said (`HeardInOrderHolds`). The
invariant orders runners by the texts they carry (`SaidInOrder`, `RunnersOfSaid`, `HeardHaveRunners`), because the
order of the messages is only visible through the order in which their runners were made. What `AcceptedSettles` needs
besides fairness is proved too: an accepted message is with the registered runner, which was not stopped, and every
runner has a step of its own or its barrier has one (`AcceptedAreInHand`), because barriers are earlier runners
(`Links`); and no runner goes back, gets another barrier or outlasts four of its own steps (`RunnersOnlyAdvance`).

**`Steering_proofs`**, for any inputs, calls, batches and Turns (`InputOfAssumption`, `BoundsAssumption`,
`NamesAssumption`): a message is queued once however often it is sent (`QueuedOnceHolds`), because a call that may
still queue it holds a version at which it was not in the row (`FreshCalls`); messages are applied once and in order
(`AppliedInOrderHolds`), what a Turn was told stays in its checkpoint (`HeardIsKeptHolds`), and neither the model nor
the answer comes before what the last safe point saw is applied (`HeardBeforeGoingOnHolds`). The invariant of these
three (`Heard`): what was heard is the beginning of the queue (`HeardGood`); the checkpoints in the row and with the
driver tell what their Turn heard and have seen no more (`CheckpointGood`); calls are owed exactly where one is run
next (`PlaceGood`), so a safe point that applies nothing has nothing left to apply or stands in an open batch; and
what a driver picked is all that is left of the queue while its load is current (`Rest`). On top of it, nothing the
user says comes between the calls of a batch and their results (`BatchesUnbrokenHolds`): a transcript has as many calls
as results and calls owed (`Whole`), and a driver that picked something owes nothing.

**`ConversationLoop_proofs`**, for any limits, number of messages and of resumptions (`LimitsAssumption`,
`BoundsAssumption`, and `ReviewsAssumption`: the code counts one review continuation at most): the five properties its
run checks. The invariant has one part for each. `AttemptsGood`: the text shown is that of the present attempt, and an
attempt that may be repeated has shown nothing and has no response, since a failure after either is classified so that
the policy stops (`OneTextIsShown`, `AnsweredRequestsNotResent`). `TextGood`: nothing of a round is committed before
the event that records it (`ShownTextIsRecorded`). `CallsGood`: by the place of the driver, whether the response of
the round is counted nowhere, in the driver only, or in the row too, so that a driver that ends anywhere leaves a row
that counts every round but the broken one (`SamplesCounted`). `ContinuationsGood`: the row's counters of the gates
are at most behind the driver's, and a REPLACE, which clears them in the row, is counted (`ContinuationsAreBounded`).

Only model-checked: what is temporal under fairness (`TurnsEnd` in `TaskSettles`, `BatchEnds`, `ClosersReturn`,
`StreamsKeepUp`, `AcceptedSettles`), and of `NoStandstill` in `MCPServers` the half that says ENABLED. Liveness under
fairness and ENABLED are beyond the prover, and so is induction over sequences of unbounded length with a predicate as
parameter. What the liveness properties rest on besides fairness are invariants and action properties, and these are
proved: that it can always go on, and that it only goes forward, for Turns, open batches, MCP servers and runners;
for those who stop a process the first; for streams that a reader nobody will wake has read all and knows how the Task
rests, or was told of a redirect. Every other property a run checks is a theorem; those of `TaskLifecycle`'s second half,
for one process only.

## 5. Divergences met while modelling

Stated in the modules; no run checks them. Each is violated when it is listed in the configuration named, in
place of the properties there:

`TaskLifecycle`
- `CancelledNeverStarted`, in `TaskLifecycle.cfg` with `Calls`, `Gated`, `NonIdempotent <- JustWrite` and
  `Asks <- NoCalls`: a gated write has run, the Task is cancelled before its answer is saved, and the reader is told
  that the call was not started (`kernel.py:1436-1447`).
- `DeclinedNeverRan`, `FailuresAreRecorded` and `SettlementKeepsCheckpoint`, same instance: a superseded approval whose
  tool runs declines it, a failure outside the recording handler leaves no trace in the checkpoint, a
  settlement drops a checkpoint.
- `EndIsFinal` and `SettlesOnlyOrphans`, in `TaskLifecycleShared.cfg`: an approval's remembered row overwrites a
  cancellation another process committed meanwhile (`kernel_tool.py:1554`), and one process settles the live
  Task of another. `OnlyApprovalsOverwriteEnds` says that nothing else takes a Task out of its end.

`BackgroundProcess`, in its configuration with `Daemonizing <- Nobody`, `Shared = FALSE`, `MaxCrashes = 0`
- `EndLeavesNoneRunning`: a process whose spawn returns during the clean-up is committed RUNNING into the ending
  Task (`kernel_task.py:1022`, `kernel_process.py:254-272`).
- `DeadlineEnforced`: cancelling one waiter cancels the shared pumps; every later closer, the deadline included,
  then raises (`executor.py:273`).
- `TerminalIsFinal` (the configuration as it is): a record another runtime orphaned is finished again. A stop or
  clean-up waits for ever when a descendant keeps the output open (`HeldOpen`, the exception in
  `StopReturns` and `EndReturns`), although `docs/cancellation_spec.md:84` bounds it.
- `KeptMatchesRecord` and `EndStopsWhatItFound` hold there for two processes (`Processes`, `StopOnEnd <- Both`,
  `SYMMETRY Swap`; 1.76M states).

`EventStream`: `SettledStreamsAlwaysEnd`. A snapshot of an interrupted Task with a live redirect says "running, not final"
(`ui_events.py:76-79`, `125-130`, whose comment says the stream is not to be settled yet). When that redirect ends
without another event to show, because it was cancelled or its Turn ended before it reopened the Task, its callback only
notifies (`sdk/runtime.py:1602-1612`): the reader wakes, finds nothing visible, sends no snapshot and sleeps again on a
Task that has settled (`ui_events.py:213-230`). `SettledStreamsEnd` leaves out such readers (`held`).

`CommandReceipts`
- `InProgressIsTrue`: retrying a failed command is answered "already in progress" for ever (`sdk/runtime.py:2014`).
- `NoReceiptIsRetained`: the comment at `sdk/runtime.py:2031` says that no receipt stays in progress after its coroutine
  has failed. `complete_runtime_command` stands outside the `try` (2043-2046), and `fail_runtime_command` in the
  handlers (2024, 2036) may be refused as well: the call raises and the receipt stays in progress.

`WorkspaceTransaction`
- `SweepsInTime`: manifests are read before files are locked (`kernel_workspace.py:1018` and `1040`, and the lock of
  every operation after its sweep). With two runtimes an operation can build on a file another one left
  half-done, and a recovery can put back, and so undo without a record, a change committed after the crash it
  recovers; with `Runtimes <- JustWeb` the property holds. A recovery whose manifest somebody else removed
  meanwhile fails with PermissionError.
- Changes of a single file have no manifest, and the replacement is outside their `try`
  (`kernel_workspace.py:120`): a failure after it leaves a change nobody recorded, the case the batch's
  comment at 222 provides for. `JournalMatchesDisk` excuses these files ("dropped").

`TurnRunners`
- `SuccessorStarts` (with three messages, one command and no answer as well): a message that interrupts a foreground
  command of a Turn is acknowledged and never heard. The command swallows the cancellation (`kernel_tool.py:226`), the
  old Turn goes on over an INTERRUPTED row, its next tool call is refused (1102), `_run_submitted_task` records the
  Task FAILED (`sdk/runtime.py:1237`), and the successor returns without a Turn (1124), although the comment at 1116
  says it must still be allowed to start.
- `OneTurnAtATime`: while a first Turn unwinds and a redirect waits for it, Stop cancels the redirect and forgets
  its target; the next message starts a Turn without waiting for the first (`runtime.py:1019` says Turns follow
  each other). `close` would not wait for the forgotten one.
- `NothingDropped`: after Interrupt, while the Turn unwinds, the next ordinary message finds a live runner and is
  dropped though it was acknowledged (`runtime.py:409`).

`Sessions`
- `ClosedHoldsNoLiveTask`: an approval is committed in one process, another cancels the Task and the Session is closed;
  the first then prepares its call from the row it remembers (`kernel_tool.py:1554`), and a closed Session holds a Task
  that runs, although `close_session` refuses to close "while Tasks are unresolved". `ClosedHoldsOnlyEnded` leaves out
  such Tasks (`revived`).
- `FollowUpRunOnce`, with one chat, `Callers = {}`, two Tasks and one follow-up: one bound to an idle conversation
  is run but never marked, so the loop picks it again (`cli.py:1488` against the branch that creates a Task, 1495;
  `kernel_session.py:280`).
- `OneLiveConversation`: two of a Session's conversations can be live, one per client.
- Read on the way: a closed Session accepts follow-ups nobody can attach; operations on menus catch `RuntimeError`
  where the stores raise `ValueError`, so they are never retried; the CLI asks for a number and never resolves a
  menu; a CLARIFY commit (`kernel_session.py:1568`) names a sequence no store accepts; `create_task` does not
  retry a conflict; a follow-up is not delivered when the Turn before it ends in AWAITING_INPUT;
  `consume_queued_session_follow_up` has no caller in the product.

`ConversationLoop`
- `KeptIsNotFailed`: a stream that dies after some of its text was shown is recorded as an interruption with
  "recoverable" and "checkpoint_preserved" (`kernel.py:3015`), and then as a failure, because the runner calls only the
  failures resumable that say a retry is safe (`sdk/runtime.py:2070` says so, the comment at 1238 does not). The Task
  ends FAILED and its checkpoint is gone.
- `StoppedSendsNothing`: a stop that arrives between two attempts is met at the next wait only, and closing the scope
  of a cancelled Task may end a stream early, which is answered by a second attempt of the other transport.
- Read on the way: a REPLACE empties `finalization_state` in the checkpoint (`kernel_steering.py:267`) but not the
  driver's counters, so its Turn gets new continuations only if it is resumed; an HTTP error of a stream may be
  sampled again where the same status of a plain request may not (`http_json.py:164`, `250`); the tool limit, a failed
  gate and a stop policy that raises leave the loop outside its recording handler (`loop.py:489`, `575`, `577`).

`MCPServers`
- A session whose connection breaks between its `initialize` and the next step of the factory makes the factory raise
  without waiting for the owner (`mcp_python_sdk_client.py:286`), so a stop can return while that owner still leaves its
  contexts, although `docs/mcp_integration.md:78-80` says the closer waits for it. `NothingLeftOpen` leaves this case
  out; without its last three conjuncts it is violated.
- `StopSucceeds`: a server that died makes the stop of the provider raise, after everything was closed; `stop_all`
  (`adapters/registry.py:82`) then does not stop the adapters that are left.
- Read on the way: `get_client` has no timeout of its own, so a stop waits for ever behind a direct caller whose server
  does not answer `initialize` (`Hangs`, the exception in `NoStandstill`).

`Steering`
- `SupersedingInputIsHeard`: an input that supersedes an approval leaves its batch open (`kernel_input.py:355`), so the
  resumed Turn can answer without it, although the text of 350 and the comment at `loop.py:403` say it re-plans.
- `NobodyEndsTheTurn`: saving a checkpoint and appending events do not retry a conflict (`kernel_checkpoint.py:251`,
  `kernel.py:2755`), so an input from another process ends the Turn it was meant for.
- Read on the way: `_cancel_open_batch_for_queued_replace` (`kernel.py:1462`) has no caller, though `cli.py:1889` says
  unstarted calls will be cancelled; a message after the last safe point is applied at the next Turn, after a
  newer one was answered (as `tests/test_orphaned_running_tasks.py:265` accepts); an explicit STEER on an
  interrupted Task with an approval pending raises (`task.py:466`); `goal_revision` starts again at 1 in each
  Turn.

## 6. Not modelled, and what remains

Not modelled, and why:
- Formats and I/O: the wire formats of the model providers, the transports of MCP, HTTP routes and rendering of the web and
  of the CLI, file, git and network tools, sandbox and Windows adapters, POSIX paths and modes. What matters of them
  to the state is an answer or a failure, and the modules above choose it freely.
- Sequential rules over data: prompts, context and memory, exploration and evidence budgets, conclusions, task
  specifications, skills, onboarding, retrieval, evaluation. They have no interleaving, and their properties are about
  wording, thresholds and document formats, which tests reach better.
- Views computed from the event log: flow export, replay, projections, the usage ledger. `Sessions` and
  `TurnRunners` have the events such views read; the views change nothing.
- Wiring: bootstrap and configuration, which run once before any actor.
- The tree of cancellation scopes (`core/cancellation.py`): its effects on calls, processes and responses are in the
  modules that meet them.

What a component that is only partly modelled lacks is said in section 2 and in `PROJECT.json`. Worth adding, in this
order:
1. `close` of the SDK client with runners, processes and streams alive, and `resolve_needs_review`.
2. `RuntimeStore` as an append-only log with compare-and-set that the version checks of `Sessions`, `Steering` and
   `TaskLifecycle` implement; no gap in the sequence of events.
3. The context a Session gives a Turn (references, summaries, replay), and the budgets of exploration, as operators
   against reference definitions.
