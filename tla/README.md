# Verification of the CI repair benchmark and of Codex

TLA+ specifications of two programs of this repository: the CI repair
benchmark (Python: the durable cost and time ledger, the batch run with its
result files, the agent loop and the sequential repair), and the parts of
Codex (Rust, `codex/codex-rs`) where tasks, processes and connections meet:
request queues and commands of the app server, the rollout recorder, the jobs of
the memory pipeline, processes and sessions of the exec-server, and the turns
of a session. TLC checks the specifications on small instances; TLAPS proves
all their safety properties for every value of the constants. File names below are relative to `src/`, names of Rust files to
`src/codex/codex-rs/`; `cibench.py` is
`miniswe-agent/src/minisweagent/run/benchmarks/cibench.py`, and `default.py` is
`miniswe-agent/src/minisweagent/agents/default.py`.

## 1. Inventory

### The benchmark

A benchmark run reads a dataset of failing CI runs ("instances"). For each one
it obtains a list of problems (from the memory plugin, or the raw logs), clones
the repository, lets an agent repair the problems one after the other, and
records the patch, its cost and its time. Several processes may share one
output directory, a process has several worker threads, and a run that was
interrupted is resumed by starting it again. A second runner hands the work to
the codex command instead of the built-in agent.

| part | state | operations | talks to |
| --- | --- | --- | --- |
| Run metrics ledger (`utilities/run_metrics.py`) | `run_metrics.json` (attempts, their API calls, the marker of a call in progress), `cost_time_report.json`, `cost_time_report.csv`, one recorder and one heartbeat thread per attempt | start attempt, begin/record API call, heartbeat, finish, `completed_instance_ids` | shared file under a thread lock and `flock`; called from every worker and from the agent's query hook |
| Batch run (`cibench.py` `main`, `process_instance`; `utils/batch_progress.py`) | `preds.json`, `costs.json`, `problems.json`, the thread pool, the progress board, `GLOBAL_MODEL_STATS` | select, skip, run, record, report, interrupt | ledger (what to skip, status of an attempt), repair, result files |
| Agent loop (`agents/default.py`, `utils/common.py`, `models/litellm_model.py`, `environments/local.py`) | conversation, counters of calls and cost, limits, start time | check limits, call the model, execute commands, handle exceptions | ledger (markers around a call), provider, shell |
| Sequential repair (`cibench.py` `_run_sequential_repair`, `_collect_final_workspace_diff`) | problem index, partial patches, saved time limit | run the agent per problem, collect patches, final diff | agent, git |
| Workspace preparation (`cibench.py` `setup_local_environment`) | shared clones, one checkout per instance | clone, check out, create environment | file system shared by workers |
| Decomposition cache (`memory_plugin/decomposition_cache.py`) | a JSON file and a copy in memory | get, put, reload | thread and process locks, atomic replace |
| CI caches and usage tracker (`utilities/ci_cache.py`, `utilities/detailed_tracker.py`) | JSON lists | read, change, rewrite | no lock |
| Codex runner (`codex/scripts/run_codex_ci_repair.py`) | `predictions.json`, child processes | run per issue and problem, watchdog, merge predictions | ledger, codex command |
| Interactive agent (`agents/interactive.py`) | mode, on top of the agent loop | confirm, human, yolo | user |
| Context LLM and retries (`utilities/llm_model.py`, `llm_invoker.py`, `models/utils/retry.py`) | retry counters, call records | invoke with backoff | provider, ledger |
| Patch merging (`utils/patch_merger.py`) | none | pure functions on diffs | - |
| Memory retrieval, decomposition pipelines | embeddings, prompts | similarity search, prompting | caches |

### Codex

A client (terminal, editor) talks to the app server over a connection; the app
server runs threads, each of which is a session that works through turns: it
sends the conversation to a model, executes the tools the model asks for, in
process or through an exec-server, and records what happened in a rollout file.
In the background sessions distil finished threads into memories.

| part | state | operations | talks to |
| --- | --- | --- | --- |
| Request queues (`app-server/src/request_serialization.rs`, `connection_rpc_gate.rs`, `message_processor.rs`, `lib.rs`) | one queue and one drain task per key in use, one gate per connection | enqueue, drain, run through the gate, close a connection | all request handlers |
| Command execution (`app-server/src/command_exec.rs`) | sessions map, control channel and driver task per command | start, write, resize, terminate, cleanup of a connection | request queues, child processes |
| Rollout recorder (`rollout/src/recorder.rs`, `ordinal.rs`) | JSONL file, command channel, writer task with pending items and the next ordinal | record, persist, flush, shutdown, resume, append to an unloaded rollout | file system |
| Memory extraction (`state/src/runtime/memories.rs`, `memories/write/src/phase1.rs`) | a job row per thread: status, owner, lease, retries, watermarks; stage-1 outputs | scan, claim, extract, report, prune, delete, reset | two SQLite databases shared by all sessions |
| Memory consolidation (`memories/write/src/phase2.rs`, `workspace.rs`, `git-utils/src/baseline.rs`) | one global job row, the workspace and its git baseline | claim, select, sync, diff, agent, heartbeat, reset baseline, succeed, pollute a thread, set its mode | the outputs of stage 1 |
| Process events (`exec-server/src/local_process.rs`, `client.rs`, `client_recovery.rs`) | numbered log and retained output of a process; reorder buffer of the client | append and notify, publish in order, read after a reconnect | connection |
| Exec-server sessions (`exec-server/src/server/*.rs`, `client*.rs`, `rpc.rs`) | registry of sessions with their attachment, process map, accepted write ids | attach, detach, expire, start, write, terminate, retry, clean up | connection, child processes |
| Session and turns (`core/src/tasks/mod.rs`, `session/*.rs`, `state/turn.rs`) | the slot of the active turn, its pending input, the mailbox, the history | user input, steer, inject, compact, interrupt, mail, finish | model, clients, other agents |
| Threads and history, configuration and login, protocol types, terminal interface, sandboxing and network proxy, plugins, hooks and MCP clients, exec-server file system and relay | see section 6 | | |

### What is hard here

* *concurrency* - heartbeat threads, worker threads and processes rewrite the
  same files; drain tasks are spawned and retired under the eyes of enqueuers;
  tasks number events under a lock and send them after it; three kinds of actors
  change the slot of a session's turn, each taking its mutex several times;
* *failure* - a process may die, or a write fail, between any two of the three
  to five files that together describe the outcome of an instance; a failed
  write may leave any part of its line in a rollout; a worker dies with a lease;
  a handler panics and takes its task with it;
* *lost connections* - requests are cancelled wherever they wait, answers are
  lost, notifications go to a dead connection, a session is resumed while the
  server has not noticed that the old connection is gone;
* *ordering and time* - what a resumed run skips is decided from the files an
  earlier run left; leases and expiry timers race with the work they guard;
  limits are checked twice in a row; grace periods end just when the task does.

What makes each modelled part correct is stated as properties in section 3. The
hazards, each at its line and with the properties aimed at it, are in
`PROJECT.json`.

## 2. Modules

| module | models | extends |
| --- | --- | --- |
| `RunMetrics` | `utilities/run_metrics.py` | |
| `CibenchRun` | `cibench.py` main and `process_instance`, `batch_progress.py`, the cost part of `GlobalModelStats` | |
| `AgentLoop` | `DefaultAgent.run/step/query/execute_actions`, `ProgressTrackingAgent.query`, `LitellmModel.query`, `LocalEnvironment.execute` as the loop sees them | |
| `SequentialRepair` | `_run_sequential_repair`, `_collect_final_workspace_diff` | `AgentLoop` |
| `RwOrder` | what request serialization promises (abstract) | |
| `RequestQueues` | request queues, gates and teardown of connections | instance of `RwOrder` |
| `CommandExec` | `command/exec` and its control requests, as handlers in the queues | `RequestQueues` |
| `RolloutLog` | what a rollout recorder promises (abstract) | |
| `RolloutWriter` | the writer task and its file | instance of `RolloutLog` |
| `Stage1Jobs` | memory extraction | |
| `Phase2Jobs` | memory consolidation | |
| `ProcessEvents` | events of a remote process across reconnects | |
| `ExecSessions` | sessions of the exec-server and their client | |
| `SessionTurns` | the active turn of a Codex session | |
| `MC...` | instances for TLC | the module of that name |
| `RunMetricsProofs`, `RolloutWriterProofs`, `Stage1JobsProofs`, `Phase2JobsProofs`, `SessionTurnsProofs` | theorems | the module of that name |
| `BenchmarkProofs` | theorems about `SequentialRepair` and `CibenchRun` | `SequentialRepair`, `CibenchRun` |
| `ExecServerProofs` | theorems about `ExecSessions` and `ProcessEvents` | `ExecSessions`, `ProcessEvents` |
| `RequestQueuesProofs` | theorems about `RequestQueues` and `CommandExec` | `CommandExec` |

Where one proof module covers two specifications that have nothing to do with each
other, the second has names of its own for its state and its formulas
(`BatchSpec`, `BatchNext`; `EventsSpec`, `link`, `recovery`).

A definition named `XUnchecked`, `XForgets` and the like, placed in front of
`X`, is a plausible wrong version of `X`. Nothing in the specifications uses it;
it is there to show that a property would notice the mistake (`mutants` in
`PROJECT.json`).

### RunMetrics

`ledger` is the content of `run_metrics.json`: for every recorder the attempt it
made (a recorder makes one, so recorders name attempts), with its status, the
numbers of the API calls in `api_calls`, the marker `in_progress_api_call`
(`pending`, 0 for none) and why it was interrupted. `report` and `csv` are the
two derived files.

Every operation of the code is `with _locked_ledger(...)`: take both locks, read
the file, change the copy, and on leaving write ledger, report and CSV, each by
an atomic replace. In the model the first part is one action (`Start`,
`BeginCall`, `RecordCall`, `Finish`, `HeartbeatCheckpoint`, all through
`EnterLocked`), which leaves the changed copy in `work[t].data`; the writes are
`WriteLedger`, `WriteReport` and `WriteCsv`; `Raise` is an operation that raises
inside the block (its attempt is not in the file) and releases the locks without
writing. Nobody else can enter in between, but a process may `Crash`, which frees
its locks, and any write may fail, which skips the remaining ones and raises.
What becomes of the exception follows the code: `_start_attempt` lets it escape,
everything else goes through `safe_metrics_call`, which hides it, and the
heartbeat loop swallows it and sleeps again. `ReadsCanFail` adds a failed read of an
existing file, which `_load_ledger` answers with an empty ledger.

Left out: amounts, tokens, durations and the text of the reports. `BuildReport`
keeps the counts the reports consist of.

### CibenchRun

A worker walks through `process_instance`: `remove` the stale prediction,
`prepare` the problems, set up the workspace, run the `agent`, `finish` the
metrics attempt, save the `trajectory`, then rewrite `preds`, `costs` and
`problems`, then `end`. Rewriting a result file takes `_OUTPUT_FILE_LOCK`, reads
the file and truncates it (`BeginWrite`), and writes it (`EndWrite`) or fails
(`FailWrite`); a file truncated and not yet written is `torn`, and `Read` gives
no entries for it. `Modes` records how the problem list came about, because that
decides whether a patch may count as a solution.

Exceptions follow the `try`/`except`/`finally` structure: `Escapes` is an
exception that leaves `process_instance`, which the pool reports as an uncaught
one; `InterruptSerial` is ^C in the thread that does the work (it reaches the
`finally` clause, whose own exceptions replace it, so that the run goes on), and
`CancelPending` is ^C in the main thread of a pool run, which cancels what has
not started. `Launch` may be taken again after the end, an interrupt or a crash;
`Selected` is the rule by which `main` skips instances. The ledger is seen
through the two questions `main` asks it, `known` and `completed`; the fault
`metrics` is a metrics call that fails and is hidden.

### AgentLoop and SequentialRepair

`Gate` is the query hook of `ProgressTrackingAgent` (check the limits, announce
the call to the ledger unless one is reached), `Limits` and `CallModel` are the
second check in `DefaultAgent.query`, and `Reply`, `FormatError`,
`ContextWindowExceeded` and `ModelError` are the outcomes of the model call.
`Observe` and `Submit` execute the commands of an answer. `Tick` lets time pass
anywhere, so that a limit can be reached between the two checks. The conversation
is reduced to the role of its last message and to `dangling`: whether commands of
the model were ever followed by something else than their results. Every call
costs one unit; `paid` counts what the provider charged in the current agent run,
`cost` what the agent knows of. ^C may arrive anywhere (`Interrupted`,
`InterruptedRecord`), also inside the hook while it announces or records a call.

`SequentialRepair` adds the loop over problems: reset the counters and set the
per-problem time limit (`StartProblem`), then, by how the agent's run ended,
`ImmediateExit`, `NoPatch`, `SavePatch` or `SkipProblem`, each of which restores
the time limit, and finally `Collect` (diff of the working tree, else the partial
patches) or `CollectRaises` (the check of the result times out, outside of the
`try`). Three things behave as the code does rather than as it seems to intend:
the handler of a full context window raises a `NameError` (`default.py:102`), the
rule that stops after several blank patches never fires because blank patches are
never put on the list it inspects (`cibench.py:2370`), and a timeout of
`git apply --check` discards a finished repair (`cibench.py:2011`).

### RequestQueues, RwOrder and CommandExec

A request arrives (`Dispatch` without a key, `Enqueue` with one), is taken by a
drain task (`Take`: one exclusive request, or all shared reads up to the next
exclusive one), passes the gate of its connection (`Enter`, `Refuse`) and ends
(`Finish`); the task waits for its batch (`Joined`) and, when the queue is
empty, removes the entry and ends (`Retire`). A handler that panics takes the
drain task along and leaves the map entry behind (`Panic`). A connection is
removed by the main loop (`Close`), its gate shut and its handlers awaited
(`Drained`) for a limited time (`DrainTimeout`). Drain tasks are named by the
request whose arrival spawned them. `RwOrder` is the promise: per key a
readers-writer lock granted in the order of arrival.

`CommandExec` gives the handlers of `command/exec` a body. A start registers its
session, spawns the child and leaves a driver task behind (`run_command`); write,
resize and terminate look the session up, send to its control channel and wait
for the driver's answer; the driver takes control requests, kills the child when
its time is up, sees the exit, drains the output and returns, and only then is
the session removed. The cleanup of a closed connection removes its sessions and
sends each a terminate. The channel is bounded, and a write may block in the child's
input. Whether a child reads, exits or ignores its input is nondeterministic.

### RolloutWriter and RolloutLog

Callers put items and barriers (`persist`, `flush`, `shutdown`) into a bounded
channel; the writer task opens the file (`Open`, which terminates a torn last
line), writes the metadata, the pending items one line each, and flushes, with a
second attempt after a failure. `PutFails` leaves nothing, part of the line, the
line without its newline, or all of it. `Crash` loses the channel and the
pending items; `Resume` derives the next ordinal from the file or refuses it, and
`AppendUnloaded` adds an item while no task is running. `Log`, the lines that
parse, is the refinement mapping to `RolloutLog`: one growing log in the order of
recording; items are missing only if a process died with them, and never when a
barrier after them was answered.

### Stage1Jobs and Phase2Jobs

Rows keep what is left of a lease or a delay and `Tick` counts it down, so that
the state space is finite without bounding time. Each SQL statement or
transaction is one action. In `Stage1Jobs` a worker scans (`Scan`, on the state
database), claims (`Claim`, one statement on the memories database with the cap
inside), extracts for any length of time and reports (`Succeeded`, `NoOutput`,
`Failed`), which only the owner's row accepts. `Dies`, `DeleteMemory` and
`DeleteRow`, `ClearMemories` and `Prune` happen in between.

In `Phase2Jobs` a session claims the global job, prepares the workspace, selects
inputs in two reads, copies them (`Sync`), compares with the baseline (`Diff`),
lets an agent work under heartbeats, confirms that it still owns the job
(`Confirm`, `LostLock`), replaces the baseline (`RemoveRepository`,
`CommitBaseline`: the repository is gone in between) and marks the job and the
snapshots it had selected. All steps but the agent's are assumed to take less
than the lease of one hour (`Quick`). Stage 1 replaces and removes outputs
meanwhile, a thread is polluted in three statements on two databases, and
`SetMemoryMode` overwrites its mode at any time (`thread/memoryMode/set`,
`reconcile_rollout`), which also makes a polluted thread enabled again. Polluted
and disabled are not told apart: consolidation only asks for `enabled`.

### ProcessEvents and ExecSessions

`ProcessEvents` follows one process. One task per output stream and one for its
exit append to `log` under the lock (`Number`) and notify afterwards (`Notify`),
to whichever connection is then the sender. The client publishes in order
(`PublishReady`) through a bounded reorder buffer; after a lost connection it
resumes, reads what is retained (`ExecRead`) and merges it (`RecoverEvents`),
inferring the place of an exit whose notification was lost from the numbers that
are missing.

`ExecSessions` follows one session with one process id. `Drop` loses the
connection with any part of what was sent; the server notices later (`Detach`),
cancels the request it is handling wherever that waits, and starts a timer
(`ExpireIfDetached`) that removes the session unless it was resumed. A start is
three steps (`ExecInsert` of a `Starting` entry, `ExecSpawn`, `ExecPublish`), a
write two (`WriteBegin` looks for the id among the accepted ones, `WriteSend`
notes it and sends; the channel of a child that has exited may still take it).
The client retries writes and, after a start whose answer was lost, terminates
the process it may have started.

### SessionTurns

`slot` is `Session::active_turn`: the `ActiveTurn` object it holds and that
object's task. Objects matter by identity, since a finishing turn and an abort
hold on to theirs after the slot has moved on. An action is one critical section
of the mutex, with the code up to the next `await` that matters:

* actors - the submission loop (`Submit` takes the next operation), the guardian
  (`abort_turn_if_active`) and every finished turn - walk through `take` (abort
  the active turn), `wait` (its grace period), `report` and `clear`, then `check`
  and `reserve` (start a turn for pending mail) or `gather`, `attach` and
  `install` (`start_task`);
* a task walks through `spawned`, `drain`, `record`, `sample` and `settle` (a
  model request may fail or need a follow-up), then finishes in `collect`,
  `report` and `release`, each a separate critical section of
  `on_task_finished`; a cancelled task returns (`Quit`) or is killed when its
  grace period is over (`GraceOver`);
* `Steer`, `Inject` and `ReceiveMail` put items where the code does: into the
  pending input of the active turn, the history, or the mailbox.

`history`, `accepted` and `discarded` say what became of each item.

## 3. Runs

Deadlock is checked in `cibench` and `repair`, where the end is an explicit
stuttering action. The other systems may come to rest (all operations made, all
requests served, all faults used up) and their configurations say
`CHECK_DEADLOCK FALSE`; that nothing rests which should go on is stated as
liveness. No run uses symmetry, since almost all of them check liveness.

### `metrics` (344 000 states)

Two recorders in two processes for the same instance, one API call each, one
crash or failed write anywhere. Two recorders are what a supersession needs, and
one call is enough to be lost; with one fault, everything happens that follows
from a single death between two of the three writes.

* `OneRunning` - an instance has at most one running attempt;
* `CallsAccounted` - a call whose marker reached the disk stays visible, as the
  marker or among the calls, whatever dies afterwards;
* `ReportNeverAhead` - CSV, report and ledger are behind one another in this
  order, so no report claims what the ledger does not hold;
* `CompletedStable` - a completed instance stays completed;
* `ReportHeals` - stale reports catch up while a heartbeat runs. Fairness: a
  thread inside the locked block goes on (`WF` of its writes), a sleeping
  heartbeat wakes (`WF`, `Event.wait` with a timeout), and a heartbeat that again
  and again finds the locks free gets them eventually (`SF`). The last is an
  assumption about the operating system: neither `threading.Lock` nor `flock`
  promises it, both give it in practice because holders are short. Nothing is
  assumed about main threads, which may hang in a model call.

### `cibench` (320 000 states)

Two instances and two launches over one directory, each with one thread and
`--redo-existing` or with a pool of two that resumes, one model call per attempt,
and one fault: a crash, a failed start, write or trajectory save, or ^C. Two
workers and two instances are the least that can lose an update; the second
launch is what resumes.

* `EntriesSurvive` - no rewrite undoes another;
* `ResultsAgree` - without faults ledger and result files name the same solved
  instances;
* `CostExact` - the cost recorded for an instance covers the calls of the attempt
  behind the entry, and in a run with one thread is exactly that;
* `PredictedNotRerun` - an instance with a readable prediction is never selected
  again, because its attempt is completed in the ledger before the prediction is
  written;
* `RunEnds` - no worker waits forever. Fairness: worker threads run (`WF`; the
  agent's own limits, see `RepairEnds`, make its step end), a worker waiting for
  `_OUTPUT_FILE_LOCK` gets it if it keeps becoming free (`SF`), and `main`
  returns when its futures are done (`WF`).

### `repair` (9 600 states)

Three problems (a first, a middle and a last one), step limit 3, cost limit 2,
time limit of 2 ticks per problem, every outcome of every call, ^C, failing `git`
commands.

* `CallsMatched` - an announced call is recorded before the agent does anything
  else, also when a limit is reached between the two checks. A ^C inside the hook
  may leave one open; then the agent is not run again, and the `finish` of the
  attempt closes the call (`CallsAccounted` of run `metrics`);
* `ConversationWellFormed` - the model is only called with a conversation that
  providers accept;
* `BudgetOwn` - a problem is given up for a limit only if its own run used it up;
* `RepairEnds` - the step limit alone ends the repair. Fairness: the thread runs
  (`WF` of its own steps). Time need not pass.

`MaxPaid` is where the history `paid` stops counting; it is larger than the
limits, so that the comparisons of the properties come out the same.

### `rpc_queues` (182 000 states)

On one key two shared reads of two connections and exclusive background work,
and a request without a key; connections may close, the drain may time out, one
handler may panic. Three requests on a key are what a batch, the request behind
it and a second drain task need.

* `GrantedInOrder` - the queues implement `RwOrder`;
* `QuietAfterDrain` - once the cleanup of a connection saw it drained, no handler
  of it starts, although its requests may still be queued or taken;
* `Served` - a queued request is run or refused, unless a handler of its key has
  panicked. Fairness: tasks run and handlers return (`WF`).

### `command_exec` (93 000 states)

One connection that starts two commands under the same process id and sends one
control request, through the queues, while it closes and the drain may time out;
a control channel of capacity 1.

* `Reachable` - a running command can be reached under its id, and only it, until
  its connection is cleaned up;
* `HandlersReturn` - if children do not stop reading for good, every handler
  returns, including those whose control request is still in the channel when the
  driver leaves;
* `DrainedCommandsEnd` - the commands of a connection that was found drained end,
  even without a time limit.

Fairness: tasks run, a killed child exits, a write to a child that is gone
fails. Nothing makes a living child exit or read.

### `rollout` (448 000 states)

Three items, any barriers, a channel of 2, two failures, one crash, one inherited
item, and 2 as the last ordinal, so that the third item meets the overflow.

* `KeepsLog` - the writer implements `RolloutLog`;
* `OrdinalsDense` - lines with the same ordinal are copies of the same item, and
  ordinals leave no gap;
* `PrefixIntact` - the own records of a subagent never come before the end of
  what it inherited, even if it died while copying and was resumed.

### `memory_stage1` (494 000 states)

Two workers, two threads that are updated once, a cap of one running job, leases
and delays of one tick, two tries, and one of: a dead worker, a deleted thread, a
reset.

* `RunningCapped` - at most the allowed number of jobs run with a live lease;
* `OutputIsLatest` - an extraction that outlived its lease, its row or a reset
  leaves nothing behind;
* `EventuallyExtracted` - a thread is extracted up to its last update unless its
  tries are used up or it is deleted. Fairness: time passes, sessions keep
  starting and scanning each thread (`SF`, as the cap may be used up), steps go on
  (`WF`), and an extraction for a thread finishes within its lease again and again
  (`SF`: an extraction that is always slower than its lease of one hour would be
  repeated for ever, and the code has nothing against it).

### `memory_phase2` (322 000 states)

Two sessions and one thread whose output changes and disappears, and which is
polluted, disabled and enabled again any number of times; lease of two ticks, one
failed step or dead session.

* `BaselineConsolidated` - what is in the baseline was consolidated by an agent:
  nothing another session copied into the workspace slips in unread;
* `SelectedConsolidated` - outputs are marked as selected only in the version an
  agent has seen;
* `Forgets` - the memory of a thread that stays polluted or disabled leaves the
  baseline for good, even if the job was not enqueued for it. Nothing is said of a
  thread that is enabled again: its memory may come back (section 5).
  Fairness: time passes, sessions keep starting, steps go on (`WF`), and not
  every agent is so slow between two heartbeats that it loses the job (`SF`).

### `process_events` (408 000 states)

Two streams, two chunks of output of which the server retains one, a reorder
buffer of one event, two lost connections. Two chunks and the exit are what a
wrongly inferred place of the exit needs; the second loss interrupts a recovery.

* `FeedIsPrefix` - while the server has all output, subscribers have seen a
  beginning of the log: nothing twice, nothing out of order;
* `GapIsReal` - a feed is given up as not recoverable only if the server no
  longer had its output or its entry;
* `CloseDelivered` - subscribers learn that the process closed or that its feed
  failed. Fairness: server tasks notify, what is on the wire arrives, the server
  notices a dead connection and a recovery goes on (`WF`).

### `exec_sessions` (162 000 states)

One session, two starts under one process id, two writes, two lost connections,
expiry at any moment after a detach.

* `WrittenOnce` - a write retried after a reconnect is handed to the writer of
  stdin once, and one that was acknowledged has been handed to it;
* `AttachedIsLive` - a session with a connection is never torn down by the timer
  of an earlier one;
* `NoOrphans` - a process nobody waits for any more does not stay alive;
* `StartingResolves` - a cancelled start does not block its process id for good.
  Fairness: server and client go on, the server notices a dead connection, timers
  go off (`WF`).

### `session_turns` (274 000 states)

Up to three (`MaxOps`) of a user input, a compaction, an interrupt, a mail that
asks for a turn, a steer and an injected item, in any order and at any moment,
and one twist (`MaxTwists`): an interrupt by the guardian, a follow-up request, a
failed request or preparation. Three operations are what it takes for one turn to
run, a second actor to start another and a third to interfere. `MaxTurns` 5 and
`MaxObjs` 4 never bind: three operations cannot make more.

* `RunningIsActive` - a task that runs and was not cancelled is the active one;
* `TerminalIsFinal` - nothing of a turn follows its `TurnComplete` or
  `TurnAborted`;
* `SteeredKept` - input that was accepted is recorded, or dropped together with a
  turn that was cut off; never forgotten in a turn that finishes. Stated for
  behaviours in which turns are started one at a time (`OneStarter`), as the
  assertions of `start_task` suppose; section 5 says what happens otherwise;
* `MailTaken` - mail that asks for a turn does not stay in the mailbox of a
  session at rest, except in the case listed in section 5. Fairness: the
  submission loop, the guardian and tasks go on once they began (`WF` per actor
  and per task; a sleeping `select` is woken by its token or its timer).

### `session_turns_clash`

Ends in a violation of `InstallsIntoFreeSlot`, which states the
`debug_assert!(turn.task.is_none())` of `start_task` (`tasks/mod.rs:370`). A
turn that finishes finds mail and reserves the slot with an `ActiveTurn` that has
no task yet; before it installs its own, a user input is submitted, finds the
reserved slot idle, and installs its task into the same object; then the first
one installs over it. In a release build the input's task is dropped, hence
aborted, without a terminal event for its turn. `RunningIsActive` and
`TerminalIsFinal` hold nevertheless.

### Type invariants

`TypeOK` of `RunMetrics`, `SequentialRepair`, `RequestQueues`, `RolloutWriter`,
`Stage1Jobs`, `Phase2Jobs`, `ExecSessions` and `SessionTurns` and `EventsTypeOK` of
`ProcessEvents` are proved (section 4). `CibenchRun` has its types in the invariant
of its proofs (`BatchTypes`).

## 4. Proofs

All proof modules follow one scheme: an inductive invariant, one lemma per action
that the action preserves it, and the theorems from it. Each invariant was checked by
TLC on the instance of section 3 before it was proved. The specifications that
are proved about use neither `RECURSIVE` operators nor two updates of one
index in a single `EXCEPT` (`![a].x = .., ![a].y = ..`), a form that the
translation to SMT does not treat correctly; they write
`![a] = [@ EXCEPT !.x = .., !.y = ..]`.

### RunMetricsProofs

For any recorders, instances, processes, calls and faults, from
`ConstantsAssumption` (there are finitely many recorders, the maps from them to
instances and processes are functions of that type, the bounds are naturals):

* `TypeCorrect`, `AtMostOneRunning` - also when reads fail;
* `NothingForgotten`, `CompletedForever`, `EveryCallAccounted` (`CallsAccounted`) and
  `ReportsBehind` (`ReportNeverAhead`) - while reads do not fail (`~ReadsCanFail`;
  section 5 says what happens otherwise).

None of these is inductive. What a step writes is a copy made earlier, so the
invariant `IInv` also speaks about copies: only the holder of the lock has one
(`LockInv`), the file and all copies are `Sane` (one running attempt per
instance; no attempt of a recorder that has not started; no completed attempt of
one that has not finished), and a copy about to replace the ledger extends it
(`CopyInv`). `Sane` mentions life cycles because a start would otherwise be able
to overwrite a completed attempt. `CopyInv` is what turns the two action
properties into facts about the single step `WriteLedger`. The lemmas
`StartAttemptFacts` and `OperationFacts` say what each operation makes of a
ledger; `EnterLockedStep` and `LeaveLockedStep` carry the argument for locking
once for all operations.

The last two theorems rest on further invariants. `Calls` follows a call from its
marker to the list of calls: an attempt that is not in the ledger has neither
(`NothingMissing`); the marker in the ledger, if there is one, is that of the call
the attempt is in, so that no call is announced over another (`MarkerInv`); and a
copy about to replace the ledger keeps every marked or recorded call visible
(`CopyKeeps`), whose thread soever it is, since a heartbeat writes a copy too.
`Reports` says which of the three files a thread
between two writes has brought up to date, so that each file is written from
the one before it. That counts only grow from one ledger to the next
needs the recorders to be finite (`IsFiniteSet`, for `Cardinality`).

### BenchmarkProofs

Of `SequentialRepair`, for any limits and any number of problems, from `AgentAssumption` and
`RepairAssumption`: `RepairTypeCorrect`, `CallsAlwaysMatched`,
`ConversationSound`, `NoBorrowedBudget`, `WallAlwaysRestored` (`WallRestored`: the
configured time limit is back between problems), and `SubmittedPatchKept`
(`PatchKept`, provided the final check does not time out).

`IInv` joins what is announced to the position in the loop (`Marker`: the marker
is set exactly during an announced call, except after an interrupt, which ends the
repair, and a limit seen by the hook is still
reached at the second check, since counters and clock do not go back), the shape
of the conversation at each position (`Talk`), the relation of the agent's
counters to the calls of its own run (`Counters`, which `BudgetOwn` needs), the
time limit in force (`Walls`) and that the agent only runs for a problem of an
unfinished repair (`Begun`).

Of `CibenchRun`, for any instances, any finite set of workers, any command lines,
launches, calls and faults, from `CibenchAssumption`: `EntriesAlwaysSurvive`
(`EntriesSurvive`), `ResultsAlwaysAgree` (`ResultsAgree`), `CostsExact` (`CostExact`)
and `PredictedStaysDone` (`PredictedNotRerun`). The last assumes
`"metrics" \notin Faults`: a metrics error that `safe_metrics_call` hides leaves the
attempt incomplete behind its prediction, and the next launch does run the
instance again (section 5).

The properties speak of files nobody is writing; between the read of a file and
its write the only copy of its entries is in the hands of a worker. `BatchInv`
therefore follows the entries into that copy. An entry that was saved is in its
file or carried by the worker that holds `_OUTPUT_FILE_LOCK` (`SavedHeld`, with
`Locked`: only the holder writes, and only at the step of that file). What the
worker of an instance has been charged since it noted the counter is at least
what its own calls cost, and equal to it if it is the only worker (`Counted`), so
that the entry fits what was billed when it was written, in the file and in every
copy (`Costs`). No result is carried or written for an instance that is not
completed in the ledger (`Backed`), as long as no metrics error was hidden
(`Trusted`); and without faults a completed instance has its entry or a worker
that is going to write it (`Complete`). `Assigned` says that no two workers have
the same instance and that nobody works while the run is down.

### RequestQueuesProofs

For any requests, keys, connections and panics, from `RequestsAssumption`:
`QueuesTypeCorrect`, `DrainedStaysQuiet` (`QuietAfterDrain`) and
`QueuesImplementOrder`: the queues refine `RwOrder`.

`QInv` says that a key has at most one live drain task (`OneDrainer`), that a
queue holds exactly the queued requests of its key, oldest first
(`QueueSorted`), that whoever has left it arrived before all who are in it
(`LeftInOrder`), that what was taken and is not over is in the batch of that one
task, alone or among shared reads (`Batched`), and that gates and handlers agree
with the state of the connection (`Quiet`). The refinement rests on
`EnterGrants`: when the gate lets a request in, an earlier request that conflicts
with it cannot be queued (`LeftInOrder`) and cannot be taken or running, since it
would share the batch (`OneDrainer`, `Batched`); so it is over, which is the
guard of `RwOrder`'s `Grant`. All other actions are `Submit`, `End` or stutter.

The second part is about `CommandExec`: `ExecRunsInQueues` (every behaviour of
the commands is one of the queues, so that all of the above holds for it),
`CommandsReachable` (`Reachable`), `WaitersHeard` and `CleanupReachesAll`. The
last two are the safety core of `HandlersReturn` and `DrainedCommandsEnd`: a handler
that waits has its answer or stands in the channel of a driver that has not
returned; a live command of a connection cleaned up after it was drained has a
terminate in its channel or on the way.

`CommandAssumption` holds what these rest on and the code provides: every
command request comes from a connection and passes its gate; control requests
carry a process id and are serialized exclusively by connection and process id
(`request_serialization.rs:73`, `app-server-protocol/src/protocol/common.rs:161`),
so that a key belongs to one connection; only starts may come without an id. From
it and `QInv` follows that no two requests of one process id run at a time
(`OneRuns`). Without that a second start could pass the check for an active
session while the first has not registered. `EInv` adds what a handler that has
not begun has not done (`Fresh`), one session per process id, and every
registered command in the map until the cleanup (`SessionMap`), that a control
request goes to a command of its own id (`Addressed`), and that only closed
connections are cleaned up (`Cleaned`). `QuietAfterDrain` is why no command
appears after the cleanup of a drained connection.

### RolloutWriterProofs

For any capacity, number of items, failures, crashes and last ordinal, from
`RolloutAssumption` (they are naturals, and the channel has room for one command):
`RolloutTypeCorrect`, `OrdinalsIdentify` (`OrdinalsDense`), `BoundaryKept`
(`PrefixIntact`), `RecorderKeepsLog` (`KeepsLog`: the recorder refines `RolloutLog`)
and `AckedSurvives` (what an answered barrier covered is in the file for good).

The items are numbered in the order of recording, so that one number says how
far the task has come: `NextItem`, derived from the channel and the pending items.
`IInv` says that the channel and the pending list hold consecutive items up to
the last one recorded (`Queued`, `Pending`), what each position of the task implies
(`Place`), that ordinals do not decrease along the file (`Ordered`), and that all
items before `NextItem` are logged or lost and none after it is lost (`Progress`).
The heart is `Frontier`: the log ends before the next ordinal, or with a copy of
the very item that is written next, under that ordinal. The second case is a
write that failed after its line had reached the disk; the retry appends the
same item under the same ordinal, which is why ordinals still identify items.
After a crash `Resume` establishes `Frontier` from the last line that parses.

### Stage1JobsProofs

For any workers, finitely many threads, any cap, lease, backoff and number of
tries, from `Stage1Assumption`: `Stage1TypeCorrect`, `CapHolds` (`RunningCapped`),
`OutputsFenced` (`OutputIsLatest`) and `WatermarkNeverBack`, an action property
only proved: no step lowers the success watermark of a row that lives on,
although a stale scan may lower its input watermark.

`OutputIsLatest` needs that a running job is about something newer than the
memory there is and than what was extracted before, and has a try left
(`RunningIsNews`), and that as long as a worker owns its row the row still says
what the worker has read (`ClaimIsRow`): ownership is the fence, since a row that
was claimed again, deleted or reset has another owner. `CapHolds` rests on the
count and the claim being one statement; the cardinality lemmas `FewerActive` and
`OneMoreActive` say what a step may do to it.

### Phase2JobsProofs

For any sessions, threads, lease, backoff and cooldown, from `Phase2Assumption`:
`WorkspaceOwned` (the type invariant, which says that a session in a step that
touches the workspace owns the job), `BaselineRead` (`BaselineConsolidated`) and
`SelectedRead` (`SelectedConsolidated`).

`Follows` is what a session knows at each step: what the agent was shown is what
was selected, as long as the session owns the job that is what the workspace
holds, and it goes on to the new baseline only with what an agent has
consolidated. `WorkerStep` shows once that a step of one session leaves what the
others know alone, since they do not own the job when it changes the workspace
(`HeldBy`). `Baseline` adds that while the repository is removed, the workspace it
will be made of again has been consolidated. The assumption behind `HeldBy` is
the one of the model: steps other than the agent's take less than the lease.

### ExecServerProofs

Of `ExecSessions`, for any writes, starts and lost connections, from `SessionsAssumption`:
`AttachedStaysLive` (`AttachedIsLive`), `SessionsTypeCorrect` and `WritesReachOnce`
(`WrittenOnce`).

The first needs the registry alone (`RegistryInv`): an attached session is not
overdue, and a timer acts only on the connection it was started for.
`WritesReachOnce` needs `WriteInv`: what is in the stdin of a process is what was
accepted under its id, each once (`StdinIsAccepted`); a write between its two
steps is not accepted yet (`ReservedIsNew`), which holds because the server
handles one request at a time and forgets it when the connection goes; and
answers on their way, as well as the answers the client has taken, tell the truth
(`AnswersTrue`, `CallersTrue`), also when the answer of an earlier attempt is lost
and the write is sent again.

Of `ProcessEvents`, for any finite set of streams, any number of chunks and lost
connections and every size of the retained output and of the reorder buffer, from
`EventsAssumption`: `FeedAlwaysPrefix` (`FeedIsPrefix`), `GapsAreReal` (`GapIsReal`)
and `EventsTypeCorrect`, all from `EventsInvariant`.

What is published is inferred, so the argument is about what an answer can leave
open. `LogShape` says that the log has at most one exit and ends with its close;
`AnswerTrue` that the answer to a read is a view of the log up to its last number
with all output the client still needs, as long as the server has all of it (the
client may publish more while the answer is on its way, and the log may grow);
`FeedTrue` that published and pending events are those of the log. Then every
number that the answer leaves open is that of the exit (`MissingIsExit`: a chunk
would be in the answer, the close is known by its number), so there is at most
one, it is the first missing number, and the client does not know the exit yet
(`HoleIsExit`); the exit is put there or nowhere, and nothing stays open
(`WithExitEvents`). Hence a recovery that fails, or finds answer and buffer in
conflict (`NoConflict`), met a server that had lost output, which is `GapIsReal`.
`HoleExists` and `Publishes` are the lemmas about the reorder buffer: the first
missing number exists, by a count of finitely many numbers and a least element,
and publishing appends exactly the events up to it.

### SessionTurnsProofs

For any operations and bounds, from `SessionAssumption`: `SessionTypeCorrect`,
`ActiveIsRunning` (`RunningIsActive`) and `TerminalEventsFinal`
(`TerminalIsFinal`); and, while turns are started one at a time,
`AcceptedInputKept`, the safety core of `SteeredKept`.

`RunningIsActive` by itself says nothing of who else holds the turn. `IInv` adds
that the slot's task runs and is not cancelled (`SlotInv`); that turns not
spawned yet have left no trace (`NewInv`), so that an install finds a clean
number; that what an actor aborts is cancelled, not finished and nobody else's
(`AbortInv`), which is why a late `GraceOver` cannot end a turn that has
completed; that a turn wakes the session only after its task is done
(`ClosingInv`); and that only a task on its way to record something holds input
(`HandInv`), with nothing left to do after a terminal event (`EndInv`). The last
two are the state side of the action property; `EventsFinal` derives it for one
step.

`AcceptedInputKept` is `Spec /\ []OneStarter => []InputKept`: accepted input is
recorded, dropped with a turn that was cut off, in the hands of a task, or in the
object of somebody who is going to look there (`Anchored`): the active task, the
actor that aborts the turn, or a turn that finishes and has not collected yet.
The invariant it needs beside `IInv` is `StartAlone`: whoever starts a turn finds
no task in the slot, and no turn that ends holds the slot's object, so that what it
gathers and puts back cannot land in an object that was already collected. The
hypothesis `[]OneStarter` is not a property of the code: the clash of
`session_turns_clash` is a behaviour without it, and without it the conclusion
is false (section 5). An attempt at the proof without it is what showed this.

### Only model-checked

* liveness under fairness (`ReportHeals`, `RunEnds`, `RepairEnds`, `Served`,
  `HandlersReturn`, `DrainedCommandsEnd`, `EventuallyExtracted`, `Forgets`,
  `CloseDelivered`, `NoOrphans`, `StartingResolves`, `SteeredKept`, `MailTaken`),
  which is outside of what the prover handles; that accepted input is not lost on
  the way, the safety part of `SteeredKept`, is proved (`AcceptedInputKept`).

## 5. Seen in the code

Disagreements between the code and what a document or comment says of it, and
behaviour a maintainer may want to know of, met while modelling. The first of
the Codex list is the run `session_turns_clash`; the others are not runs of
their own.

Benchmark:

* One failed read of `run_metrics.json` is taken for an empty ledger, and the next
  write makes that true (`run_metrics.py:271`; `README.md:979` promises that the
  history is kept). `NothingForgotten` and `CompletedForever` therefore assume
  that reads do not fail.
* `write_text` truncates `costs.json` before it writes; a process stopped in
  between loses all costs (`cibench.py:896`; `README.md:1053` says that costs
  survive interruptions). `EntriesSurvive` is stated for files that are not torn.
* With several workers `instance_cost` includes the calls other instances made
  meanwhile (`cibench.py:2933`; `README.md:1052`), hence the two halves of
  `CostExact`.
* A failed memory retrieval selects the baseline branch, and the instance may
  count as solved (`cibench.py:2651`, against the comment at line 2813).
* A metrics error hidden by `safe_metrics_call` leaves the attempt incomplete;
  the next run deletes the prediction and pays again (`cibench.py:2868`,
  `run_metrics.py:701`).
* `agent.cost` does not include answers without a usable command, which are paid
  for (`default.py:149`), so that the cost limit (`default.py:29`) can be passed.
* Calls of the context LLM do not pass through `GLOBAL_MODEL_STATS`
  (`cibench.py:270`; `README.md:1055` says that all calls are captured); the final
  summary looks costs up under `--model`, where they were stored under the
  context model (`cibench.py:3490`); `GlobalModelStats.add` compares the limit
  outside of its lock and after the call (`models/__init__.py:30`).
* `on_instance_end` counts an instance before it writes the progress report; if
  that write raises, it is counted again (`batch_progress.py:158`).
* Two workers on one repository may clone into the same path
  (`cibench.py:1513`); `ci_cache.py:145` and `detailed_tracker.py:95` rewrite shared
  files without a lock, and a reader may take a half-written one for an empty one.

Codex, app server:

* `connection_closed` goes on after `CONNECTION_RPC_DRAIN_TIMEOUT` although handlers
  still run (`message_processor.rs:713`): a command that registers its session
  after the cleanup is terminated by nobody, where the app server's
  `README.md:1194` says that the server terminates the process.
  `DrainedCommandsEnd` is stated for connections found drained.
* While `run_command` waits for a child to read its input it takes neither a
  terminate nor the timeout (`command_exec.rs:508`; `README.md:1191`);
  `HandlersReturn` assumes that children read.
* The session is removed after the response was sent (`command_exec.rs:316`): a
  client that reuses the id at once may be told that it is active.
* A panic in a handler leaves the map entry of its key without a drain task, and
  later requests on it wait for ever (`request_serialization.rs:224`).

Codex, rollout and memories:

* A rollout whose first line is torn can be loaded but not resumed.
* Pollution is not final. `thread/memoryMode/set` overwrites the mode with an
  unconditional update (`state/src/runtime/threads.rs:635`), and
  `reconcile_rollout` gives a thread with legacy history the mode of its rollout,
  `enabled` if there is none, whenever its metadata is repaired or changed
  (`rollout/src/state_db.rs:535`, `563`): the memory of a polluted thread is then
  selected again. Disabling a thread this way enqueues no consolidation; it is
  forgotten when the next session claims the job, which needs no enqueue.
* A stale scan can lower `input_watermark` (`memories.rs`, `try_claim_stage1_job`);
  deleting a thread removes its memory first and its row last, and a scan in
  between extracts it again.
* `try_claim_global_phase2_job` does not consult `retry_remaining`; between the
  claim and the sync nothing checks that the job is still owned.

Codex, exec-server:

* When output was evicted before a reconnect, an exit is published at the number
  of a lost chunk, ahead of output that came before it (`client_recovery.rs:116`,
  against the comment at `client.rs:1084`). `FeedIsPrefix` is stated for a server
  that still has all output.
* `README.md:121` says that a closed websocket terminates the processes; the
  session is kept for 30 s.
* The ids of accepted writes are forgotten beyond 4096, and a write retried after
  the process id was reused goes to the new process.

Codex, session:

* Two tasks started in one slot (`tasks/mod.rs:357`, `370`): run
  `session_turns_clash`.
* Two turns started at the same time can also lose input that was accepted: a
  finishing turn that starts one for mail gathers the input steered into the turn
  the submission loop has just installed (`tasks/mod.rs:353`), and puts it back
  (`tasks/mod.rs:362`) after that turn has finished and collected its input for
  the last time; the object is released with the input in it, and no assertion
  fires. It takes four operations (two user inputs, a mail that asks for a
  turn, a steer), one more than the run `session_turns` has.
* An interrupt in the moments in which a turn finishes empties the slot; it aborts
  nothing and so starts nothing, and the turn finds its slot gone and starts
  nothing either: mail that asks for a turn waits for the next operation
  (`tasks/mod.rs:534`, `838`; the exception of `MailTaken`).
* An item injected between the last collection of input and the release of the
  slot is neither in the turn nor recorded (`inject.rs:142`, whose comment says
  "Injects items into active work, or records them").
* Mail attached to a turn that is aborted or replaced is dropped with it, and a
  preparation that fails drops the turn's input.
* A `RegularTask` whose compaction before the turn keeps failing loops as long as
  input is pending (`regular.rs:88`).
* `TurnStarted` of the next turn may precede `TurnComplete` of the former.

## 6. Not modelled

Because a model checker has nothing to judge there: memory retrieval (scores,
embeddings, prompts), the offline decomposition pipelines, the analysis scripts,
the docker-based benchmarks the CI scripts do not use; and of Codex the
configuration, login and protocol types (data and conversions), the terminal
interface and command line (one thread that renders and parses), sandboxing and
the network proxy (policies handed to the operating system), plugins, skills and
hooks (opaque calls). Codex is large (some 730 000 lines); the modules here cover
the places where its tasks share state, not its bulk.

Left out inside modelled parts:

* `CommandExec` - the Windows sandbox variant, output streaming, and
  `process_exec_processor.rs`, which is built the same way;
* `RolloutWriter` - listing, compression, and the older format without ordinals;
* `Phase2Jobs` - `memory/reset` between confirming and resetting the baseline, the
  ranking of inputs, what the agent edits;
* `ProcessEvents`, `ExecSessions` - the contents of chunks, signals, the file system
  and HTTP requests, several sessions, the relay; that a shutdown of an expired
  session may itself be cancelled, and that the clean-up of a closed process goes
  by its id alone;
* `SessionTurns` - tools, approvals, hooks, durable sleep,
  `try_start_turn_if_idle`, rollback, shutdown, sub-agents. Two pairs of steps
  are taken as one: the check of the token and the lock in `on_task_finished`, and
  the mailbox after the pending input in `get_pending_input`.

## 7. Plan

1. Composition of `RunMetrics` and `CibenchRun`: the two questions that
   `CibenchRun` asks the ledger answered by the ledger itself.
2. `SessionTurns` with approvals and `try_start_turn_if_idle`; threads of the app
   server (load, fork, archive) on top of `RolloutWriter`.
3. `KVStore` and `DecompositionCache`, shown to implement it; `SharedList` for the
   caches without a lock; `CodexPredictions` and `CodexRun` (merge rule of
   `predictions.json`, watchdog); `RepoCheckout` (shared clones); `LlmRetry`.
