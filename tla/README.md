# Hermes Autonomaton: TLA+ models, checks and proofs

Hermes Autonomaton is a personal agent: a gateway process that serves chat
platforms and a web portal, runs the agent's turns, schedules jobs, and
supervises background workers, next to a command line (`hermes`, `flywheel`)
that works on the same files. What the agent may do by itself is governed by
zones: a RED action is never executed by a turn. It is stored, shown to the
operator as a card, and executed when the operator approves the card. Most of
the state is in small durable stores (SQLite databases, JSON-lines files) that
several threads and several processes change without a common lock, and that is
where the behaviours are that tests hardly reach.

## The system

| Part | State it keeps | Operations | Interacts with | Hard behaviour |
|---|---|---|---|---|
| RED approval pipeline: `grove/red_pending_store.py`, `grove/api/actions.py`, `grove/api/red_nonce.py`, `grove/dispatcher.py`, `grove/continuation.py`, `flywheel confirm-red` | `red_pending.db`: one row per effect with claim marker, anchor hash, sealed writer | put, claim, check, dispatch, release, pop, withdraw, dismiss, startup release, orphan reaping | proposal queue (cards), target files, portal | two stores written one after the other, approvers in several processes, crash between write and pop, stale claims |
| Proposal queue: `grove/eval/proposal_queue.py` | JSON-lines file of proposals, each with an optional lease | append, read, remove, set/clear lease, finalize, startup lease sweep | every producer of proposals, the portal, the command line | the lock is process-local; leases have no owner and no timeout |
| Staged-artifact review: `grove/api/actions.py` (promote, suggest revision), `grove/forge/` | staged packages, feedback store, archive-pending markers | promote, reject, suggest revision, orphan sweep | proposal queue, executor threads, ledger | publish outlives its request; reject during publish; crash in a multi-step disposition |
| Fleet: `grove/fleet/` | worker slots, run receipts, ledgers, unit states | tick, dispatch, reap, card emission | proposal queue, staged artifacts | derived states, cards emitted again, stranded process groups |
| Kanban: `hermes_cli/kanban_db.py` | tasks, links, runs, claims with TTL | create, link, claim, heartbeat, reclaim, complete, block, unblock, archive, crash detection, dispatch | worker processes, terminals, the gateway's dispatcher | a slow worker against the reclaim of its claim; a crash is detected and counted in two transactions |
| Cron: `cron/` | `jobs.json`, tick lock | due jobs, advance, run, mark; create, update, pause, resume, trigger, remove | the gateway's ticker thread, `hermes cron` | crash between advance and mark, two tickers, edits that take no lock |
| Grant tokens: `grove/gate/`, `grove/grants.py` | consumed jtis | verify, consume, apply | portal actions | replay, crash between consume and apply |
| Turn engine: `grove/dispatcher.py` | halts, pending andon | classify, halt, resolve | sessions, RED store | one answer for several waiting halts |
| Tool approval: `tools/approval.py` | queue of blocking approvals per session, approved patterns, `command_allowlist` in `config.yaml` | request, approve, deny, time out, release at a turn's end, clear at a session's, remember | agent threads and their children, gateway session | answer against deadline; overlapping turns on one queue; two saves of one list |
| Gateway sessions: `gateway/run.py`, `gateway/platforms/base.py` | session guard, owner task, pending message; running agent, run generation | message, interrupt, follow-up, drain, /stop, /new | platforms, agent threads | message arriving while a turn ends; a command that cancels a turn that hands over |

`PROJECT.json` lists every part, the ones that are left out too, with the
reason.

## What makes each part correct

* RED pipeline: one stored row authorises one execution; a claim in progress is
  exclusive; an approved write does not bury a change made since the proposal;
  a dismissed effect does not run; no claim and no dead card stays forever.
* Proposal queue: no append, removal or lease of one actor is undone by another.
* Staged review: a package is published once; one disposition per card; a
  rejected package is not published; a crash leaves the card actionable.
* Fleet: every staged draft that needs the operator has one card; a unit sent
  back is drafted again; no unit is worked on twice at a time.
* Kanban: one running claim per task; a reclaimed worker cannot complete the
  task of its successor; a task whose parents are done becomes ready.
* Cron: a recurring job runs at most once for each time it comes up, and a crash
  does not repeat it; a one-shot runs in the end; no job is forgotten; a job that
  changes the environment of its process runs alone.
* Tool approval: what is waited for can be answered, and nothing else takes an answer; what
  is allowed for good stays so.
* Sessions: one turn at a time; every message is answered or given up for a
  reason; whatever cuts a turn short, the session takes the next message.

## Modules

| Module | Models |
|---|---|
| `RedPending` | the RED approval pipeline |
| `MCRedPending` | its instances for TLC |
| `RedPendingProofs` | its theorems |
| `QueueContract` | what the proposal queue promises: an atomic queue with leases, and the theorem that it keeps its promise |
| `ProposalQueue` | the queue file, its temporary file and its sidecar, as the calls of the gateway and of other processes read and replace them |
| `MCProposalQueue` | its instances for TLC |
| `ProposalQueueProofs` | its theorems; above all, the gateway alone implements `QueueContract` |
| `ForgeReview` | the review of one forge unit: worker, ticker, portal and startup sweeps over staging, queue, ledger and the services |
| `MCForgeReview` | its instances for TLC |
| `ForgeProofs` | its theorems |
| `TaskBoard` | what a task board promises about tasks and the attempts at them |
| `Kanban` | the kanban board: dispatcher, workers, operators and terminals on one SQLite file |
| `MCKanban` | its instances for TLC |
| `KanbanProofs` | its theorems: it implements `TaskBoard`, and what its transactions keep |
| `SessionTurns` | one chat session of the gateway: messages, turns, and the commands that cut a turn short |
| `MCSessionTurns` | its instances for TLC |
| `SessionProofs` | its theorems |
| `CronJobs` | scheduled jobs: ticks of several processes, unlocked edits and crashes over one `jobs.json` |
| `MCCronJobs` | its instances for TLC |
| `CronProofs` | its theorems |
| `BlockingApproval` | dangerous commands of one session that wait for the user, and what the user wants remembered |
| `MCBlockingApproval` | its instance for TLC |
| `BlockingProofs` | its theorems |

### RedPending

State and code:

| Variable | Code |
|---|---|
| `stored`, `claimed`, `anchor`, `sealed` | rows of `red_pending`: presence, `claimed_at`, `target_sha256`, `writer_name` |
| `cards` | `governance_env_pending` rows of the proposal queue |
| `file` | body of the file that the anchored effects write |
| `req` | local state of each approver: where it is in `approve_red_proposal`, and the entry `claim` returned, which it keeps using |
| `armed` | confirm nonces issued by an approve tap and not expired |
| `appending` | a turn's proposal between `put` and `append` |
| `up`, `reaper`, `sweep`, `doomed` | the gateway process, and where `reap_orphaned_red_pending` is |
| `puts`, `landed`, `displaced`, `lapses`, `raced`, `rejected`, `crashes` | history, read by no guard that models code (`puts` and `crashes` carry the bounds) |

Each action is one SQLite transaction, one rewrite of the card file, or one read
or write of the target file. `approve_red_proposal` is therefore `Claim`,
`Check`, then `Withdraw`, `Abort`, `Execute` or `ExecuteFails`, then `Pop` or
`Release`, with everything else possible in between. The portal runs it on the
event loop without awaiting, so while it is in progress no other request and no
startup sweep runs (`LoopFree`); turn threads and other processes do.

Choices worth knowing:

* Sealing reads the target immediately before `put`; the two are one step
  (`StorePending`). A write between them only makes the anchor older, which
  the check answers with a withdrawal.
* The row's content is fixed by its content-addressed id, so it is the id.
  What varies between two rows of one id is the anchor, and the writer (absent
  in rows from before sealing: `Legacy`).
* Any result of a writer or tool is possible: success, failure before any
  change, failure after some of the changes (`ExecuteFails`, which leaves a
  foreign body). A failed integrity check (a link in the path changed) is
  possible for every file effect.
* `in_flight` refusals and failed nonces change nothing and are stuttering.
* Card removals on the portal are best effort (`except: pass`), and so is the
  append (`AppendCard`, `DropCard` may leave the cards as they are).
* A crash of the gateway takes its event loop and its turn threads. Nonces are
  HMACs and survive it. `Start` comes before the sweeps, because the adapters
  are connected before them.
* The reaper may fail at any of its steps (`ReapFails`): `start_gateway` logs what it raises
  and goes on. `finalize_proposal_state` raises when the sidecar cannot be written, and the ledger
  write after it may raise with the card gone already. Then the claims it has not released and the
  orphans it has not removed wait for another start, which `ClaimsSettle` and `OrphansReaped` say.
* `raced` names the approvers between their check and their write whose target somebody else has
  written meanwhile: another approver, half of one that failed, or an edit.
* `displaced` names the approvers whose claim somebody else cleared or deleted.
  A lapse is a success of a displaced approver, or the return to PENDING of a
  row whose effect has landed and that was about to be popped.

### QueueContract and ProposalQueue

State and code:

| Variable | Code |
|---|---|
| `rows`, `held` | the lines of `proposals.jsonl` that parse, and those of them with a lease |
| `damaged` | lines that do not parse (interrupted appends, an older schema) |
| `tail` | the last line, while it has no newline |
| `tmp`, `sidecar` | `<queue>.tmp` and `<queue>.quarantine` |
| `lock` | the module's `_lock`, which is a `threading.Lock` of the gateway process |
| `call` | local state of each caller: where it is in the call, and what `_read_records` returned to it |
| `grip` | the lease a tap was given, until it clears it |
| `swept`, `up` | the startup lease sweep, and the gateway process |
| `holders`, `puts`, `pops`, `owed`, `crashes` | history, read by no guard that models code (`puts` and `crashes` carry the bounds) |

A call is `Begin` (lock, read, and either an answer at once or more steps), then
`AppendLine` or `TearLine` for an append, and `Quarantine`, `WriteTmp`,
`Replace` for everything else; `Raise` ends it early. Commands of another
process take the same steps without the lock.

Choices worth knowing:

* A call begins when it gets the lock: waiting for it has no effect. Commands
  append and remove; only the gateway takes, clears and sweeps leases.
* Lines of one id are one row. The temporary file is written in one step: nobody
  reads it before `os.replace`, and a torn one is overwritten.
* An interrupted append leaves the whole line without its newline, or part of
  it; the next append continues that line, because `append` opens the file for
  appending and looks at nothing (`tail`).
* `finalize_proposal_state` and `remove` are both `remove`. The ledger event of
  the former is written outside the lock and is left out, and so is the
  rotation of the sidecar by size.
* The initial file is one that earlier runs of the program left, leases of a
  dead gateway included.

`QueueContract` is the queue as its callers see it: each call is one atomic
step. Only `Append` admits that it can fail half way. `ProposalQueue` implements
it by the identity on `rows`, `held`, `tail`, `holders`, `puts` and `pops`:
`Replace` is the step that counts for a rewriting call, `AppendLine` or
`TearLine` for an append.

### ForgeReview

State and code:

| Variable | Code |
|---|---|
| `staged` | `forge/pending_review/<slug>/`: which draft, whether its documents are still there (`docs`), the `.archive-pending` mark |
| `canon` | the draft whose documents are in `forge/<slug>/` |
| `card` | the unit's `forge_artifact_pending` row, and its lease |
| `ledger` | the unit in `_ledger_terminal_dispositions` |
| `notes`, `skip` | the feedback store: revisions counted, `terminal_skip` |
| `run`, `successes` | a dispatch record without a receipt; success receipts |
| `drive`, `notion` | the draft whose documents are in the Drive folder; the tracker row is Drafted |
| `req`, `loop` | where each portal request is, and the one that runs since its last await |
| `job` | the executor thread of a request, which a timeout does not stop |
| `tick` | between the two reads of `_emit_state_cards` and the append of a card |
| `up`, `swept` | the gateway process, and its startup sweeps |
| `archived`, `settled`, `expired`, `raised`, `displaced`, `drafts`, `crashes` | history, read by no guard that models code (`drafts` and `crashes` carry the bounds) |

An action is one file operation or service call, because the ticker is a thread,
the worker a process, and a crash may come after each. Handlers share the event
loop at their awaits only (`GoTo` keeps it, `Await` gives it up). A promotion is
`Promote`, `Canonicalize`, `Check`, `Drive`, `AfterDrive`, `NotionUpdate`,
`AfterNotion`, `Archive`, `Remove`, `Record`; a revision `SuggestRevision`, `Note`,
`Announced`, `Remove`, `Record`, `Mark`, `Archive`; a rejection `Reject`, `Archive`,
`Remove`, `Record`; and the fleet view that closes a card `View`, `Remove`,
`Record`.

Choices worth knowing:

* The queue is what `QueueContract` promises: each of its operations is one step,
  except that `finalize_proposal_state` writes the ledger after it has released
  the queue's lock (`Remove`, `Record`).
* `UnitState` is `derive_unit_state` for a unit whose runs succeed or are swept
  away at a restart. Failing runs and their retry limit are not in it.
* A package moves and is uploaded as a whole. Drive does not replace a document
  that has its title in the folder, so that `drive` keeps the first draft that
  got there.
* Taps may come before the startup sweeps are over: the adapters are connected
  first. `displaced` says that the lease sweep has taken a live tap's lease, or that a
  rejection was recorded while a promotion was under way.
* Every check of a file or a service may fail (`Refuse`, the failing branches of
  `Drive` and `NotionUpdate`), and so may every write of a file: the feedback store, the
  marker, the archive, the queue, the ledger, the clearing of a lease. What they raise ends the handler
  (`Raise`), or the part of the startup sweeps it comes from. The feedback store is not aged out.
* A promotion archives, finalizes and records outside any `try`: what is raised there leaves the card
  leased, with nobody who will clear it, until the next start. A revision has a
  `finally` that clears its lease, unless that raises too. `expired` and `raised` say that since the
  card was leased a publish has timed out, or an exception has left the lease; `LeaseHasOwner` names both.

### TaskBoard and Kanban

State and code:

| Variable | Code |
|---|---|
| `task` | rows of `tasks`: `status`, `claim_lock`, `current_run_id`, `worker_pid`, whether `claim_expires` has passed, `consecutive_failures` |
| `links` | `task_links` |
| `runs` | `task_runs`: the task, its claimer, and how the run ended |
| `worker` | the process spawned for a run: alive, between `complete_task` and its `recompute_ready`, or gone |
| `disp` | where `dispatch_once` is, and what it has read: rows, failures to record, the run to spawn, spawns left |
| `epoch` | restarts of a dispatcher, which change its pid and so its claim lock |
| `op` | an operator's command that takes more than one transaction |
| `ops` | operations so far (carries the bound) |

Every write of `kanban_db.py` is one `BEGIN IMMEDIATE` transaction, so that an
action is at most one transaction, and what was read before it is local state. A
tick is `StartTick`, `ReleaseStale` for each row read, `DetectCrashed`, `RecordDue` for
each failure, `EnforceRuntime`, `KillOverrun` for each row read, `Promote`, `Select`,
then for each ready task `ClaimNext`, and `SpawnFails`, or `SpawnWorker` and
`RecordPid`; anything may come in between.

Choices worth knowing:

* All processes are on one host (claims of other hosts are never probed), and a
  process id is not used again. A run's process has the run's number.
* A worker names its run in what it does to its task (`GROVE_KANBAN_RUN_ID`), and
  only its lock in a heartbeat. Terminals and operators name neither.
* A task is claimed by a dispatcher if its assignee is a profile; any task may be
  claimed by a terminal. Priorities are left out: a tick takes ready tasks in any
  order.
* A clean exit that the reap registry remembers trips the breaker at once; after a
  restart the registry is empty. Both are possible for every dead worker.
* A claim does not expire while `release_stale_claims` is between reading the row
  and using it (the TTL is a quarter of an hour).
* Completing clears the failure counter in a transaction of its own; nothing reads
  the counter of a task that is done, so it is the same step here. A run that is
  made up for a task never claimed ends as it begins and is left out.
* A spawn fails before there is a process, or after it, when its pid cannot be written
  (`SpawnFails`): then the claim is released and the worker lives on without it. A failure
  that would trip the breaker, of a task that is neither ready nor running, is not counted.
* A dispatcher is made to crash only when it has something to lose: a failure to
  record, or a run to start a worker for.

`TaskBoard` knows tasks, attempts and needs: a task is held by one attempt, an
attempt starts when all the task needs is settled, and has one outcome, given in
the step that takes the task from it. `Kanban` implements it under the mapping in
`Contract`: the attempts are the runs, and a task is held as long as its row names a
run. The mapping looks at `current_run_id` and not at `status`, because of what the
breaker does (below).

What does not hold. `kanban_stranded` is in the findings. Others that nothing in the
repository denies, and that no run is about: `detect_crashed_workers` and
`enforce_max_runtime` do not get the configured failure limit; `release_stale_claims`
counts no failure for the dead worker of an expired claim; the update of
`enforce_max_runtime` names neither lock nor run, so that it may reset a claim made
after the kill; a failure is not counted when the dispatcher dies between the two
transactions; `create_task`, `link_tasks` and `unblock_task` take an archived parent
for unfinished and `recompute_ready` takes it for settled.

### SessionTurns

State and code:

| Variable | Code |
|---|---|
| `guard` | `_active_sessions[key]`, named by whoever made the Event |
| `owner` | `_session_tasks[key]` |
| `pending` | `_pending_messages[key]` of the adapter: the texts merged into the one queued event |
| `slot` | `_running_agents[key]`: nothing, the sentinel, or the turn of the agent |
| `gen` | `_session_run_generation[key]` |
| `turn` | each `_process_message_background` task: where it is, its event, its guard, its generation, whether `cancel()` is due, and the interrupt its agent has seen |
| `cmd` | each /stop or /new: where `_dispatch_active_session_command` is, and the task it waits for |
| `arrived`, `replied`, `dropped`, `crossed`, `wedged` | history, read by no guard that models code |
| `ahead` | who may still run before the tasks that have not begun |

Everything runs on one event loop, so that an action is the code between two awaits.
A turn is `Begin`, `Claim` (or `Merge` or `Push`, when the runner's slot is taken),
`Run`, `Track`, `FollowUp` any number of times, `Finish` or `Fail`, `Close`, `Unwind`, `Answer`,
`TakeQueued` and `HandOver`, `Cleanup`; the actions that begin with `Cut` throw
`CancelledError` at each await where it may come. A command is `Issue`, `Clear`, `Cancel`,
`Join`.

Choices worth knowing:

* The loop's ready queue is first in, first out. A new task begins after what was
  ready before it and before what becomes ready later: `ahead` holds who may still
  come first. Without it the model has turns that are overtaken for ever before
  their first step, which the loop does not do.
* `busy_input_mode` is "interrupt", the default. A message that comes during a turn
  replaces the queued event (the busy handler merges media only), which counts
  as giving the older one up; messages merged by the runner are kept.
* An interrupted agent may return before or after it has seen the interrupt
  (`FollowUp`). What an agent does in its thread is left out.
* A command waits for the task it cut, five seconds at most (`Join`): the task has got its
  `CancelledError` by then, but may be unwinding still, and does so while the session goes on. `wedged`
  has the tasks that were not waited for.
* A command does not raise, so that the restoring of the guard in
  `_dispatch_active_session_command` is left out.
* The message and reply hooks, the send and the typing task are the awaits of one
  turn that another actor can use; consecutive awaits with nothing in between are
  one point.

What does not hold. `OneTurn`, `NotTrapped` and `Served` excuse the messages in `crossed`,
those that come, or are queued or in hand, while a command is dispatched. `OneTurn` and `Served`
excuse the tasks in `wedged` as well. Without the first excuse, TLC shows:

* Two tasks at work. A message queued before the turn's claim is drained by the
  cancelled task's own cleanup (`late_pending`); the command then drains nothing and
  releases the guard, and the next message starts a second task next to the
  first. The runner's slot keeps the second one out, as long as there are two.
* Two agents (`session_duplicate_agent`). With a third task it does not: the elder task
  releases its own agent, the younger claims the free slot with a sentinel and sets up
  its agent, and the `finally` of the elder's `_handle_message` pops any sentinel, that of
  the younger one too. The third task finds the slot free and claims it. With a
  second command in its place the same happens earlier: its `_clear_session` frees the slot
  of a turn in setup.
* A trapped chat. A task that adopted the command's guard as its own releases it; a
  new message starts a turn, which the command cancels before its first step. Its guard
  stays and has no owner, and `_session_task_is_stale` takes a missing owner for
  "not stale", so that nothing removes the guard.
* Lost messages. One that comes between the interrupt and the discard of
  `_interrupt_and_clear_session` is discarded, and a run that is no longer current
  dequeues the follow-up without a look at the generation.

Without the second, it shows what a task does that unwinds after its command has gone on, to
messages that crossed no command:

* Two tasks at work. The next message starts a turn next to the task that unwinds, which then takes
  the event that is queued for that turn and hands it over.
* Lost messages. A message that finds the old agent still in the runner's slot is pushed
  to it, and an agent that has returned already does not see it.

The docstring of `_dispatch_active_session_command` promises otherwise ("drain the
latest queued follow-up exactly once"; "not dispatched as a second parallel run").
What is left of it is proved: without a message in `crossed` and a task in `wedged` there is one
task at work, no trapped chat and no lost message (`WorksAlone`, `TakesTheNext`,
`EveryoneServed`), and `SlotFree` needs no excuse. That `NotTrapped` holds with a task in `wedged` too
is checked and not proved.

### CronJobs

State and code:

| Variable | Code |
|---|---|
| `file` | `jobs.json`: which jobs are there, `enabled`, `next_run_at` as the clock sees it, `last_run_at`, `repeat.completed` |
| `runAt` | `schedule.run_at` of a one-shot, as the clock sees it |
| `stray` | the jobs with an agent thread, in either process, that goes on after its run was given up |
| `lock` | the tick lock file, a `flock` |
| `proc` | each process that ticks: where `tick` is, the file it has loaded, the jobs still to advance, due, and running |
| `edit` | each caller of `create_job`, `update_job`, ... between its load and its save |
| `edits`, `crashes` | bounds |
| `owed`, `twice`, `served`, `edited`, `dirty`, `lost` | history, read by no guard that models code |

A tick is `Begin` (lock and load), `Sift` (recover, fast-forward, save), `AdvanceLoad` and
`AdvanceSave` for each due job, then `Start`, `MarkLoad` and `MarkSave` for each, and `End`. An
edit is `Load` and `EditSave`. `Age` lets time pass for one schedule: a time ahead
becomes due, and a due one stale (past its grace).

Choices worth knowing:

* A run is from `Start` to its mark. `run_job` returns when its agent is done, or has been idle for too
  long: then it tells the agent to stop, does not wait for its thread, and raises (`Returns`). The
  tick marks the job as failed, and the thread goes on until it notices (`StrayEnds`).
* `_jobs_file_lock` is a lock of one process between threads; the tick lock already
  keeps ticks apart, and the jobs of one tick mark one at a time (`At(p, "advance")`).
  Edits take neither.
* "bypass" is a hand that edits the file and leaves a recurring job without a next
  time, which `_get_due_jobs_locked` says it recovers from.
* A one-shot's own clock ages with its `run_at`; a `trigger` makes it due whatever its
  `run_at`.
* `croniter` is installed: without it recurring cron jobs are not advanced.

What the properties leave open: an agent that was given up is not a run. Its job may be due
again at the next tick, and then a second agent of the job works beside the first, which is
reachable with the constants of `cron_jobs`; and a job with a workdir may change the directory and
`TERMINAL_CWD` under an agent that was given up, or have its own changed by the next one. The two passes of
`tick` keep runs apart, not agents. Furthermore an edit is lost, or brings back what a tick has
changed, when both loaded the same file (`lost`). With it, a recurring job may start
twice for one time: an edit loads before `AdvanceSave` and saves after it, and the
process dies while the job runs. A pause or a removal is undone by a mark that
loaded before it; a trigger during a run is overwritten by that run's mark; a
one-shot resumed past its grace has no next time; and one with repetitions left can be
resumed within its grace and runs again. The repository promises nothing on these,
except the last ("Once a one-shot has already run, it is never eligible again"),
which is about recovery by the scheduler.

### BlockingApproval

State and code:

| Variable | Code |
|---|---|
| `turn`, `cb` | which turns run, were interrupted or are over, and whose callback `_gateway_notify_cbs` holds |
| `queue` | `_gateway_queues` of the session, oldest first |
| `ask` | each command that meets the guard: where its thread is in `check_all_command_guards`, and its entry (what it was taken off the queue with, whether its event is set) |
| `session`, `permanent`, `config` | `_session_approved`, `_permanent_approved`, `command_allowlist` in `config.yaml` |
| `clears` | session boundaries (bound) |
| `dropped` | history: a save left out a pattern that was in the file |
| `unsaved` | history: the patterns of saves that failed, until a save lists them |

An answer, a turn's end and a boundary take entries off the queue in one step under the lock
(`Resolve`, `End`, `Clear`), and set each one's event in a later step (`Deliver`); a
deadline may pass in between (`Timeout`). A thread reads the callback and queues its entry in
two steps (`Check`, `Enqueue`), as it lists and saves what is allowed for good
(`ListPermanent`, `SavePermanent`). A save may fail, and so may the loading of the list as the process
starts (`Read`): both are logged and nothing more.

Choices worth knowing:

* A command belongs to a thread of its own. Threads of one turn ask side by side
  (subagents, `execute_code`), and may outlive the turn, so that a turn ends whoever waits.
* Handlers of answers and boundaries run on the event loop without an await between taking
  entries and setting their events (`LoopFree`); the end of a turn is in its own thread.
* `Check` looks at all patterns of a command at once. The code asks for tirith's and for its
  own one after the other; an approval between the two only leaves a question out.

What does not hold, and TLC shows with the same constants:

* "The agent never sees approval_required" (`check_all_command_guards`). `/stop` or
  `/new` frees the session while the interrupted thread goes on; the next turn registers
  its callback; the old thread ends, unregisters by the session's key, and with that takes away the
  callback of the new turn and releases its waits. Commands of the new turn then come
  back unasked, and those that waited are reported as "denied by user".
* "Approval state from the previous conversation must not survive the reset"
  (`_handle_reset_command`). A thread of the interrupted turn that has read the callback
  queues its entry after `clear_session`, or was answered just before it; when it
  wakes up, `approve_session` adds its pattern to the new session.
* An answer goes to the oldest entry, also when its button is on the prompt of another, or
  the oldest is left from a turn that `/stop` interrupted.
* Two threads that save the list at the same time: the one that listed first may write last,
  and a pattern that the user allowed for good is gone at the next start (`dropped`).
* A pattern whose save failed is in memory only, and nothing tries again until the next one is
  allowed for good (`unsaved`); a managed installation never writes. A process that could not load the list
  at its start overwrites it with its own (`dropped`). `AlwaysIsSaved` excepts exactly these.

## Runs

| Run | Instance | Shows |
|---|---|---|
| `red_gateway` | the gateway alone, two effects on one file (one sealed, proposed twice; one plain), one crash, fairness | `OncePerPutOrCrash`, `ClaimsSettle`, `OrphansReaped` hold |
| `red_cli` | the gateway and two command lines on one effect, stored before sealing and re-proposed twice; one crash; other writers of the file | `TypeOK`, `ClaimHeld`, `OncePerPut`, `NoLostUpdate` hold |
| `red_second_execution` | the portal and one command line | `SingleExecution` is violated |
| `queue_gateway` | the gateway alone, two proposals, two taps and the startup sweep, one crash, fairness | `NothingDestroyed`, `DoubleTapGuard`, `AtomicQueue` (the refinement), `StrandedLeasesClear` hold |
| `forge_review` | two taps, one draft, a limit of two revisions, one crash, under fairness | `TypeOK`, `AppliedIsDelivered`, `SettledIsArchived`, `LeaseHasOwner`, `OnePublish`, `PendingGetsCard` hold |
| `forge_revision` | one tap, two drafts, no crash, under fairness | `RevisionIsRedrafted` is violated |
| `kanban_board` | two tasks (one with a time limit, one with one retry), one dispatcher that may crash once, two runs, one operator's command, room for one worker, under fairness | `TypeOK`, `RunsInvariant`, `NoMutualWait`, `SpawnCap`, `OwnAttempt`, `BoardContract` (the refinement), `AbandonedIsNoticed`, `SettledParentsPromote` hold |
| `kanban_stranded` | the same | `NoStrandedClaim` is violated |
| `session_turns` | three messages, one command, three tasks | `TypeOK`, `OneTurn`, `SlotFree`, `NotTrapped`, `Served` hold |
| `session_duplicate_agent` | four messages, one command, four tasks | `OneRun` is violated |
| `cron_jobs` | a recurring job with a workdir, a one-shot, two processes, one edit, one crash, an agent of the recurring job that may go on after its run, under fairness | `TypeOK`, `RunAlone`, `AtMostOnce`, `OneShotServed`, `NeverForgotten` hold |
| `approval_queue` | two commands, a pattern and a tirith rule, two turns, two sessions, failing saves, restarts | `TypeOK`, `QueueIsExact`, `AlwaysIsSaved` hold |

Bounds. Two effects are enough for two rows to collide on a file; two puts let a
row be replaced in flight and consumed rows come back; two command lines and the
portal give a claim, its displacement, its successor, and the displaced
approver's own release or pop. One crash is one more than most interleavings
need: after it, the startup sweep runs and every action can happen again. `MaxPuts` and
`MaxCrashes` are the only bounds, and both are parameters of the theorems.
`NoLostUpdate` is checked in `red_cli`, where edits and other approvers come at any step, also
between an approver's check and its write: nothing holds the file there, and a write in that window is what
`raced` excepts. `OncePerPutOrCrash` and `OncePerPut` count by put, so that a nonce of the first put that is
spent on the second is within them. `RejectedStaysUnexecuted` is violated by a command line that claims
a row before the portal dismisses it, and has no run of its own.

In `queue_gateway`, two proposals give an append or a lease of one between the read
and the replace of the other, and a line that two appends share; two taps and
the sweep give every pair of rewriting calls; the second put brings a removed
row back while a tap still holds its lease.

In `forge_review`, two taps give every pair of handlers, also a handler and the
executor thread of one that has timed out. A unit whose card is missing gets it for its
only success receipt, so that one draft is enough for `PendingGetsCard`; that a redraft
meets a publication, a card or an archived draft of the first is left to the theorems, which
hold for every bound, and to wider instances that TLC has finished without an error on the
safety properties: three taps (1,393,056 states up to the symmetry
of taps) and two drafts (3,005,977). `forge_revision` has two
drafts. Two revisions reach the limit (three in the code) after one that does not.

In `kanban_board`, a second run of the same task meets the worker of the first, a
second task is parent, child or rival for the one place, and creations are not
operations, so that the one command comes on every board they lead to. A cycle of links has two
tasks here, and any number in `NoCycle`. A command
is an operator's or a terminal's. Two failures reach the limit of the dispatcher,
one that of the task with a retry of its own.

In `session_turns`, a third message comes while the second is queued; three tasks are the one that
is cut, the one that follows it and the one that a drain starts, also when the first unwinds late. The fourth message is what it takes to
violate `OneRun`; three do not, with five tasks either. The messages are symmetric, and the runs check invariants only.

In `cron_jobs`, the job with a workdir and the one without are the two passes of a
tick; one crash separates any two of its steps, a stray agent (`Stuck`) is there while its job, or the
other one, runs, and the edit comes before, between or
after them in the same file. Times owed are counted up to two.

In `approval_queue`, two commands are the waiter and its rival for an answer, the late entry
and the one in the queue, and the two savers of one list; two turns overlap when the first was
interrupted, and one boundary separates the two. It checks invariants only: that every wait
ends is the deadline's doing.

`OnePublish` has two exceptions in its statement (`displaced`), both real: `Reject` does not
look at the lease, and a startup sweep that comes after the first taps clears a lease
that is held.

The violated properties are what the code says of itself; the findings in
`PROJECT.json` quote it. The one of the RED pipeline needs an approver outside the
gateway process, and a restart, or a second proposal, while it works. `RevisionIsRedrafted` needs nothing but one tap: the draft
is archived, the success receipt of its run stays, and the unit is "Needs you",
which selection leaves out. `NoStrandedClaim` needs a terminal that claims a task
between the two transactions in which its crash is detected and counted: the breaker
then blocks a task that is being worked on, and its claim stays. `OneRun` needs a message
that is queued while /stop cancels the turn.

Fairness. A request handler that runs on the event loop continues until it
answers (`WF` of the portal's steps); the service manager restarts the gateway
(`WF` of `Start`); the startup task gets the loop between requests (`SF` of
`Reap`: requests can come between any two of its steps but cannot keep it off
the loop forever). Nothing is assumed of the operator, of turns, or of command
lines: a confirm-red may stop anywhere. In the queue, a call of the gateway runs to
its end and the service manager restarts it; the startup sweep gets the lock in
the end (`SF` of its `Begin`): `_lock` is not fair, but those who hold it
release it after one read and one write, and a startup waits with few others. In
the review, a handler that has begun gets the loop again after each await (`SF`
of `Handler`, since others come in between), executor threads end (they call
services with timeouts of their own), workers end (a wall clock kills them), the
ticker ticks, selects and cards (`SF`: a dispatch and a scan exclude each other,
and a crash disables both), and a gateway that ended is started and sweeps. No tap
is fair: the operator need not do anything. On the kanban board, the dispatcher's
loop ticks again and again (`[]<><<Tick>>`: the gateway's watcher swallows exceptions
and is restarted with the gateway), time passes (`WF` of `Expire`), and workers end
(`WF`: their iterations are limited); that a worker does anything to its task before
it ends is not assumed. For jobs, somebody ticks (`WF` of `Tick` of all processes
together: the gateway's ticker is a loop, and a job is timed out for inactivity), and
an edit that has loaded is saved. Neither time nor users are fair. `SessionTurns`
states no fairness: its properties are about sessions at rest.

## Proofs

Every invariant and action property that a passing run checks is a theorem of the
specification, for every value of the constants that its module's assumption
admits. The assumptions say which sets of names are disjoint (no dispatcher is called "terminal", no
command has the number of a turn, no process that ticks is an editor), that a board has
finitely many tasks, and that bounds are numbers; TLC evaluates them on every run. `MaxPuts`, `MaxCrashes` and the other bounds are parameters, so that a theorem
covers any number of steps.

| Module | Theorems | Beyond the module's assumption |
|---|---|---|
| `RedPendingProofs` | `TypeCorrect`, `ExclusiveClaims`, `OneExecutionPerPut`, `SealedWritesAreCurrent` | |
| | `GatewayExecutesOnce` | no command lines |
| `QueueContract` | `ContractHolds` | |
| `ProposalQueueProofs` | `TypeCorrect` | |
| | `QueueIsAtomic`, `DamagedLinesKept`, `OneTapHolds` | no commands |
| `ForgeProofs` | `TypeCorrect`, `Delivered`, `ArchivedFirst`, `LeasesEnd`, `OneAtATime` | |
| `KanbanProofs` | `TypeCorrect`, `RunsAgree`, `BoardImplements`, `CompletesOwnAttempt`, `NoCycle` | |
| | `SpawnsCapped` | one dispatcher |
| `SessionProofs` | `TypeCorrect`, `SlotIsFreed`, `WorksAlone`, `TakesTheNext`, `EveryoneServed` | |
| `CronProofs` | `TypeCorrect`, `RunsAlone`, `OncePerTime` | |
| `BlockingProofs` | `TypeCorrect`, `QueueExact`, `SavedForGood` | |

### RedPending

`RedPendingProofs` proves, for any sets of effects, command lines and threads and
any bounds:

* `TypeCorrect`: `Spec => []TypeOK`.
* `ExclusiveClaims`: `Spec => []ClaimHeld`.
* `OneExecutionPerPut`: `Spec => []OncePerPut`.
* `GatewayExecutesOnce`: without command lines, `Spec => []OncePerPutOrCrash`.
* `SealedWritesAreCurrent`: `Spec => NoLostUpdate`, beside any command lines and other writers.

They rest on `ConstantsAssumption`, which TLC evaluates in every run.

`OncePerPut` is not inductive: it says nothing of a row that may still be
executed. The strengthening `Budget` counts it: a row authorises one more
execution as long as it is there and no undisplaced approver has already
executed it (`Authorises`), and
`landed + (1 if Authorises) <= puts + lapses`. A put adds to both sides, an
execution by an approver with standing moves from the authorisation to
`landed`, and every way of getting a second authorisation for one put is a
lapse. That an execution uses up the only authorisation needs `ClaimHeld`: the
approver with standing is alone with its row. `IInv` is `TypeOK`, `ClaimHeld` and
`Budget` together. For `GatewayExecutesOnce`, there is one approver and only a
put in mid-flight, the startup release and a crash can come between its write
and its pop; `LoopFree` excludes the release, and `CrashBudget` pays for the crash. For
`SealedWritesAreCurrent` the invariant is `Current`: from its check to its write, an approver's
anchor is the body of the file, unless it is in `raced`. Whatever changes the file puts everyone
else who is there into `raced` (`Overtake`), and whoever checks again leaves it.

### The proposal queue

`QueueContract` and `ProposalQueueProofs` prove, for any proposals, any number of
taps and any bounds:

* `ContractHolds`: in the atomic queue, at most one tap has an uncleared lease of
  a row, the row records it, and no write of a proposal is removed twice.
* `DamagedLinesKept`: without other processes, `Spec => []NothingDestroyed`.
* `QueueIsAtomic`: without other processes, `Spec => AtomicQueue`.
* `OneTapHolds`: hence `Spec => []DoubleTapGuard`, from the two theorems above it
  and not from the detailed steps again.
* `TypeCorrect`: `Spec => []TypeOK`, with commands of any number of other processes.

With commands, a call works on a file that may have been replaced since it read it, and
installs a temporary file that may be another's. `Sound` says what survives that: what a
call read and what a temporary file holds are well formed in themselves, leases on rows
only, however old they are.

Without commands, the invariant is `QueueInv`: the client in its critical section is the only one,
what it has read is what the file still holds, what it has written to the
temporary file is what it is about to install, and what it will drop from the
file is already in the sidecar. Each step is then a step of the contract or a
stutter. That hangs on "no other process", and has to: with a `flywheel` command
next to the gateway (`OneCommand` of `MCProposalQueue`), TLC refutes `DoubleTapGuard`. The
command rewrites the queue between the read and the replace of a lease, the lease it did
not see is gone, and a second tap is told "acquired", against the docstring of
`set_lease`.

### CronJobs

`CronProofs` proves, for any jobs, processes that tick, editors, edits and crashes:

* `TypeCorrect`: `Spec => []TypeOK`.
* `RunsAlone`: `Spec => []RunAlone`.
* `OncePerTime`: `Spec => []AtMostOnce`.

For the first two the invariant is `Inv`: `TypeOK`, which says that the
process whose tick is on is the one that holds the lock, and `Working`, which types the
copies of the file that ticks and edits work on (what they save becomes the file) and
says that an idle process runs nothing and that `Alone` holds in every tick. `Alone` is
at stake in `Start` only: a job with a workdir starts when nothing runs, another when
no job with a workdir is due or running. That no job has two runs
follows from the lock: whatever process runs it holds the lock, and one process runs a
set. `TickStep` is shared by the steps of a tick that leave the lock alone, and
`Released` by its end and by a crash, which is where the proof uses that the lock goes
with the file descriptor.

`OncePerTime` adds `CareInv`. As long as no save was lost, a page that was loaded and is
not marked dirty is the file itself (`Fresh`), and whatever may still start has a time it is owed
(`Careful`): a job that is due in the file, one that a tick found due, and twice over one that was
advanced and came up again while the tick was still on it. A job that is removed and created again
under a tick's feet is what `Unborn` and the `edited` jobs are for.

### ForgeReview

One invariant, `ForgeInv`, for the five theorems. `AllInPlace` says where a handler of each kind can
be, what its thread does meanwhile, and that a promotion past its threads has delivered, from which
`AppliedIsDelivered` follows when it records. `DraftInv` numbers the drafts: a disposition
that has archived its draft finds no draft or a newer one, so that what it records is not
staged. `LeaseInv` adds to `LeaseHasOwner` that who has removed the card has left no lease behind.
`OnePublish` needs the most. A holder has the card leased, or the card is gone and something
is on record, and there is one holder (`One`). A second holder comes up only for the card
that a scan appends after the first draft is archived and before anything is on record;
then there is nothing to publish and nothing comes (`Gone`), because before the first record a unit with
a success receipt is not drafted again (`EraInv`). `Lone` is their disjunction.

### Kanban

`Inv` is `BoardInv` (types, `RunsInvariant`, and that a row that names a run is running or was
blocked by the breaker under a terminal's claim) and `LocalInv` (what processes hold; a
dispatcher that starts a worker has a run and a spawn left). A lemma per transaction shows
`BoardStep`: the invariant is kept, no run is lost, and the step is one of `TaskBoard` under the mapping
or changes nothing of it. The four lemmas for rows that move, claims that begin, claims that
end and runs that close carry most of it, so that `BoardImplements` and
`RunsAgree` come out of one pass over `Next`. `CompletesOwnAttempt` reads the step of a
worker off the same invariant. `NoCycle`: what a task reaches is the least set of tasks that the links
do not leave (`ReachIs`); the link that is added goes to a task that does not reach its
source, and the set that shows it is given (`NotReached`), without induction on paths.
`SpawnsCapped` counts: the tasks that run under a dispatcher's claim, but for the one it is just
starting, and the spawns it has left are within `max_spawn` (`Capped`). It is false for two
dispatchers, each with a count of its own.

### SessionTurns

`SlotIsFreed` rests on `Accounted`: a slot that is taken has a turn before its release with the
current generation, or a command that has bumped the generation and is about to clear the slot. The
other three rest on `Orderly`: if no message has crossed a command and no command has gone on without
the task it cut, then (`Ownership`)
who is at work is the recorded owner or the one task that a command waits for, (`Guarding`) the
guard is the command's while one is dispatched and the owner's own otherwise, and (`Accounting`) every
message that is not answered or given up is queued or held by a task that will answer it.
`Calm` says what a step may rely on when it leaves `crossed` and `wedged` empty, and `Undisturbed` gives it to each
action.

### BlockingApproval

`BlockInv` describes an entry by whether it is queued: it is exactly while its thread is between
its append and its answer (`Waits`), once (`LineOK`), and what was allowed for good is in the
file, a thread is before its list or saves a list that has it, or its save failed
(`AlwaysIsSaved`). The lemmas on lines
(`LineEmpty`, `LineGrows`, `LineShrinks`, `LineMoves`, `LineLeft`) say who is in the queue after each of
the ways it changes.

### What is only model-checked

The liveness properties `ClaimsSettle`, `OrphansReaped`, `StrandedLeasesClear`, `PendingGetsCard`,
`AbandonedIsNoticed`, `SettledParentsPromote`, `OneShotServed` and `NeverForgotten`: they need
fairness and with it `ENABLED`, which the proof system does not handle here. The violated
properties have TLC's counterexamples.

## Plan

1. `RedPending` (this is done), with its proofs.
2. `ProposalQueue` and its contract (this is done), with the refinement proved.
3. `ForgeReview`: promote, reject, revise and publish over leases, executor
   threads, the ticker, the startup sweeps and crashes (this is done, with its proofs).
4. `Kanban` and its contract, `SessionTurns`, `CronJobs`, `BlockingApproval` (these are done, with
   their proofs and the refinement of `TaskBoard`).
5. Proofs that are left: the abstract specifications of single components that have none yet (a
   session as a queue that is served one at a time, a job as a counter of times owed), and what
   remains of `QueueContract`'s promise beside a `flywheel` command.
6. `FleetRuns`: dispatch, pid files, the wall clock, receipts, synthetic receipts,
   the startup reaping of workers, reconciliation, retry limit and breaker.
7. `GrantTokens`, and the clarify tool's queue next to `BlockingApproval`.

## Not modelled

Model calls, prompt assembly, classification of commands, rendering,
configuration and the tools' I/O have no concurrent state of their own. The
remaining stores are named in `PROJECT.json` with the reason or the place in the
plan.
