------------------------------- MODULE Kanban -------------------------------
(***************************************************************************)
(* The kanban board: one SQLite file shared by the dispatcher, the workers *)
(* it spawns, and the people and agents who use `hermes kanban`            *)
(* (hermes_cli/kanban_db.py, kanban.py, tools/kanban_tools.py).            *)
(*                                                                         *)
(* Every write is one BEGIN IMMEDIATE transaction, so an action is at most *)
(* one transaction.  What is read before a transaction is kept in the      *)
(* local state of its process (disp, op) until the transaction uses it.    *)
(* All processes are on one host; a process id is never used again.        *)
(***************************************************************************)
EXTENDS Naturals, Sequences, FiniteSets

CONSTANTS
    Tasks,         \* task ids
    Dispatchers,   \* processes that call dispatch_once
    Spawnable,     \* tasks whose assignee is a profile; the others are lanes
    Limited,       \* tasks with max_runtime_seconds
    MaxRetries,    \* by task: max_retries, 0 when it has none
    FailureLimit,  \* kanban.failure_limit of the dispatcher's caller
    MaxSpawn,      \* kanban.max_spawn
    MaxRuns,       \* bound: rows of task_runs
    MaxOps,        \* bound: operations of operators
    MaxCrashes     \* bound: crashes of each dispatcher

DefaultFailureLimit == 2

ASSUME KanbanAssumption ==
    /\ IsFiniteSet(Tasks) /\ Dispatchers \intersect {"nobody", "terminal"} = {}
    /\ Spawnable \subseteq Tasks /\ Limited \subseteq Tasks
    /\ MaxRetries \in [Tasks -> Nat]
    /\ FailureLimit \in Nat \ {0} /\ MaxSpawn \in Nat \ {0}
    /\ MaxRuns \in Nat /\ MaxOps \in Nat /\ MaxCrashes \in Nat

VARIABLES
    task,     \* rows of tasks
    links,    \* task_links: <<parent, child>>
    runs,     \* task_runs, by id
    worker,   \* by run: the process spawned for it
    disp,     \* by dispatcher: where dispatch_once is, and what it has read
    epoch,    \* by dispatcher: restarts (a new pid each)
    op,       \* the operator's command that takes more than one transaction
    ops       \* operations so far (carries the bound)

vars == <<task, links, runs, worker, disp, epoch, op, ops>>
board == <<task, links, runs>>

RunIds == 1..MaxRuns
NoRun  == 0
NoLock == <<"nobody", 0>>
Host   == Dispatchers \union {"terminal"}
Locks  == {NoLock} \union (Host \X (0..(MaxRuns + MaxCrashes)))

Statuses == {"absent", "triage", "todo", "ready", "running", "blocked",
             "done", "archived"}
Outcomes == {"open", "completed", "blocked", "reclaimed", "crashed",
             "timed_out", "spawn_failed", "gave_up"}
Row == [status : Statuses, lock : Locks, run : RunIds \union {NoRun},
        pid : RunIds \union {NoRun}, expired : BOOLEAN,
        fails : Nat]
NoRow == [status |-> "absent", lock |-> NoLock, run |-> NoRun, pid |-> NoRun,
          expired |-> FALSE, fails |-> 0]
Resting == [at |-> "idle", rows |-> {}, due |-> {}, run |-> NoRun, slots |-> 0]
NoOp    == [at |-> "idle", rows |-> {}]

Init ==
    /\ task = [t \in Tasks |-> NoRow] /\ links = {} /\ runs = <<>>
    /\ worker = [r \in RunIds |-> "none"]
    /\ disp = [d \in Dispatchers |-> Resting]
    /\ epoch = [d \in Dispatchers |-> 0]
    /\ op = NoOp /\ ops = 0

-----------------------------------------------------------------------------
(* What the transactions are made of.                                      *)

Alive(r)   == worker[r] \in {"alive", "finishing"}
Parents(t) == {p \in Tasks : <<p, t>> \in links}
Settled(p) == task[p].status \in {"done", "archived"}
ParentsSettled(t) == \A p \in Parents(t) : Settled(p)

\* _end_run: the open run of the task's row is closed.
Ended(t, outcome) ==
    IF task[t].run # NoRun /\ runs[task[t].run].state = "open"
    THEN [runs EXCEPT ![task[t].run].state = outcome]
    ELSE runs

\* The row goes to a status, with no claim and, after _end_run, no run.
Unclaimed(row, s) ==
    [row EXCEPT !.status = s, !.lock = NoLock, !.pid = NoRun, !.run = NoRun,
                !.expired = FALSE]
Close(t, s, outcome) ==
    /\ task' = [task EXCEPT ![t] = Unclaimed(@, s)]
    /\ runs' = Ended(t, outcome)
    /\ UNCHANGED links

\* Mutant of Promoted: an archived parent holds its children back.
PromotedWhenDone ==
    [t \in Tasks |->
        IF task[t].status = "todo" /\ \A p \in Parents(t) : task[p].status = "done"
        THEN [task[t] EXCEPT !.status = "ready"] ELSE task[t]]

\* recompute_ready
Promoted ==
    [t \in Tasks |->
        IF task[t].status = "todo" /\ ParentsSettled(t)
        THEN [task[t] EXCEPT !.status = "ready"] ELSE task[t]]
RecomputeReady == task' = Promoted /\ UNCHANGED <<links, runs>>

\* claim_task, by the process whose lock is l.
Demote(t) ==
    /\ ~ ParentsSettled(t)
    /\ task' = [task EXCEPT ![t].status = IF @ = "ready" THEN "todo" ELSE @]
    /\ UNCHANGED <<links, runs>>
\* Mutant of Claimable: whoever made the task ready is trusted.
ClaimableUngated(t) == task[t].status = "ready" /\ task[t].lock = NoLock

Claimable(t) ==
    ParentsSettled(t) /\ task[t].status = "ready" /\ task[t].lock = NoLock
Claim(t, l) ==
    /\ Claimable(t) /\ Len(runs) < MaxRuns
    /\ runs' = Append(Ended(t, "reclaimed"),
                      [task |-> t, lock |-> l, state |-> "open"])
    /\ task' = [task EXCEPT ![t] =
                   [@ EXCEPT !.status = "running", !.lock = l,
                             !.run = Len(runs) + 1]]
    /\ UNCHANGED links

\* _record_task_failure: max_retries overrides the caller's limit.
Limit(t, callers) == IF MaxRetries[t] > 0 THEN MaxRetries[t] ELSE callers

\* After a crash or a timeout: the caller has already reset the task.  The
\* breaker trips a task that is ready or runs, and counts nothing for another.
RecordFailure(t, limit) ==
    LET fails == task[t].fails + 1
    IN  /\ task' = [task EXCEPT ![t] =
              IF fails < Limit(t, limit) THEN [@ EXCEPT !.fails = fails]
              ELSE IF @.status \in {"ready", "running"}
              THEN [@ EXCEPT !.fails = fails, !.status = "blocked"] ELSE @]
        /\ UNCHANGED <<links, runs>>

\* After a failed spawn: the claim is released and the run ended as well.
RecordSpawnFailure(t) ==
    LET fails == task[t].fails + 1
        trip  == fails >= Limit(t, FailureLimit)
        held  == IF trip THEN {"running", "ready"} ELSE {"running"}
    IN  /\ task' = [task EXCEPT ![t] =
              IF @.status \in held
              THEN [Unclaimed(@, IF trip THEN "blocked" ELSE "ready") EXCEPT !.fails = fails]
              ELSE [@ EXCEPT !.run = NoRun]]
        /\ runs' = Ended(t, IF trip THEN "gave_up" ELSE "spawn_failed")
        /\ UNCHANGED links

-----------------------------------------------------------------------------
(* dispatch_once, a step at a time.                                        *)

At(d, at) == disp[d].at = at
Goto(d, at, rows) ==
    disp' = [disp EXCEPT ![d] = [@ EXCEPT !.at = at, !.rows = rows]]
Snapshot(S) == {[task |-> t, lock |-> task[t].lock, pid |-> task[t].pid] : t \in S}
Running == {t \in Tasks : task[t].status = "running"}

\* release_stale_claims: the rows are read once, then taken one by one.
StartTick(d) ==
    /\ At(d, "idle")
    /\ Goto(d, "stale", Snapshot({t \in Running : task[t].expired}))
    /\ UNCHANGED <<board, worker, epoch, op, ops>>

StillStale(row) ==
    /\ task[row.task].status = "running" /\ task[row.task].lock = row.lock
    /\ task[row.task].expired

\* Mutant of ReleaseStale: a claim without a recorded process is left alone.
ReleaseKnown(d) == \E row \in disp[d].rows :
    /\ At(d, "stale")
    /\ Goto(d, "stale", disp[d].rows \ {row})
    /\ IF ~ StillStale(row) \/ row.pid = NoRun \/ Alive(row.pid) THEN UNCHANGED board
       ELSE Close(row.task, "ready", "reclaimed")
    /\ UNCHANGED <<worker, epoch, op, ops>>

\* A worker that lives has its claim extended; the claim of any other is
\* released (there is nobody left for _terminate_reclaimed_worker to kill).
ReleaseStale(d) == \E row \in disp[d].rows :
    /\ At(d, "stale")
    /\ Goto(d, "stale", disp[d].rows \ {row})
    /\ IF ~ StillStale(row) THEN UNCHANGED board
       ELSE IF row.pid # NoRun /\ Alive(row.pid)
       THEN /\ task' = [task EXCEPT ![row.task].expired = FALSE]
            /\ UNCHANGED <<links, runs>>
       ELSE Close(row.task, "ready", "reclaimed")
    /\ UNCHANGED <<worker, epoch, op, ops>>

\* detect_crashed_workers: all dead workers in one transaction, the failures
\* after it, one transaction each.  A clean exit that the reap registry knows
\* of trips the breaker at once.
Dead == {t \in Running : task[t].pid # NoRun /\ ~ Alive(task[t].pid)}
DetectCrashed(d) == \E limits \in [Dead -> {1, DefaultFailureLimit}] :
    /\ At(d, "stale") /\ disp[d].rows = {}
    /\ task' = [t \in Tasks |-> IF t \in Dead THEN Unclaimed(task[t], "ready")
                                ELSE task[t]]
    /\ runs' = [r \in DOMAIN runs |->
                  IF runs[r].state = "open" /\ \E t \in Dead : task[t].run = r
                  THEN [runs[r] EXCEPT !.state = "crashed"] ELSE runs[r]]
    /\ disp' = [disp EXCEPT ![d] = [@ EXCEPT !.at = "crashed",
                  !.due = {[task |-> t, limit |-> limits[t]] : t \in Dead}]]
    /\ UNCHANGED <<links, worker, epoch, op, ops>>

RecordDue(d) == \E f \in disp[d].due :
    /\ RecordFailure(f.task, f.limit)
    /\ disp' = [disp EXCEPT ![d].due = @ \ {f}]
    /\ UNCHANGED <<worker, epoch, op, ops>>

\* enforce_max_runtime: of the tasks with a limit, those are taken whose time is
\* up (any may be); the process that was read is killed, and whatever runs under
\* the task by then is reset.
EnforceRuntime(d) ==
    /\ At(d, "crashed") /\ disp[d].due = {}
    /\ \E S \in SUBSET {t \in Running \intersect Limited : task[t].pid # NoRun} :
          Goto(d, "runtime", Snapshot(S))
    /\ UNCHANGED <<board, worker, epoch, op, ops>>

KillOverrun(d) == \E row \in disp[d].rows :
    /\ At(d, "runtime") /\ disp[d].due = {}
    /\ worker' = [worker EXCEPT ![row.pid] = IF Alive(row.pid) THEN "gone" ELSE @]
    /\ LET hit == task[row.task].status = "running"
       IN  /\ IF hit THEN Close(row.task, "ready", "timed_out")
              ELSE UNCHANGED board
           /\ disp' = [disp EXCEPT ![d] =
                  [@ EXCEPT !.rows = disp[d].rows \ {row},
                            !.due = IF hit THEN {[task |-> row.task,
                                                  limit |-> DefaultFailureLimit]}
                                    ELSE {}]]
    /\ UNCHANGED <<epoch, op, ops>>

Promote(d) ==
    /\ At(d, "runtime") /\ disp[d].rows = {} /\ disp[d].due = {}
    /\ RecomputeReady
    /\ Goto(d, "select", {})
    /\ UNCHANGED <<worker, epoch, op, ops>>

\* Mutants of Select: a budget for each tick; a difference that is not cut off.
SelectBudget(d) ==
    /\ At(d, "select")
    /\ disp' = [disp EXCEPT ![d] = [@ EXCEPT !.at = "spawn", !.slots = MaxSpawn,
                  !.rows = Snapshot({t \in Spawnable :
                      task[t].status = "ready" /\ task[t].lock = NoLock})]]
    /\ UNCHANGED <<board, worker, epoch, op, ops>>
SelectUncut(d) ==
    /\ At(d, "select")
    /\ disp' = [disp EXCEPT ![d] = [@ EXCEPT !.at = "spawn",
                  !.slots = MaxSpawn - Cardinality(Running),
                  !.rows = Snapshot({t \in Spawnable :
                      task[t].status = "ready" /\ task[t].lock = NoLock})]]
    /\ UNCHANGED <<board, worker, epoch, op, ops>>

\* How many run, and what is ready; both are old by the time they are used.
Select(d) ==
    /\ At(d, "select")
    /\ LET n == Cardinality(Running)
       IN  disp' = [disp EXCEPT ![d] =
              [@ EXCEPT !.at = "spawn",
                        !.slots = IF n < MaxSpawn THEN MaxSpawn - n ELSE 0,
                        !.rows = Snapshot({t \in Spawnable :
                            task[t].status = "ready" /\ task[t].lock = NoLock})]]
    /\ UNCHANGED <<board, worker, epoch, op, ops>>

ClaimNext(d) == \E row \in disp[d].rows :
    /\ At(d, "spawn") /\ disp[d].slots > 0
    /\ \/ /\ Claim(row.task, <<d, epoch[d]>>)
          /\ disp' = [disp EXCEPT ![d] = [@ EXCEPT !.at = "launch",
                        !.rows = disp[d].rows \ {row}, !.run = Len(runs) + 1]]
       \/ /\ IF ParentsSettled(row.task) THEN UNCHANGED board ELSE Demote(row.task)
          /\ ~ Claimable(row.task)
          /\ Goto(d, "spawn", disp[d].rows \ {row})
    /\ UNCHANGED <<worker, epoch, op, ops>>

\* The workspace or the subprocess cannot be made; or the worker is there, and
\* its pid cannot be written: its claim is released, and it lives on.
SpawnFails(d) ==
    /\ At(d, "launch") \/ At(d, "record")
    /\ RecordSpawnFailure(runs[disp[d].run].task)
    /\ disp' = [disp EXCEPT ![d] = [@ EXCEPT !.at = "spawn", !.run = NoRun]]
    /\ UNCHANGED <<worker, epoch, op, ops>>

SpawnWorker(d) ==
    /\ At(d, "launch")
    /\ worker' = [worker EXCEPT ![disp[d].run] = "alive"]
    /\ disp' = [disp EXCEPT ![d].at = "record"]
    /\ UNCHANGED <<board, epoch, op, ops>>

\* _set_worker_pid
RecordPid(d) ==
    /\ At(d, "record")
    /\ task' = [task EXCEPT ![runs[disp[d].run].task].pid = disp[d].run]
    /\ disp' = [disp EXCEPT ![d] = [@ EXCEPT !.at = "spawn", !.run = NoRun,
                                            !.slots = disp[d].slots - 1]]
    /\ UNCHANGED <<links, runs, worker, epoch, op, ops>>

EndTick(d) ==
    /\ At(d, "spawn")
    /\ disp[d].rows = {} \/ disp[d].slots = 0 \/ Len(runs) = MaxRuns
    /\ disp' = [disp EXCEPT ![d] = Resting]
    /\ UNCHANGED <<board, worker, epoch, op, ops>>

\* The gateway ends in the middle of a tick, with a failure to record or a run
\* to start a worker for (elsewhere all it knows is what it has read).  Its
\* workers, which have their own sessions, live on; the next gateway has another
\* pid and so another lock.
CrashDispatcher(d) ==
    /\ disp[d].due # {} \/ disp[d].run # NoRun
    /\ epoch[d] < MaxCrashes
    /\ epoch' = [epoch EXCEPT ![d] = @ + 1]
    /\ disp' = [disp EXCEPT ![d] = Resting]
    /\ UNCHANGED <<board, worker, op, ops>>

-----------------------------------------------------------------------------
(* Workers.  A worker knows the task, the run and the lock it was spawned  *)
(* with, and names the run in whatever it does to the task.                *)

Self(r) == UNCHANGED <<disp, epoch, op, ops>>

\* heartbeat_claim, which names the lock only
Heartbeat(r) ==
    LET t == runs[r].task
    IN  /\ worker[r] = "alive"
        /\ task[t].status = "running" /\ task[t].lock = runs[r].lock
        /\ task' = [task EXCEPT ![t].expired = FALSE]
        /\ UNCHANGED <<links, runs, worker>> /\ Self(r)

\* Mutant of WorkerCompletes: the run is not compared.
CompletesUnfenced(r) ==
    LET t == runs[r].task
    IN  /\ worker[r] = "alive"
        /\ task[t].status \in {"running", "ready", "blocked"}
        /\ task' = [task EXCEPT ![t] = [Unclaimed(@, "done") EXCEPT !.fails = 0]]
        /\ runs' = Ended(t, "completed")
        /\ worker' = [worker EXCEPT ![r] = "finishing"]
        /\ UNCHANGED links /\ Self(r)

\* kanban_complete: complete_task with the clearing of the failure counter, which
\* nothing reads once the task is done, and recompute_ready as a later step.
WorkerCompletes(r) ==
    LET t == runs[r].task
    IN  /\ worker[r] = "alive"
        /\ task[t].status \in {"running", "ready", "blocked"}
        /\ task[t].run = r
        /\ task' = [task EXCEPT ![t] = [Unclaimed(@, "done") EXCEPT !.fails = 0]]
        /\ runs' = Ended(t, "completed")
        /\ worker' = [worker EXCEPT ![r] = "finishing"]
        /\ UNCHANGED links /\ Self(r)

WorkerPromotes(r) ==
    /\ worker[r] = "finishing"
    /\ RecomputeReady
    /\ worker' = [worker EXCEPT ![r] = "alive"]
    /\ Self(r)

\* kanban_block
WorkerBlocks(r) ==
    LET t == runs[r].task
    IN  /\ worker[r] = "alive"
        /\ task[t].status \in {"running", "ready"}
        /\ task[t].run = r
        /\ Close(t, "blocked", "blocked")
        /\ UNCHANGED worker /\ Self(r)

WorkerEnds(r) ==
    /\ Alive(r)
    /\ worker' = [worker EXCEPT ![r] = "gone"]
    /\ UNCHANGED board /\ Self(r)

-----------------------------------------------------------------------------
(* Time.  A claim made or renewed after release_stale_claims has read the  *)
(* rows does not expire before it is through with them.                    *)

Expire(t) ==
    /\ task[t].status = "running" /\ ~ task[t].expired
    /\ \A d \in Dispatchers :
          At(d, "stale") => \A row \in disp[d].rows : row.task # t
    /\ task' = [task EXCEPT ![t].expired = TRUE]
    /\ UNCHANGED <<links, runs, worker, disp, epoch, op, ops>>

-----------------------------------------------------------------------------
(* Operators: the command line, orchestrator agents and terminals that     *)
(* work on tasks themselves.                                               *)

Exists(t) == task[t].status # "absent"
Operates  == ops < MaxOps /\ ops' = ops + 1
Others    == UNCHANGED <<worker, disp, epoch>>

\* create_task: an archived parent is not done here (recompute_ready differs).
Create(t, P, triage) ==
    /\ ~ Exists(t) /\ \A p \in P : Exists(p)
    /\ task' = [task EXCEPT ![t].status =
                  IF triage THEN "triage"
                  ELSE IF \A p \in P : task[p].status = "done" THEN "ready"
                  ELSE "todo"]
    /\ links' = links \union (P \X {t})
    /\ UNCHANGED <<runs, op, ops>> /\ Others

\* _would_cycle: t is reached from c along the links.
Reaches(c, t) ==
    \A S \in SUBSET Tasks :
        c \in S /\ (\A l \in links : l[1] \in S => l[2] \in S) => t \in S

\* Mutant of Link: a cycle may close.
LinkAny(p, c) ==
    /\ Exists(p) /\ Exists(c) /\ p # c /\ <<p, c>> \notin links
    /\ links' = links \union {<<p, c>>}
    /\ task' = [task EXCEPT ![c].status =
                  IF @ = "ready" /\ task[p].status # "done" THEN "todo" ELSE @]
    /\ Operates /\ UNCHANGED <<runs, op>> /\ Others

\* link_tasks: a child that runs goes on running.
Link(p, c) ==
    /\ Exists(p) /\ Exists(c) /\ p # c /\ <<p, c>> \notin links
    /\ ~ Reaches(c, p)
    /\ links' = links \union {<<p, c>>}
    /\ task' = [task EXCEPT ![c].status =
                  IF @ = "ready" /\ task[p].status # "done" THEN "todo" ELSE @]
    /\ Operates /\ UNCHANGED <<runs, op>> /\ Others

\* unlink_tasks, specify_triage_task and complete_task go on to recompute_ready.
Unlink(p, c) ==
    /\ <<p, c>> \in links /\ op = NoOp
    /\ links' = links \ {<<p, c>>}
    /\ op' = [op EXCEPT !.at = "promote"]
    /\ Operates /\ UNCHANGED <<task, runs>> /\ Others

Specify(t) ==
    /\ task[t].status = "triage" /\ op = NoOp
    /\ task' = [task EXCEPT ![t].status = "todo"]
    /\ op' = [op EXCEPT !.at = "promote"]
    /\ Operates /\ UNCHANGED <<links, runs>> /\ Others

Complete(t) ==
    /\ task[t].status \in {"running", "ready", "blocked"} /\ op = NoOp
    /\ task' = [task EXCEPT ![t] = [Unclaimed(@, "done") EXCEPT !.fails = 0]]
    /\ runs' = Ended(t, "completed")
    /\ op' = [op EXCEPT !.at = "promote"]
    /\ Operates /\ UNCHANGED links /\ Others

OpPromotes ==
    /\ op.at = "promote"
    /\ RecomputeReady
    /\ op' = NoOp
    /\ UNCHANGED ops /\ Others

TerminalClaims(t) ==
    /\ Claim(t, <<"terminal", Len(runs) + 1>>) \/ Demote(t)
    /\ Operates /\ UNCHANGED op /\ Others

Block(t) ==
    /\ task[t].status \in {"running", "ready"}
    /\ Close(t, "blocked", "blocked")
    /\ Operates /\ UNCHANGED op /\ Others

\* unblock_task: the run is ended, the claim is not looked at.
Unblock(t) ==
    /\ task[t].status = "blocked"
    /\ task' = [task EXCEPT ![t] = [@ EXCEPT !.run = NoRun,
          !.status = IF \A p \in Parents(t) : task[p].status = "done"
                     THEN "ready" ELSE "todo"]]
    /\ runs' = Ended(t, "reclaimed")
    /\ Operates /\ UNCHANGED <<links, op>> /\ Others

\* Mutant of Archive: the attempt is forgotten, not ended.
ArchiveOrphans(t) ==
    /\ task[t].status \notin {"absent", "archived"}
    /\ task' = [task EXCEPT ![t] = Unclaimed(@, "archived")]
    /\ Operates /\ UNCHANGED <<links, runs, op>> /\ Others

\* archive_task: a worker is not told.
Archive(t) ==
    /\ task[t].status \notin {"absent", "archived"}
    /\ Close(t, "archived", "reclaimed")
    /\ Operates /\ UNCHANGED op /\ Others

\* assign_task, to another assignee
Assign(t) ==
    /\ Exists(t) /\ ~ (task[t].status = "running" /\ task[t].lock # NoLock)
    /\ task' = [task EXCEPT ![t].fails = 0]
    /\ Operates /\ UNCHANGED <<links, runs, op>> /\ Others

\* reclaim_task: the row is read, the worker killed (which takes seconds), the
\* claim released if it is by the same process, and the counter cleared.
Reclaim(t) ==
    /\ Exists(t) /\ op = NoOp
    /\ task[t].status = "running" \/ task[t].lock # NoLock
    /\ op' = [at |-> "reclaim", rows |-> Snapshot({t})]
    /\ Operates /\ UNCHANGED board /\ Others

ReclaimRow == \E row \in op.rows :
    LET kills == row.pid # NoRun /\ Alive(row.pid)
        same  == /\ task[row.task].status \in {"running", "ready", "blocked"}
                 /\ task[row.task].lock = row.lock
    IN  /\ op.at = "reclaim"
        /\ worker' = IF kills THEN [worker EXCEPT ![row.pid] = "gone"] ELSE worker
        /\ IF same THEN Close(row.task, "ready", "reclaimed") ELSE UNCHANGED board
        /\ op' = IF same THEN [op EXCEPT !.at = "clear"] ELSE NoOp
        /\ UNCHANGED <<disp, epoch, ops>>

ClearFailures == \E row \in op.rows :
    /\ op.at = "clear"
    /\ task' = [task EXCEPT ![row.task].fails = 0]
    /\ op' = NoOp
    /\ UNCHANGED <<links, runs, ops>> /\ Others

-----------------------------------------------------------------------------

Tick(d) ==
    \/ StartTick(d) \/ ReleaseStale(d) \/ DetectCrashed(d) \/ RecordDue(d)
    \/ EnforceRuntime(d) \/ KillOverrun(d) \/ Promote(d) \/ Select(d)
    \/ ClaimNext(d) \/ SpawnFails(d) \/ SpawnWorker(d) \/ RecordPid(d)
    \/ EndTick(d)
Work(r) ==
    \/ Heartbeat(r) \/ WorkerCompletes(r) \/ WorkerPromotes(r)
    \/ WorkerBlocks(r) \/ WorkerEnds(r)
Operate(t) ==
    \/ Specify(t) \/ Complete(t) \/ TerminalClaims(t) \/ Block(t) \/ Unblock(t)
    \/ Archive(t) \/ Assign(t) \/ Reclaim(t)

Next ==
    \/ \E d \in Dispatchers : Tick(d) \/ CrashDispatcher(d)
    \/ \E r \in 1..Len(runs) : Work(r)
    \/ \E t \in Tasks : Operate(t) \/ Expire(t)
    \/ \E t \in Tasks, P \in SUBSET Tasks, triage \in BOOLEAN : Create(t, P, triage)
    \/ \E p, c \in Tasks : Link(p, c) \/ Unlink(p, c)
    \/ OpPromotes \/ ReclaimRow \/ ClearFailures

Spec == Init /\ [][Next]_vars

\* The dispatcher's loop ticks for ever, time passes, and a worker, whose turns
\* are limited, comes to an end (a worker that heartbeats for ever may renew a
\* claim that is no longer its own for ever).
FairSpec ==
    /\ Spec
    /\ \A d \in Dispatchers : []<><<Tick(d)>>_vars
    /\ \A t \in Tasks : WF_vars(Expire(t))
    /\ \A r \in RunIds : WF_vars(r <= Len(runs) /\ WorkerEnds(r))

-----------------------------------------------------------------------------

\* What the rows and the processes hold; a dispatcher's budget of spawns is
\* never negative (dispatch_once compares running_count with max_spawn).
Run == [task : Tasks, lock : Locks, state : Outcomes]
ReadRow == [task : Tasks, lock : Locks, pid : RunIds \union {NoRun}]
Ticking == [at : {"idle", "stale", "crashed", "runtime", "select", "spawn", "launch",
                  "record"},
            rows : SUBSET ReadRow, due : SUBSET [task : Tasks, limit : Nat],
            run : RunIds \union {NoRun}, slots : 0..MaxSpawn]
Operation == [at : {"idle", "promote", "reclaim", "clear"}, rows : SUBSET ReadRow]
TypeOK ==
    /\ task \in [Tasks -> Row] /\ links \subseteq Tasks \X Tasks
    /\ runs \in Seq(Run) /\ Len(runs) <= MaxRuns
    /\ worker \in [RunIds -> {"none", "alive", "finishing", "gone"}]
    /\ disp \in [Dispatchers -> Ticking]
    /\ epoch \in [Dispatchers -> 0..MaxCrashes]
    /\ op \in Operation
    /\ ops \in 0..MaxOps

OpenRuns(t) == {r \in DOMAIN runs : runs[r].task = t /\ runs[r].state = "open"}

\* The run a row names is the one open run of its task, and a task that runs
\* has one, claimed by whoever started it: whatever ends, releases or reopens a
\* task keeps current_run_id and task_runs together (the runs invariant of
\* unblock_task), also between the two transactions of a recorded failure.
RunsInvariant == \A t \in Tasks :
    /\ OpenRuns(t) = IF task[t].run = NoRun THEN {} ELSE {task[t].run}
    /\ task[t].status = "running" =>
          task[t].run # NoRun /\ task[t].lock = runs[task[t].run].lock

\* A claim is set on a task only while it runs: when the breaker of
\* _record_task_failure blocks a task, "task is already at ready with claim
\* cleared; just flip to blocked".
NoStrandedClaim == \A t \in Tasks :
    task[t].lock # NoLock => task[t].status = "running"

\* No task waits, through its parents, for itself, whatever is created, linked
\* and unlinked in whatever order (_would_cycle).
NoMutualWait == \A p, c \in Tasks : <<p, c>> \in links => ~ Reaches(c, p)

\* One dispatcher never has more tasks running than max_spawn, although it
\* counts once a tick and terminals claim in between (dispatch_once).
SpawnCap ==
    Cardinality({t \in Running : task[t].lock[1] \in Dispatchers}) <= MaxSpawn

\* The board does not go on showing a run whose worker is not there: not when
\* the dispatcher died before it recorded the pid, nor when the pid was recorded
\* over a terminal's claim (release_stale_claims, detect_crashed_workers).
Abandoned(t) == task[t].status = "running" /\ ~ Alive(task[t].run)
AbandonedIsNoticed == \A t \in Tasks : Abandoned(t) ~> ~ Abandoned(t)

\* A task does not stay in todo when its parents are done or archived, even if
\* the process that settled the last of them dies before its recompute_ready.
Waits(t) == task[t].status = "todo" /\ ParentsSettled(t)
SettledParentsPromote == \A t \in Tasks : Waits(t) ~> ~ Waits(t)

\* The board keeps the promises of TaskBoard: the attempts are the runs, and a
\* task is held as long as its row names a run, whatever its status says.  (The
\* breaker may block a task a terminal has just claimed; the terminal goes on
\* holding it.)
Stage(t) == IF task[t].run # NoRun THEN "held" ELSE task[t].status
Outcome(r) == IF r \in DOMAIN runs THEN runs[r].state ELSE "unused"
Contract == INSTANCE TaskBoard WITH
    Attempts <- RunIds, Nobody <- NoRun,
    stage    <- [t \in Tasks |-> Stage(t)],
    holder   <- [t \in Tasks |-> task[t].run],
    outcome  <- [r \in RunIds |-> Outcome(r)],
    needs    <- links
BoardContract == Contract!BoardSpec

\* A worker that completes its task completes its own attempt, which is still
\* open: not the attempt another worker makes since its claim was released, and
\* not with the same claim lock (GROVE_KANBAN_RUN_ID, expected_run_id).
OwnAttempt == [][\A r \in RunIds :
    worker[r] = "alive" /\ worker'[r] = "finishing" =>
        Outcome(r) = "open" /\ Outcome(r)' = "completed"]_vars
=============================================================================
