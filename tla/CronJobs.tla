------------------------------ MODULE CronJobs ------------------------------
(***************************************************************************)
(* Scheduled jobs (cron/jobs.py, cron/scheduler.py): one jobs.json, which  *)
(* every operation reads as a whole and writes back as a whole; ticks of   *)
(* the gateway and of `hermes cron tick`, one at a time by a file lock;    *)
(* and the edits of users and agents, which take no lock.                  *)
(*                                                                         *)
(* Time is relative to the clock: a next_run_at is ahead of it, due, or    *)
(* past the grace period of its schedule.                                  *)
(***************************************************************************)
EXTENDS Naturals, FiniteSets

CONSTANTS
    Jobs,        \* job ids
    Recurring,   \* those with an "interval" or "cron" schedule; the others run once
    Workdir,     \* those with a workdir
    Times,       \* by job: repeat.times, 0 for ever
    Procs,       \* processes that call tick
    Editors,     \* callers of the edit functions
    Nobody,      \* no lock holder, no job
    MaxEdits,    \* bound: edits
    MaxCrashes,  \* bound: crashes
    Stuck        \* bound: the jobs whose agents may be idle for too long

ASSUME CronAssumption ==
    /\ Recurring \subseteq Jobs /\ Workdir \subseteq Jobs
    /\ Times \in [Jobs -> Nat] /\ \A j \in Jobs \ Recurring : Times[j] > 0
    /\ Nobody \notin Jobs \union Procs /\ Procs \intersect Editors = {}
    /\ MaxEdits \in Nat /\ MaxCrashes \in Nat /\ Stuck \subseteq Jobs

VARIABLES
    file,      \* jobs.json
    runAt,     \* by one-shot: run_at, as the clock sees it
    lock,      \* who holds the tick lock
    proc,      \* by process: its tick
    stray,     \* jobs with an agent that goes on after its run was given up
    edit,      \* by editor: the edit between its load and its save
    edits, crashes,
    owed,      \* history: occurrences of a job that came up and have not started
    twice,     \* history: recurring jobs that started an occurrence again
    served,    \* history: one-shots with a run that was marked
    edited,    \* history: jobs paused, resumed, rescheduled or removed
    dirty,     \* history: whose loaded file is no longer jobs.json
    lost       \* history: some save overwrote a save it had not read

vars == <<file, runAt, lock, proc, stray, edit, edits, crashes,
          owed, twice, served, edited, dirty, lost>>

Whens == {"none", "ahead", "due", "stale"}
Job == [here : BOOLEAN, enabled : BOOLEAN, next : Whens, ran : BOOLEAN, done : Nat]
NoJob == [here |-> FALSE, enabled |-> FALSE, next |-> "none", ran |-> FALSE, done |-> 0]
NoPage == [j \in Jobs |-> NoJob]
Idle == [at |-> "idle", page |-> NoPage, job |-> Nobody,
         advance |-> {}, due |-> {}, running |-> {}]
NoEdit == [op |-> "none", job |-> Nobody, page |-> NoPage]
Ops == {"create", "update", "reschedule", "pause", "resume", "trigger", "remove", "bypass"}

\* _recoverable_oneshot_run_at, without a last_run_at
Recoverable(j) == IF runAt[j] = "stale" THEN "none" ELSE runAt[j]
\* compute_next_run from the current time, without a last_run_at
NextRun(j) == IF j \in Recurring THEN "ahead" ELSE Recoverable(j)
New(j) == [NoJob EXCEPT !.here = TRUE, !.enabled = TRUE, !.next = NextRun(j)]

Init ==
    /\ runAt \in [Jobs \ Recurring -> {"ahead", "due"}]
    /\ file \in [Jobs -> {NoJob} \union {New(j) : j \in Jobs}]
    /\ \A j \in Jobs : file[j] \in {NoJob, New(j)}
    /\ lock = Nobody
    /\ proc = [p \in Procs |-> Idle] /\ stray = {}
    /\ edit = [e \in Editors |-> NoEdit]
    /\ edits = 0 /\ crashes = 0
    /\ owed = [j \in Jobs |-> 0] /\ twice = {} /\ served = {} /\ edited = {}
    /\ dirty = {} /\ lost = FALSE

-----------------------------------------------------------------------------
Loaded == {p \in Procs : proc[p].at \in {"sift", "advancing", "marking"}}
              \union {e \in Editors : edit[e].op # "none"}
\* load_jobs and save_jobs, by someone; no save
Loads(x) == dirty' = dirty \ {x} /\ UNCHANGED <<file, lost>>
Save(x, jobs) == file' = jobs /\ dirty' = Loaded \ {x} /\ lost' = (lost \/ x \in dirty)
NoSave == UNCHANGED <<file, dirty, lost>>

RecoveredOneShot(j, job) == \* mutant: a recurring job is not recovered
    IF job.enabled /\ job.next = "none" /\ j \notin Recurring /\ ~ job.ran
    THEN [job EXCEPT !.next = NextRun(j)] ELSE job
\* The recovery of a missing next_run_at in _get_due_jobs_locked
Recovered(j, job) ==
    IF job.enabled /\ job.next = "none" /\ (j \in Recurring \/ ~ job.ran)
    THEN [job EXCEPT !.next = NextRun(j)] ELSE job

Owing(j, n) == [owed EXCEPT ![j] = IF n > 2 THEN 2 ELSE n]

\* Time passes for one schedule, in every copy of it.
Older(when) == IF when = "ahead" THEN "due" ELSE "stale"
Aged(jobs, j, when) ==
    IF jobs[j].next = when THEN [jobs EXCEPT ![j].next = Older(when)] ELSE jobs
Age(j, when) ==
    /\ IF j \in Recurring THEN file[j].next = when /\ UNCHANGED runAt
                          ELSE runAt[j] = when /\ runAt' = [runAt EXCEPT ![j] = Older(when)]
    /\ LET to(jobs) == IF j \in Recurring \/ when = "ahead" THEN Aged(jobs, j, when) ELSE jobs
       IN  /\ file' = to(file)
           /\ proc' = [p \in Procs |-> [proc[p] EXCEPT !.page = to(@)]]
           /\ edit' = [e \in Editors |-> [edit[e] EXCEPT !.page = to(@)]]
    /\ owed' = IF j \in Recurring /\ when = "ahead" THEN Owing(j, owed[j] + 1) ELSE owed
    /\ UNCHANGED <<lock, stray, edits, crashes, twice, served, edited, dirty, lost>>

-----------------------------------------------------------------------------
(* tick                                                                    *)

Local(p, rec) == proc' = [proc EXCEPT ![p] = rec]
At(p, point)  == proc[p].at = point
History == <<twice, served, edited>>
Outside == <<runAt, edit, edits, crashes>>

\* The file lock is taken, or the tick is skipped; get_due_jobs loads.
Begin(p) ==
    /\ At(p, "idle") /\ lock = Nobody
    /\ lock' = p /\ Local(p, [Idle EXCEPT !.at = "sift", !.page = file]) /\ Loads(p)
    /\ UNCHANGED <<owed, stray, Outside, History>>

\* The rest of get_due_jobs: missing times are recovered, stale recurring jobs
\* skip to their next time, what is due is returned.
Sifted(j, job) ==
    LET found == Recovered(j, job)
    IN  IF j \in Recurring /\ found.enabled /\ found.next = "stale"
        THEN [found EXCEPT !.next = "ahead"] ELSE found
Due(j, job) == job.here /\ job.enabled /\ job.next \in {"due", "stale"}
Sift(p) ==
    /\ At(p, "sift")
    /\ LET page == proc[p].page
           jobs == [j \in Jobs |-> Sifted(j, page[j])]
           due  == {j \in Jobs : Due(j, jobs[j])}
       IN  /\ Local(p, [Idle EXCEPT !.at = "advance", !.advance = due, !.due = due])
           /\ IF jobs # page THEN Save(p, jobs) ELSE NoSave
           /\ owed' = [j \in Jobs |-> IF page[j].next = "stale" /\ jobs[j].next = "ahead"
                                      THEN 0 ELSE owed[j]]
    /\ UNCHANGED <<lock, stray, Outside, History>>

\* advance_next_run, of each due job before any of them runs
AdvanceLoad(p) == \E j \in proc[p].advance :
    /\ At(p, "advance")
    /\ Local(p, [proc[p] EXCEPT !.at = "advancing", !.job = j, !.page = file])
    /\ Loads(p) /\ UNCHANGED <<lock, owed, stray, Outside, History>>
NotAdvanced(j, job) == job \* mutant: no run is given up in advance
AdvancedAll(j, job) ==     \* mutant: one-shots too
    IF job.here THEN [job EXCEPT !.next = IF j \in Recurring THEN "ahead" ELSE "none"] ELSE job
Advanced(j, job) ==
    IF job.here /\ j \in Recurring THEN [job EXCEPT !.next = "ahead"] ELSE job
AdvanceSave(p) ==
    /\ At(p, "advancing")
    /\ LET j    == proc[p].job
           page == proc[p].page
           jobs == [page EXCEPT ![j] = Advanced(j, @)]
       IN  /\ Local(p, [proc[p] EXCEPT !.at = "advance", !.job = Nobody,
                           !.page = NoPage, !.advance = @ \ {j}])
           /\ IF jobs # page THEN Save(p, jobs) ELSE NoSave
           /\ owed' = IF jobs # page /\ owed[j] > 0 THEN Owing(j, 1) ELSE owed
    /\ UNCHANGED <<lock, stray, Outside, History>>

LaunchableAll(p, j) == j \in Jobs \* mutant: all due jobs go to the pool
\* Jobs with a workdir run one after the other, the rest then in parallel.
Launchable(p, j) ==
    IF j \in Workdir THEN proc[p].running = {}
                     ELSE (proc[p].due \union proc[p].running) \intersect Workdir = {}
Start(p, j) ==
    /\ At(p, "advance") /\ proc[p].advance = {} /\ j \in proc[p].due
    /\ Launchable(p, j)
    /\ Local(p, [proc[p] EXCEPT !.due = @ \ {j}, !.running = @ \union {j}])
    /\ owed' = IF owed[j] > 0 THEN Owing(j, owed[j] - 1) ELSE owed
    /\ twice' = IF j \in Recurring /\ owed[j] = 0 THEN twice \union {j} ELSE twice
    /\ NoSave /\ UNCHANGED <<lock, stray, served, edited, Outside>>

\* run_job returns: its agent is done, or was idle for too long; then nothing
\* waits for it any longer, it is told to stop, and the run has failed.
Returns(j) ==
    \/ UNCHANGED stray
    \/ j \in Stuck /\ stray' = stray \union {j}
StrayEnds(j) ==
    /\ j \in stray /\ stray' = stray \ {j}
    /\ NoSave /\ UNCHANGED <<lock, proc, owed, Outside, History>>

\* A run ends, well or not: mark_job_run.
MarkLoad(p, j) ==
    /\ At(p, "advance") /\ j \in proc[p].running
    /\ Returns(j)
    /\ Local(p, [proc[p] EXCEPT !.at = "marking", !.job = j, !.page = file])
    /\ Loads(p) /\ UNCHANGED <<lock, owed, Outside, History>>
\* The count goes up, and the job away at its limit; a one-shot with runs
\* left has no next run, and is completed.
Marked(j, job) ==
    IF ~ job.here THEN job
    ELSE IF Times[j] > 0 /\ job.done + 1 >= Times[j] THEN NoJob
    ELSE [job EXCEPT !.ran = TRUE, !.done = IF Times[j] > 0 THEN @ + 1 ELSE @,
                     !.next = IF j \in Recurring THEN "ahead" ELSE "none",
                     !.enabled = @ /\ j \in Recurring]
MarkSave(p) ==
    /\ At(p, "marking")
    /\ LET j    == proc[p].job
           page == proc[p].page
       IN  /\ Local(p, [proc[p] EXCEPT !.at = "advance", !.job = Nobody,
                           !.page = NoPage, !.running = @ \ {j}])
           /\ IF page[j].here
              THEN Save(p, [page EXCEPT ![j] = Marked(j, @)])
              ELSE NoSave
           /\ served' = served \union ({j} \ Recurring)
           /\ owed' = Owing(j, 0)
    /\ UNCHANGED <<lock, stray, twice, edited, Outside>>

End(p) ==
    /\ At(p, "advance") /\ proc[p].due \union proc[p].running = {}
    /\ Local(p, Idle) /\ lock' = Nobody
    /\ NoSave /\ UNCHANGED <<owed, stray, Outside, History>>

CrashLocked(p) == \* mutant: the lock file is the lock
    /\ ~ At(p, "idle") /\ crashes < MaxCrashes
    /\ Local(p, Idle) /\ crashes' = crashes + 1 /\ stray' \in SUBSET stray
    /\ NoSave /\ UNCHANGED <<lock, runAt, edit, edits, owed, History>>
\* A process dies and starts again: its lock is released with its descriptor,
\* its runs end without a mark, and those strays that were threads of it.
Crash(p) ==
    /\ ~ At(p, "idle") /\ crashes < MaxCrashes
    /\ Local(p, Idle) /\ lock' = Nobody /\ crashes' = crashes + 1
    /\ stray' \in SUBSET stray
    /\ NoSave /\ UNCHANGED <<runAt, edit, edits, owed, History>>

-----------------------------------------------------------------------------
(* create_job, update_job, pause_job, resume_job, trigger_job, remove_job, *)
(* and a hand that edits the file: the whole file is loaded, then saved.   *)

Load(e, op, j) ==
    /\ edit[e].op = "none" /\ edits < MaxEdits
    /\ file[j].here <=> op # "create"
    /\ op = "create" => j \notin served \union edited /\ \A d \in Editors : edit[d].job # j
    /\ op \in {"reschedule", "bypass"} => j \in Recurring
    /\ edits' = edits + 1
    /\ edit' = [edit EXCEPT ![e] = [op |-> op, job |-> j, page |-> file]]
    /\ Loads(e) /\ UNCHANGED <<runAt, lock, proc, stray, crashes, owed, History>>

Changed(op, j, job) ==
    CASE op = "create"     -> New(j)
      [] op = "update"     -> IF job.enabled /\ job.next = "none"
                              THEN [job EXCEPT !.next = NextRun(j)] ELSE job
      [] op = "reschedule" -> IF job.enabled THEN [job EXCEPT !.next = "ahead"] ELSE job
      [] op = "pause"      -> [job EXCEPT !.enabled = FALSE]
      [] op = "resume"     -> [job EXCEPT !.enabled = TRUE, !.next = NextRun(j)]
      [] op = "trigger"    -> [job EXCEPT !.enabled = TRUE, !.next = "due"]
      [] op = "remove"     -> NoJob
      [] op = "bypass"     -> [job EXCEPT !.next = "none"]
EditSave(e) ==
    LET op == edit[e].op  j == edit[e].job  page == edit[e].page
    IN  /\ op # "none"
        /\ Save(e, [page EXCEPT ![j] = Changed(op, j, @)])
        /\ edit' = [edit EXCEPT ![e] = NoEdit]
        /\ owed' = IF op = "trigger" THEN Owing(j, owed[j] + 1) ELSE owed
        /\ edited' = IF op \in {"update", "create", "trigger"} THEN edited ELSE edited \union {j}
        /\ UNCHANGED <<runAt, lock, proc, stray, edits, crashes, twice, served>>
-----------------------------------------------------------------------------
Tick(p) ==
    \/ Begin(p) \/ Sift(p) \/ AdvanceLoad(p) \/ AdvanceSave(p)
    \/ \E j \in Jobs : Start(p, j) \/ MarkLoad(p, j)
    \/ MarkSave(p) \/ End(p)

Next ==
    \/ \E j \in Jobs, when \in {"ahead", "due"} : Age(j, when)
    \/ \E p \in Procs : Tick(p) \/ Crash(p)
    \/ \E j \in Jobs : StrayEnds(j)
    \/ \E e \in Editors, op \in Ops, j \in Jobs : Load(e, op, j)
    \/ \E e \in Editors : EditSave(e)

Spec == Init /\ [][Next]_vars

\* The gateway ticks every minute, and its jobs end (scheduler.py times them
\* out for their inactivity); an edit that was begun is written.  Time and
\* users are under no obligation.
FairSpec ==
    /\ Spec
    /\ WF_vars(\E p \in Procs : Tick(p))
    /\ \A e \in Editors : WF_vars(EditSave(e))

-----------------------------------------------------------------------------
(* The types, and that the lock is held by the process whose tick is on.   *)
TypeOK ==
    /\ file \in [Jobs -> Job] /\ runAt \in [Jobs \ Recurring -> {"ahead", "due", "stale"}]
    /\ lock \in Procs \union {Nobody} /\ stray \subseteq Jobs
    /\ \A p \in Procs : At(p, "idle") <=> lock # p
    /\ owed \in [Jobs -> 0..2] /\ dirty \subseteq Procs \union Editors
    /\ twice \union served \union edited \subseteq Jobs /\ lost \in BOOLEAN

\* No job has two runs, from their start to their mark, in one process or in
\* two; and a job with a workdir, which changes the environment of its process,
\* has no run beside it.  So where two agents of a job are at work at once, or
\* an agent beside that of a job with a workdir, one of them is a stray.
RunAlone ==
    /\ \A j \in Jobs : Cardinality({p \in Procs : j \in proc[p].running}) <= 1
    /\ \A p \in Procs : proc[p].running \intersect Workdir # {} =>
           Cardinality(proc[p].running) = 1

\* A recurring job starts at most once for each time it comes up, whenever a
\* process dies and whichever process ticks next ("at-most-once for recurring
\* jobs", advance_next_run); unless an edit, which takes no lock, and a tick
\* overwrote each other.
AtMostOnce == twice # {} => lost /\ edits > 0

\* A one-shot that comes up runs to its mark, in the same tick or, after a
\* crash, in a later one, unless it is edited or an edit is lost.
OneShotServed == \A j \in Jobs \ Recurring :
    file[j].here /\ file[j].enabled /\ file[j].next = "due"
        ~> j \in served \union edited \/ lost

\* A recurring job that is enabled always gets its next time: it runs or skips
\* what it missed, and recovers from a file without one (issue #16265).
NeverForgotten == \A j \in Recurring :
    file[j].here /\ file[j].enabled /\ file[j].next # "ahead"
        ~> file[j].next = "ahead" \/ ~ file[j].enabled \/ lost
=============================================================================
