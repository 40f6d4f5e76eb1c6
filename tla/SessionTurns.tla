---------------------------- MODULE SessionTurns ----------------------------
(***************************************************************************)
(* One chat session of the gateway: its messages, its turns, and the       *)
(* commands /stop and /new that cut a turn short (gateway/platforms/base.py *)
(* and gateway/run.py).  Two guards keep a session to one turn at a time:  *)
(* the adapter's (_active_sessions, _session_tasks, _pending_messages) and *)
(* the runner's (_running_agents with the run generation).                 *)
(*                                                                         *)
(* All of it runs on one event loop, so an action is the code between two  *)
(* awaits.  A turn is one _process_message_background task.                *)
(***************************************************************************)
EXTENDS Naturals, FiniteSets

CONSTANTS
    Messages,    \* text messages of one session, each sent at most once
    Commands,    \* /stop and /new commands, each sent at most once
    Nobody,      \* the absent guard, owner or agent
    Sentinel,    \* _AGENT_PENDING_SENTINEL
    MaxTurns     \* bound: _process_message_background tasks

ASSUME SessionAssumption ==
    /\ MaxTurns \in Nat \ {0} /\ Nobody # Sentinel
    /\ {Nobody, Sentinel} \intersect (Commands \union Nat) = {}
    /\ Commands \intersect Nat = {}   \* a command's guard is no task's

VARIABLES
    guard,     \* _active_sessions[key]: whose Event it is
    owner,     \* _session_tasks[key]
    pending,   \* _pending_messages[key]: the texts of the one queued event
    slot,      \* _running_agents[key]: the sentinel, or the turn of the agent
    gen,       \* _session_run_generation[key]
    turn,      \* by turn: its task
    cmd,       \* by command: its dispatch
    arrived,   \* messages so far
    replied,   \* messages that got an answer
    dropped,   \* messages given up on purpose
    ahead,     \* who may still run before the tasks that have not begun
    crossed,   \* history: messages that came, or were queued, during a command
    wedged     \* history: tasks that a command cut and stopped waiting for

vars == <<guard, owner, pending, slot, gen, turn, cmd, arrived, replied, dropped,
          ahead, crossed, wedged>>

Turns  == 1..MaxTurns
Points == {"unused", "spawned", "hook", "setup", "run", "again", "closing",
           "unwind", "answer", "abort", "sent", "typing", "cleanup", "over"}
Task == [at : Points,
         batch : SUBSET Messages,            \* the event it handles
         bound : Turns \union Commands \union {Nobody},  \* interrupt_event
         gen : Nat,                          \* run_generation
         cut : BOOLEAN,                      \* Task.cancel() is due
         broken : BOOLEAN,                   \* _interrupt_requested
         note : SUBSET Messages,             \* _interrupt_message
         hand : SUBSET Messages]             \* popped, not yet spawned
NoTask == [at |-> "unused", batch |-> {}, bound |-> Nobody, gen |-> 0,
           cut |-> FALSE, broken |-> FALSE, note |-> {}, hand |-> {}]
Dispatch == [at : {"unused", "stopping", "respond", "join", "done"},
             kind : {"stop", "new"},
             victim : Turns \union {Nobody}]
NoDispatch == [at |-> "unused", kind |-> "stop", victim |-> Nobody]

Init ==
    /\ guard = Nobody /\ owner = Nobody /\ slot = Nobody
    /\ pending = {} /\ gen = 0
    /\ turn = [t \in Turns |-> NoTask]
    /\ cmd = [c \in Commands |-> NoDispatch]
    /\ arrived = {} /\ replied = {} /\ dropped = {}
    /\ ahead = {} /\ crossed = {} /\ wedged = {}

-----------------------------------------------------------------------------
Over(t)    == turn[t].at = "over"
Unused     == {t \in Turns : turn[t].at = "unused"}
Newest     == CHOOSE t \in Unused : \A u \in Unused : t <= u
Current(t) == turn[t].gen = gen

(***************************************************************************)
(* The loop runs what is ready in order: a task that was just created      *)
(* begins after what was ready before it, at most one step of each other    *)
(* actor, and before any task created later.                                *)
(***************************************************************************)
Able == (Messages \ arrived)
            \union {c \in Commands : cmd[c].at # "done"}
            \union {t \in Turns : turn[t].at \notin {"unused", "over"}}
Fresh == {t \in Turns : turn[t].at = "spawned"}
MayRun(a) ==
    \/ Fresh = {} \/ a \in ahead
    \/ a \in Fresh /\ \A t \in Fresh : a <= t
\* The dispatch that waits for an ending task comes after what that task creates.
Waiting(a) == {c \in Commands : cmd[c].victim = a}
Queued == pending \union UNION {turn[t].hand : t \in Turns}
Dispatching == \E c \in Commands : cmd[c].at \notin {"unused", "done"}
\* The commands that end in this step with their task still unwinding
GivingUp == {c \in Commands : /\ cmd[c].at = "join" /\ cmd'[c].at = "done"
                              /\ ~ Over(cmd[c].victim)}
Ran(a) ==
    /\ ahead' = CASE Fresh' = {} -> {}
                  [] Fresh = {} /\ Fresh' # {} -> Able \ ({a} \union Waiting(a))
                  [] OTHER -> ahead \ {a}
    /\ crossed' = IF Dispatching THEN crossed \union Queued \union (arrived' \ arrived)
                                 ELSE crossed
    /\ wedged' = wedged \union {cmd[c].victim : c \in GivingUp}

At(t, point)   == MayRun(t) /\ turn[t].at = point /\ ~ turn[t].cut
Cut(t, points) == MayRun(t) /\ turn[t].cut /\ turn[t].at \in points

\* A table of tasks in which one more runs _process_message_background.
Spawn(tasks, batch) ==
    [tasks EXCEPT ![Newest].at = "spawned", ![Newest].batch = batch]
\* agent.interrupt(text), of the agent in the slot.
Interrupt(tasks, text) ==
    IF slot \in Turns
    THEN [tasks EXCEPT ![slot].broken = TRUE, ![slot].note = text]
    ELSE tasks

\* _session_task_is_stale, of a session that has a guard
Stale == guard # Nobody /\ owner # Nobody /\ Over(owner)

\* handle_message: a session without a guard, or with one whose task has
\* ended, starts a turn.
Start(m) ==
    /\ guard = Nobody \/ Stale
    /\ Unused # {}
    /\ turn' = Spawn(turn, {m})
    /\ guard' = Newest /\ owner' = Newest
    /\ pending' = IF Stale THEN {} ELSE pending
    /\ UNCHANGED <<slot, gen, dropped>>

\* _handle_active_session_busy_message, in its "interrupt" mode: the queued
\* event is replaced, and the running agent is interrupted.
Queue(m) ==
    /\ guard # Nobody /\ ~ Stale
    /\ pending' = {m}
    /\ dropped' = dropped \union pending
    /\ turn' = Interrupt(turn, {m})
    /\ UNCHANGED <<guard, owner, slot, gen>>

Arrive(m) ==
    /\ MayRun(m) /\ m \notin arrived
    /\ arrived' = arrived \union {m}
    /\ Start(m) \/ Queue(m)
    /\ UNCHANGED <<cmd, replied>>
    /\ Ran(m)

-----------------------------------------------------------------------------
(* A turn: _process_message_background around _handle_message.             *)

\* The first step of the task: the guard's Event, or a new one.
Begin(t) ==
    /\ At(t, "spawned")
    /\ LET event == IF guard = Nobody THEN t ELSE guard
       IN  /\ turn' = [turn EXCEPT ![t].at = "hook", ![t].bound = event]
           /\ guard' = event
    /\ UNCHANGED <<owner, pending, slot, gen, cmd, arrived, replied, dropped>>
    /\ Ran(t)

\* _handle_message claims the session before its first await.
Claim(t) ==
    /\ At(t, "hook") /\ slot = Nobody
    /\ slot' = Sentinel /\ gen' = gen + 1
    /\ turn' = [turn EXCEPT ![t].at = "setup", ![t].gen = gen + 1]
    /\ UNCHANGED <<guard, owner, pending, cmd, arrived, replied, dropped>>
    /\ Ran(t)

\* It finds another turn's sentinel or a fresh one's agent: its text is merged
\* into the queued event.
Merge(t) ==
    /\ At(t, "hook") /\ slot # Nobody
    /\ pending' = pending \union turn[t].batch
    /\ turn' = [turn EXCEPT ![t].at = "sent"]
    /\ UNCHANGED <<guard, owner, slot, gen, cmd, arrived, replied, dropped>>
    /\ Ran(t)
\* It finds an agent, and leaves it the text.
Push(t) ==
    /\ At(t, "hook") /\ slot \in Turns
    /\ turn' = [Interrupt(turn, turn[t].batch) EXCEPT ![t].at = "sent"]
    /\ UNCHANGED <<guard, owner, pending, slot, gen, cmd, arrived, replied, dropped>>
    /\ Ran(t)

\* _run_agent: the agent thread starts, and track_agent sees the agent.
Run(t) ==
    /\ At(t, "setup") \/ At(t, "again")
    /\ turn' = [turn EXCEPT ![t].at = "run"]
    /\ UNCHANGED <<guard, owner, pending, slot, gen, cmd, arrived, replied, dropped>>
    /\ Ran(t)
Track(t) ==
    /\ MayRun(t) /\ turn[t].at \in {"run", "again", "closing"} /\ Current(t) /\ slot # t
    /\ slot' = t
    /\ UNCHANGED <<guard, owner, pending, gen, turn, cmd, arrived, replied, dropped>>
    /\ Ran(t)

\* The agent returns; clear_interrupt.
Rested(t, point) ==
    [turn[t] EXCEPT !.at = point, !.broken = FALSE, !.note = {}]
\* There is a queued event, or else the text of an interrupt that the agent
\* has seen: one more run in this task.  An interrupted answer is discarded.
FollowUp(t) ==
    \E seen \in BOOLEAN :
        LET next == IF pending # {} THEN pending
                    ELSE IF seen THEN turn[t].note ELSE {}
        IN  /\ At(t, "run")
            /\ seen => turn[t].broken
            /\ next # {}
            /\ pending' = {}
            /\ turn' = [turn EXCEPT ![t] = [Rested(t, "again") EXCEPT !.batch = next]]
            /\ IF seen THEN dropped' = dropped \union turn[t].batch /\ UNCHANGED replied
                       ELSE replied' = replied \union turn[t].batch /\ UNCHANGED dropped
            /\ UNCHANGED <<guard, owner, slot, gen, cmd, arrived>>
            /\ Ran(t)
Finish(t) ==
    /\ At(t, "run") /\ pending = {}
    /\ turn' = [turn EXCEPT ![t] = Rested(t, "closing")]
    /\ UNCHANGED <<guard, owner, pending, slot, gen, cmd, arrived, replied, dropped>>
    /\ Ran(t)
\* It raises, or is timed out for its inactivity: no result to follow up on.
Fail(t) ==
    /\ At(t, "run")
    /\ turn' = [turn EXCEPT ![t] = Rested(t, "closing")]
    /\ UNCHANGED <<guard, owner, pending, slot, gen, cmd, arrived, replied, dropped>>
    /\ Ran(t)

\* The finally of _run_agent, after its first await.
\* _release_running_agent_state(run_generation=...)
Released(t) == IF Current(t) THEN Nobody ELSE slot
Close(t) ==
    /\ At(t, "closing")
    /\ slot' = Released(t)
    /\ turn' = [turn EXCEPT ![t].at = "unwind"]
    /\ UNCHANGED <<guard, owner, pending, gen, cmd, arrived, replied, dropped>>
    /\ Ran(t)

StillClaimed == slot \* mutant: a cancelled setup leaves its sentinel
\* The finally of _handle_message
Unclaimed == IF slot = Sentinel THEN Nobody ELSE slot
\* A result of a run that is no longer current is not answered.
Unwind(t) ==
    /\ At(t, "unwind")
    /\ IF Current(t)
       THEN turn' = [turn EXCEPT ![t].at = "answer"] /\ UNCHANGED slot
       ELSE turn' = [turn EXCEPT ![t].at = "sent"] /\ slot' = Unclaimed
    /\ UNCHANGED <<guard, owner, pending, gen, cmd, arrived, replied, dropped>>
    /\ Ran(t)
Answer(t) ==
    /\ At(t, "answer")
    /\ slot' = Unclaimed
    /\ replied' = replied \union turn[t].batch
    /\ turn' = [turn EXCEPT ![t].at = "sent"]
    /\ UNCHANGED <<guard, owner, pending, gen, cmd, arrived, dropped>>
    /\ Ran(t)

\* A queued event is handed to a task of its own, once the typing task has
\* stopped; a cancellation in that await is swallowed.
TakeQueued(t) ==
    /\ At(t, "sent")
    /\ IF pending = {}
       THEN turn' = [turn EXCEPT ![t].at = "cleanup"] /\ UNCHANGED pending
       ELSE /\ turn' = [turn EXCEPT ![t].at = "typing", ![t].hand = pending]
            /\ pending' = {}
    /\ UNCHANGED <<guard, owner, slot, gen, cmd, arrived, replied, dropped>>
    /\ Ran(t)
HandOverKept(t) == \* mutant: the event stays with the task
    /\ MayRun(t) /\ turn[t].at = "typing" /\ Unused # {}
    /\ turn' = [Spawn(turn, turn[t].hand) EXCEPT ![t].at = "cleanup", ![t].cut = FALSE]
    /\ owner' = Newest
    /\ UNCHANGED <<guard, pending, slot, gen, cmd, arrived, replied, dropped>>
    /\ Ran(t)
HandOver(t) ==
    /\ MayRun(t) /\ turn[t].at = "typing" /\ Unused # {}
    /\ turn' = [Spawn(turn, turn[t].hand) EXCEPT
                   ![t].at = "cleanup", ![t].cut = FALSE, ![t].hand = {}]
    /\ owner' = Newest
    /\ UNCHANGED <<guard, pending, slot, gen, cmd, arrived, replied, dropped>>
    /\ Ran(t)

CleanupUnowned(t) == \* mutant: the guard matches, so it is released
    /\ At(t, "cleanup") /\ pending = {}
    /\ turn' = [turn EXCEPT ![t].at = "over"]
    /\ owner' = IF owner = t THEN Nobody ELSE owner
    /\ guard' = IF guard = turn[t].bound THEN Nobody ELSE guard
    /\ UNCHANGED <<pending, slot, gen, cmd, arrived, replied, dropped>>
    /\ Ran(t)
CleanupForgets(t) == \* mutant: no drain of a late event
    /\ At(t, "cleanup")
    /\ turn' = [turn EXCEPT ![t].at = "over"]
    /\ owner' = IF owner = t THEN Nobody ELSE owner
    /\ guard' = IF owner = t /\ guard = turn[t].bound THEN Nobody ELSE guard
    /\ UNCHANGED <<pending, slot, gen, cmd, arrived, replied, dropped>>
    /\ Ran(t)
\* The end of the task's finally: a late event gets a task, unless another
\* task owns the session; without one the owner releases its guard.
Cleanup(t) ==
    /\ At(t, "cleanup")
    /\ LET ended == [turn EXCEPT ![t].at = "over"]
       IN  IF pending # {}
           THEN IF owner \in {Nobody, t}
                THEN /\ Unused # {}
                     /\ turn' = Spawn(ended, pending)
                     /\ owner' = Newest /\ pending' = {} /\ UNCHANGED guard
                ELSE turn' = ended /\ UNCHANGED <<owner, pending, guard>>
           ELSE /\ turn' = ended
                /\ owner' = IF owner = t THEN Nobody ELSE owner
                /\ guard' = IF owner = t /\ guard = turn[t].bound THEN Nobody ELSE guard
                /\ UNCHANGED pending
    /\ UNCHANGED <<slot, gen, cmd, arrived, replied, dropped>>
    /\ Ran(t)

-----------------------------------------------------------------------------
(* CancelledError, thrown at the await where the task is.                  *)

CutTo(t, point) == turn' = [turn EXCEPT ![t].cut = FALSE, ![t].at = point]

\* A task that has not begun never runs; the stop_typing of the last finally
\* lets the error through.
CutDead(t) ==
    /\ Cut(t, {"spawned", "cleanup"})
    /\ CutTo(t, "over")
    /\ UNCHANGED <<guard, owner, pending, slot, gen, cmd, arrived, replied, dropped>>
    /\ Ran(t)
\* Outside _run_agent: the finally of _handle_message, if it was entered.
CutHandler(t) ==
    /\ Cut(t, {"hook", "setup", "unwind", "answer", "sent", "abort"})
    /\ CutTo(t, "cleanup")
    /\ slot' = IF turn[t].at \in {"setup", "unwind", "answer"} THEN Unclaimed ELSE slot
    /\ UNCHANGED <<guard, owner, pending, gen, cmd, arrived, replied, dropped>>
    /\ Ran(t)
\* In _run_agent: its finally first.  The agent thread goes on by itself.
CutRun(t) ==
    /\ Cut(t, {"run", "again"})
    /\ CutTo(t, "abort")
    /\ slot' = Released(t)
    /\ UNCHANGED <<guard, owner, pending, gen, cmd, arrived, replied, dropped>>
    /\ Ran(t)
Abort(t) ==
    /\ At(t, "abort")
    /\ slot' = Unclaimed
    /\ turn' = [turn EXCEPT ![t].at = "cleanup"]
    /\ UNCHANGED <<guard, owner, pending, gen, cmd, arrived, replied, dropped>>
    /\ Ran(t)
\* Awaits under `except CancelledError: pass`.
CutIgnored(t) ==
    /\ Cut(t, {"closing", "unwind", "abort", "cleanup"})
    /\ turn' = [turn EXCEPT ![t].cut = FALSE]
    /\ UNCHANGED <<guard, owner, pending, slot, gen, cmd, arrived, replied, dropped>>
    /\ Ran(t)

-----------------------------------------------------------------------------
(* _dispatch_active_session_command: /stop and /new while the session has  *)
(* a guard.  The command's own guard keeps new messages queued.            *)

\* The command is handled: a running agent is interrupted and its generation
\* ends (_interrupt_and_clear_session up to its await); without one /stop
\* has nothing to do, and /new resets the session.
Issue(c, kind) ==
    /\ MayRun(c) /\ cmd[c].at = "unused" /\ guard # Nobody /\ ~ Stale
    /\ guard' = c
    /\ cmd' = [cmd EXCEPT ![c] =
                  [at |-> IF slot = Nobody THEN "respond" ELSE "stopping",
                   kind |-> kind, victim |-> Nobody]]
    /\ gen' = IF slot = Nobody /\ kind = "stop" THEN gen ELSE gen + 1
    /\ turn' = Interrupt(turn, {})
    /\ dropped' = dropped \union (arrived \ replied)
    /\ UNCHANGED <<owner, pending, slot, arrived, replied>>
    /\ Ran(c)

\* The rest of it: the queued event is discarded, the slot released; /new
\* goes on to _handle_reset_command.
Clear(c) ==
    /\ MayRun(c) /\ cmd[c].at = "stopping"
    /\ pending' = {} /\ slot' = Nobody
    /\ gen' = IF cmd[c].kind = "new" THEN gen + 1 ELSE gen
    /\ cmd' = [cmd EXCEPT ![c].at = "respond"]
    /\ UNCHANGED <<guard, owner, turn, arrived, replied, dropped>>
    /\ Ran(c)

DrainKeepsGuard(c, tasks, own) == \* mutant: only a drain replaces the guard
    IF pending # {}
    THEN /\ Unused # {}
         /\ turn' = Spawn(tasks, pending) /\ pending' = {}
         /\ owner' = Newest /\ guard' = Newest
    ELSE turn' = tasks /\ owner' = own /\ UNCHANGED <<pending, guard>>
\* _drain_pending_after_session_command
Drain(c, tasks, own) ==
    IF pending # {}
    THEN /\ Unused # {}
         /\ turn' = Spawn(tasks, pending) /\ pending' = {}
         /\ owner' = Newest /\ guard' = Newest
    ELSE /\ turn' = tasks /\ owner' = own /\ UNCHANGED pending
         /\ guard' = IF guard = c THEN Nobody ELSE guard

\* The response is out: cancel_session_processing.
Cancel(c) ==
    /\ MayRun(c) /\ cmd[c].at = "respond"
    /\ IF owner # Nobody /\ ~ Over(owner)
       THEN /\ turn' = [turn EXCEPT ![owner].cut = TRUE] /\ owner' = Nobody
            /\ cmd' = [cmd EXCEPT ![c].at = "join", ![c].victim = owner]
            /\ UNCHANGED <<guard, pending>>
       ELSE /\ Drain(c, turn, Nobody)
            /\ cmd' = [cmd EXCEPT ![c].at = "done"]
    /\ UNCHANGED <<slot, gen, arrived, replied, dropped>>
    /\ Ran(c)
\* It waits for the task it cancelled, five seconds at most: one that has not
\* ended by then has got its CancelledError, and unwinds in the background.
Join(c) ==
    /\ MayRun(c) /\ cmd[c].at = "join"
    /\ Over(cmd[c].victim) \/ ~ turn[cmd[c].victim].cut
    /\ Drain(c, turn, owner)
    /\ cmd' = [cmd EXCEPT ![c].at = "done"]
    /\ UNCHANGED <<slot, gen, arrived, replied, dropped>>
    /\ Ran(c)
-----------------------------------------------------------------------------
TurnStep(t) ==
    \/ Begin(t) \/ Claim(t) \/ Merge(t) \/ Push(t) \/ Run(t) \/ Track(t)
    \/ FollowUp(t) \/ Finish(t) \/ Fail(t) \/ Close(t) \/ Unwind(t) \/ Answer(t)
    \/ TakeQueued(t) \/ HandOver(t) \/ Cleanup(t)
    \/ CutDead(t) \/ CutHandler(t) \/ CutRun(t) \/ Abort(t) \/ CutIgnored(t)
CommandStep(c) == Clear(c) \/ Cancel(c) \/ Join(c)

Next ==
    \/ \E m \in Messages : Arrive(m)
    \/ \E t \in Turns : TurnStep(t)
    \/ \E c \in Commands, kind \in {"stop", "new"} : Issue(c, kind)
    \/ \E c \in Commands : CommandStep(c)

Spec == Init /\ [][Next]_vars

-----------------------------------------------------------------------------
(* The types, and that a queued event is out of the queue and in no task   *)
(* only during the await of its hand-over.                                 *)
TypeOK ==
    /\ guard \in Turns \union Commands \union {Nobody}
    /\ owner \in Turns \union {Nobody}
    /\ slot \in Turns \union {Nobody, Sentinel}
    /\ pending \subseteq Messages /\ gen \in Nat
    /\ turn \in [Turns -> Task] /\ cmd \in [Commands -> Dispatch]
    /\ arrived \subseteq Messages
    /\ replied \union dropped \union crossed \subseteq arrived
    /\ wedged \subseteq Turns \union {Nobody}
    /\ ahead \subseteq Messages \union Commands \union Turns
    /\ \A t \in Turns : turn[t].hand # {} => turn[t].at = "typing"

\* The turns past the claim whose task is not being cancelled
Busy == {t \in Turns : turn[t].at \in {"setup", "run", "again"} /\ ~ turn[t].cut}
\* "Without this sentinel a second message [...] would pass the "already running"
\* guard and spin up a duplicate agent for the same session" (_handle_message):
\* with it, whatever the adapter's guard lets through, a session never has two
\* turns that set up or run an agent.
OneRun == Cardinality(Busy) <= 1

Working == {t \in Turns : turn[t].at \notin {"unused", "cleanup", "over"} /\ ~ turn[t].cut}
\* The adapter's guard alone keeps the session to one task at work, across
\* both drains, the hand-over of the ownership and the commands, with two
\* exceptions: a message came or was queued while a command was dispatched, or
\* a command went on after five seconds without the task that it cut.
OneTurn == crossed = {} /\ wedged = {} => Cardinality(Working) <= 1

Quiet ==
    /\ \A t \in Turns : turn[t].at \in {"unused", "over"}
    /\ \A c \in Commands : cmd[c].at \in {"unused", "done"}
\* A session at rest has an empty slot: no sentinel and no agent outlives its
\* turn, however the turn was cut.
SlotFree == Quiet => slot = Nobody

\* A session at rest takes the next message: it has no guard, or one whose
\* recorded task is over.  With the first exception only: a task that unwinds
\* late leaves no guard behind.
NotTrapped == Quiet /\ crossed = {} => guard = Nobody \/ Stale

\* A session at rest has answered every message, or given it up for a command
\* or a later message; nothing is left queued.  With both exceptions.
Served ==
    Quiet /\ crossed = {} /\ wedged = {} => pending = {} /\ arrived = replied \union dropped
=============================================================================
