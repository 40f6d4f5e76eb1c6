-------------------------- MODULE BlockingApproval --------------------------
(***************************************************************************)
(* Approval of dangerous commands in one gateway session                   *)
(* (tools/approval.py): the threads of a turn queue an entry each and      *)
(* block; /approve and /deny take entries off the queue; the end of a turn *)
(* and a session boundary release all; what the user wants remembered is   *)
(* kept for the session or in config.yaml.                                 *)
(***************************************************************************)
EXTENDS Naturals, Sequences, SequencesExt

CONSTANTS
    Asks,      \* commands that meet the guard, one entry each
    Keys,      \* pattern keys
    Tirith,    \* those of tirith's rules: never allowed for good
    MaxTurns,  \* bound: turns of the session
    MaxClears  \* bound: session boundaries

ASSUME ApprovalAssumption ==
    Tirith \subseteq Keys /\ MaxTurns \in Nat /\ MaxClears \in Nat

VARIABLES
    turn,       \* by turn: not begun, running, interrupted or over
    cb,         \* _gateway_notify_cbs: the turn whose callback it is, 0 for none
    queue,      \* _gateway_queues
    ask,        \* by command: its thread and its entry
    session,    \* _session_approved
    permanent,  \* _permanent_approved
    config,     \* command_allowlist in config.yaml
    clears,     \* session boundaries so far
    dropped,    \* history: a save left out a pattern that was in config.yaml
    unsaved     \* history: patterns of saves that failed, until one lists them

vars == <<turn, cb, queue, ask, session, permanent, config, clears,
          dropped, unsaved>>

Turns == 1..MaxTurns
Approvals == {"once", "session", "always"}
\* What an entry was taken off the queue with; "silent" leaves result at None.
Answers == Approvals \union {"deny", "cleared", "silent"}
Points == {"idle", "append", "notify", "wait", "remember", "list", "save",
           "passed", "ran", "blocked", "unasked"}
Ends == {"passed", "ran", "blocked", "unasked"}
Ask == [at : Points, keys : SUBSET Keys, answer : Answers \union {"none"},
        set : BOOLEAN, list : SUBSET Keys]
NoAsk == [at |-> "idle", keys |-> {}, answer |-> "none", set |-> FALSE, list |-> {}]

\* load_permanent_allowlist, as a process starts, which may fail
Read(patterns) == patterns = config \/ patterns = {}

Init ==
    /\ turn = [r \in Turns |-> "new"] /\ cb = 0
    /\ queue = <<>> /\ ask = [a \in Asks |-> NoAsk]
    /\ session = {} /\ config \in SUBSET (Keys \ Tirith) /\ Read(permanent)
    /\ clears = 0 /\ dropped = FALSE /\ unsaved = {}

At(a, point) == ask[a].at = point
Put(a, rec)  == ask' = [ask EXCEPT ![a] = rec]
Go(a, point) == Put(a, [ask[a] EXCEPT !.at = point])
\* The end of a command; its entry is garbage but for the answer that it had.
Done(a, point) == Put(a, [NoAsk EXCEPT !.at = point,
    !.answer = IF point = "ran" THEN ask[a].answer ELSE "none", !.set = point = "ran"])
Queued == {queue[i] : i \in DOMAIN queue}
\* The queue after queue.remove(entry), if the entry is in it
Without(a) == IF a \in Queued
              THEN RemoveAt(queue, CHOOSE i \in DOMAIN queue : queue[i] = a) ELSE queue
Remembered == <<session, permanent, config, dropped, unsaved>>
Turning == <<turn, cb, clears>>

-----------------------------------------------------------------------------
(* Turns of the gateway                                                    *)

\* A turn registers its callback; only an interrupted one may still run.
Begin(r) ==
    /\ turn[r] = "new" /\ \A s \in Turns : turn[s] # "on" /\ (s < r => turn[s] # "new")
    /\ turn' = [turn EXCEPT ![r] = "on"] /\ cb' = r
    /\ UNCHANGED <<queue, ask, clears, Remembered>>

\* /stop, and /new before the boundary: the session is free for the next
\* turn, the threads of this one go on until they notice.
Interrupt(r) ==
    /\ turn[r] = "on" /\ turn' = [turn EXCEPT ![r] = "cut"]
    /\ UNCHANGED <<cb, queue, ask, clears, Remembered>>

\* Entries leave the queue under the lock, all or the oldest; their events
\* are set after it.
Told(as, answer) == ask' = [a \in Asks |-> IF a \in as THEN [ask[a] EXCEPT !.answer = answer]
                                                      ELSE ask[a]]
TakeAll(answer)   == queue' = <<>> /\ Told(Queued, answer)
TakeFirst(answer) == queue' = Tail(queue) /\ Told({Head(queue)}, answer)

\* unregister_gateway_notify, when the turn's thread ends
End(r) ==
    /\ turn[r] \in {"on", "cut"} /\ turn' = [turn EXCEPT ![r] = "over"]
    /\ cb' = 0 /\ TakeAll("silent")
    /\ UNCHANGED <<clears, Remembered>>

\* The rest of resolve_gateway_approval, unregister_gateway_notify and
\* clear_session, one entry after the other: its result, then its event.
Deliver(a) ==
    /\ ask[a].answer # "none" /\ ~ ask[a].set
    /\ ask' = [ask EXCEPT ![a].set = TRUE]
    /\ UNCHANGED <<queue, Turning, Remembered>>
\* The handlers share one event loop, so that each delivers before the next.
LoopFree == \A a \in Asks : ask[a].answer \in {"none", "silent"} \/ ask[a].set

\* clear_session, at /new, /resume and /branch, after the interrupt
Clear ==
    /\ LoopFree /\ clears < MaxClears /\ \A r \in Turns : turn[r] # "on"
    /\ clears' = clears + 1 /\ session' = {} /\ TakeAll("cleared")
    /\ UNCHANGED <<turn, cb, permanent, config, dropped, unsaved>>

\* resolve_gateway_approval: /approve, /deny or a button, with or without "all"
Resolve(answer, all) ==
    /\ LoopFree /\ queue # <<>>
    /\ IF all THEN TakeAll(answer) ELSE TakeFirst(answer)
    /\ UNCHANGED <<Turning, Remembered>>

-----------------------------------------------------------------------------
(* check_all_command_guards, in a thread of a turn or one that it left     *)

\* What is not yet approved is asked for, if there is a callback.
Check(a, keys) ==
    LET warnings == keys \ (session \union permanent)
    IN  /\ At(a, "idle") /\ \E r \in Turns : turn[r] # "new"
        /\ \/ warnings = {} /\ Done(a, "passed")
           \/ warnings # {} /\ cb = 0 /\ Done(a, "unasked")
           \/ /\ warnings # {} /\ cb # 0
              /\ Put(a, [NoAsk EXCEPT !.at = "append", !.keys = warnings])
        /\ UNCHANGED <<queue, Turning, Remembered>>

Enqueue(a) ==
    /\ At(a, "append") /\ queue' = Append(queue, a) /\ Go(a, "notify")
    /\ UNCHANGED <<Turning, Remembered>>

\* The prompt is out, or the callback raised and the entry is withdrawn.
Notify(a) ==
    /\ At(a, "notify")
    /\ \/ Go(a, "wait") /\ UNCHANGED queue
       \/ Done(a, "blocked") /\ queue' = Without(a)
    /\ UNCHANGED <<Turning, Remembered>>

GrantedUnlessDenied(answer) == answer \notin {"deny", "cleared"} \* mutant
Granted(answer) == answer \in Approvals

\* The event is set: the entry is cleaned up and the answer read.
Wake(a) ==
    /\ At(a, "wait") /\ ask[a].set
    /\ queue' = Without(a)
    /\ \/ ~ Granted(ask[a].answer) /\ Done(a, "blocked")
       \/ Granted(ask[a].answer) /\ ask[a].answer = "once" /\ Done(a, "ran")
       \/ Granted(ask[a].answer) /\ ask[a].answer # "once" /\ Go(a, "remember")
    /\ UNCHANGED <<Turning, Remembered>>

TimeoutStays(a) == \* mutant: the entry stays in the queue
    At(a, "wait") /\ Done(a, "blocked") /\ UNCHANGED <<queue, Turning, Remembered>>
\* The deadline passes; an answer that comes between is not looked at.
Timeout(a) ==
    /\ At(a, "wait") /\ Done(a, "blocked") /\ queue' = Without(a)
    /\ UNCHANGED <<Turning, Remembered>>

RememberUnsaved(a, k) == \* mutant: without save_permanent_allowlist
    /\ At(a, "remember") /\ k \in ask[a].keys
    /\ session' = session \union {k}
    /\ permanent' = IF ask[a].answer = "always" /\ k \notin Tirith
                    THEN permanent \union {k} ELSE permanent
    /\ Put(a, [ask[a] EXCEPT !.keys = @ \ {k}])
    /\ UNCHANGED <<queue, Turning, config, dropped, unsaved>>
\* For each warning: approve_session, and approve_permanent with its save
\* unless it is tirith's.
Remember(a, k) ==
    LET always == ask[a].answer = "always" /\ k \notin Tirith
    IN  /\ At(a, "remember") /\ k \in ask[a].keys
        /\ session' = session \union {k}
        /\ permanent' = IF always THEN permanent \union {k} ELSE permanent
        /\ Put(a, [ask[a] EXCEPT !.keys = @ \ {k}, !.at = IF always THEN "list" ELSE @])
        /\ UNCHANGED <<queue, Turning, config, dropped, unsaved>>
\* save_permanent_allowlist: list(patterns), then save_config; what they raise
\* is swallowed, and a managed installation does not write at all.
ListPermanent(a) ==
    /\ At(a, "list") /\ Put(a, [ask[a] EXCEPT !.list = permanent, !.at = "save"])
    /\ UNCHANGED <<queue, Turning, Remembered>>
SavePermanent(a) ==
    /\ At(a, "save")
    /\ \/ /\ config' = ask[a].list /\ unsaved' = unsaved \ ask[a].list
          /\ dropped' = (dropped \/ ~ config \subseteq ask[a].list)
       \/ /\ unsaved' = unsaved \union (ask[a].list \ config)
          /\ UNCHANGED <<config, dropped>>
    /\ Put(a, [ask[a] EXCEPT !.list = {}, !.at = "remember"])
    /\ UNCHANGED <<queue, Turning, session, permanent>>
Run(a) ==
    /\ At(a, "remember") /\ ask[a].keys = {} /\ Done(a, "ran")
    /\ UNCHANGED <<queue, Turning, Remembered>>

\* The gateway ends, and starts with load_permanent_allowlist.
Restart ==
    /\ turn' = [r \in Turns |-> IF turn[r] = "new" THEN "new" ELSE "over"]
    /\ cb' = 0 /\ queue' = <<>> /\ session' = {}
    /\ Read(permanent') /\ unsaved' = {}
    /\ ask' = [a \in Asks |-> IF At(a, "idle") \/ ask[a].at \in Ends THEN ask[a]
                              ELSE [NoAsk EXCEPT !.at = "blocked"]]
    /\ UNCHANGED <<config, clears, dropped>>
-----------------------------------------------------------------------------
Thread(a) ==
    \/ Enqueue(a) \/ Notify(a) \/ Wake(a) \/ Timeout(a)
    \/ \E k \in Keys : Remember(a, k)
    \/ ListPermanent(a) \/ SavePermanent(a) \/ Run(a)

Next ==
    \/ \E r \in Turns : Begin(r) \/ Interrupt(r) \/ End(r)
    \/ Clear \/ Restart
    \/ \E answer \in Approvals \union {"deny"}, all \in BOOLEAN : Resolve(answer, all)
    \/ \E a \in Asks : Thread(a) \/ Deliver(a)
    \/ \E a \in Asks, keys \in SUBSET Keys \ {{}} : Check(a, keys)

Spec == Init /\ [][Next]_vars

-----------------------------------------------------------------------------
(* The types; an entry is queued once, a command runs with an approval or  *)
(* without need of one, and tirith's keys are never allowed for good.      *)
TypeOK ==
    /\ turn \in [Turns -> {"new", "on", "cut", "over"}] /\ cb \in Turns \union {0}
    /\ queue \in Seq(Asks) /\ IsInjective(queue) /\ ask \in [Asks -> Ask]
    /\ \A a \in Asks : ask[a].at \in {"remember", "list", "save", "ran"} =>
           ask[a].answer \in Approvals
    /\ session \subseteq Keys /\ permanent \union config \subseteq Keys \ Tirith
    /\ clears \in 0..MaxClears /\ dropped \in BOOLEAN /\ unsaved \subseteq Keys

\* The queue is what can be answered, whatever other threads, turns and
\* boundaries do to it.  A thread that blocks is in it, or was taken off and
\* will be told ("Signals ALL blocked threads", unregister_gateway_notify);
\* and no answer is spent on a command that nobody waits for any more.
QueueIsExact ==
    /\ \A a \in Asks : At(a, "wait") /\ ask[a].answer = "none" => a \in Queued
    /\ \A a \in Queued : ask[a].at \in {"notify", "wait"} /\ ask[a].answer = "none"

\* What was allowed for good is in config.yaml, or a thread is about to write
\* it, or its save failed and no other has succeeded since; unless a save left
\* out what was in the file, having crossed another or not loaded it first.
AlwaysIsSaved == \A k \in permanent \ config : dropped \/ k \in unsaved \/
    \E a \in Asks : At(a, "list") \/ (At(a, "save") /\ k \in ask[a].list)
=============================================================================
