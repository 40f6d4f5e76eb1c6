----------------------------- MODULE TaskBoard ------------------------------
(***************************************************************************)
(* What a task board promises, however it stores its rows: a task is       *)
(* worked on by one attempt at a time, an attempt starts when everything   *)
(* the task needs is settled, it has one outcome, which it gets in the     *)
(* step that takes the task from it, and a task that is done stays done.   *)
(***************************************************************************)
CONSTANTS
    Tasks,
    Attempts,
    Nobody      \* not an attempt

VARIABLES
    stage,      \* by task
    holder,     \* by task: the attempt that works on it
    outcome,    \* by attempt: unused, open, or how it ended
    needs       \* <<p, t>>: t needs p

boardVars == <<stage, holder, outcome, needs>>

BoardInit ==
    /\ stage = [t \in Tasks |-> "absent"] /\ holder = [t \in Tasks |-> Nobody]
    /\ outcome = [a \in Attempts |-> "unused"] /\ needs = {}

Met(t) == \A p \in Tasks : <<p, t>> \in needs => stage[p] \in {"done", "archived"}

\* A task comes onto the board with what it needs.
Add(t) ==
    /\ stage[t] = "absent" /\ needs \subseteq needs'
    /\ \A l \in needs' \ needs : l[2] = t
    /\ \/ stage' = [stage EXCEPT ![t] = "triage"]
       \/ stage' = [stage EXCEPT ![t] = "todo"]
       \/ /\ \A l \in needs' \ needs : stage[l[1]] = "done"
          /\ stage' = [stage EXCEPT ![t] = "ready"]
    /\ UNCHANGED <<holder, outcome>>

\* What a task needs changes; a task that is ready may have to wait again.
Rewire(t) ==
    /\ \A l \in (needs \ needs') \union (needs' \ needs) : l[2] = t
    /\ \/ UNCHANGED stage
       \/ stage[t] = "ready" /\ stage' = [stage EXCEPT ![t] = "todo"]
    /\ UNCHANGED <<holder, outcome>>

\* Tasks that nobody holds move, several at once.
Moves == {<<"triage", "todo">>, <<"ready", "todo">>, <<"ready", "blocked">>,
          <<"blocked", "ready">>, <<"blocked", "todo">>, <<"ready", "done">>,
          <<"blocked", "done">>}
Arrange ==
    /\ DOMAIN stage' = Tasks
    /\ \A t \in Tasks :
          \/ stage'[t] = stage[t]
          \/ <<stage[t], stage'[t]>> \in Moves
          \/ stage[t] = "todo" /\ stage'[t] = "ready" /\ Met(t)
          \/ stage[t] \notin {"absent", "held"} /\ stage'[t] = "archived"
    /\ UNCHANGED <<holder, outcome, needs>>

Start(t) ==
    /\ stage[t] = "ready" /\ Met(t)
    /\ stage' = [stage EXCEPT ![t] = "held"]
    /\ holder' = [holder EXCEPT ![t] = holder'[t]]
    /\ holder'[t] \in Attempts /\ outcome[holder'[t]] = "unused"
    /\ outcome' = [outcome EXCEPT ![holder'[t]] = "open"]
    /\ UNCHANGED needs

\* Attempts end, and their tasks are free, stopped or finished.
Finish ==
    /\ DOMAIN stage' = Tasks /\ DOMAIN holder' = Tasks /\ DOMAIN outcome' = Attempts
    /\ \A t \in Tasks :
          \/ stage'[t] = stage[t] /\ holder'[t] = holder[t]
          \/ /\ stage[t] = "held" /\ holder'[t] = Nobody
             /\ stage'[t] \in {"todo", "ready", "blocked", "done", "archived"}
    /\ \A a \in Attempts :
          IF \E t \in Tasks : holder[t] = a /\ holder'[t] # a
          THEN outcome[a] = "open" /\ outcome'[a] \notin {"open", "unused"}
          ELSE outcome'[a] = outcome[a]
    /\ UNCHANGED needs

BoardNext ==
    \/ Arrange \/ Finish
    \/ \E t \in Tasks : Add(t) \/ Rewire(t) \/ Start(t)

BoardSpec == BoardInit /\ [][BoardNext]_boardVars
=============================================================================
